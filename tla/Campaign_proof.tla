---------------------------- MODULE Campaign_proof ----------------------------
(***************************************************************************)
(* Theorems about Campaign, for every corpus, every reduction relation,    *)
(* every batch size and number of reproductions, and every importer, flaky *)
(* or not, replaced while the campaign runs or not.                        *)
(***************************************************************************)
EXTENDS Campaign, SequenceLemmas, TLAPS

Searching == {"open", "validate", "write", "run"}
Reducing == {"check", "reduce", "evaluate", "recheck", "verify", "reproduce"}
Reporting == {"report", "finish"}

(* What passed the profile: the batches validated so far, the whole corpus *)
(* once that ended, everything the cache calls valid, and all that was run.*)
ValidInv ==
  /\ pc = "open" => next = 1
  /\ pc = "validate" =>
       \A j \in DOMAIN Cases : j < next => profile[Cases[j]]
  /\ pc \notin {"open", "validate"} \cup Ended =>
       \A d \in Range(Cases) : profile[d]
  /\ pc = "run" => \A d \in Range(Cases) : cache[d] = "valid"
  /\ \A d \in Doc : cache[d] = "valid" => profile[d]
  /\ pc \in Reducing \cup {"pack"} => cache[current] = "valid"
  /\ OnlyValidRun

(* What is held: no finding before the first match, then exactly one       *)
(* digest; no record before the capsule is opened.                         *)
FindingInv ==
  /\ pc \in Searching => found = NoFinding /\ seen = <<>>
  /\ pc \in Reducing \cup {"pack"} =>
       found.digest # NoDigest /\ digests = {found.digest}
  /\ pc \in Searching \cup Reducing => record = NoRecord
  /\ pc \in Searching \cup Reducing \cup {"pack"} =>
       "capsule" \notin disk /\ "result" \notin disk
  /\ "result" \in disk => pc \in {"finish"} \cup Ended
  /\ pc = "finish" => "result" \in disk
  /\ "junit" \in disk => pc \in Ended

(* What a capsule rests on.                                                *)
Checked(doc) ==
  \A d \in Range(Reduce[doc]) :
    cache[d] = "invalid" \/ (cache[d] = "valid" /\ d \in refuted)

EvidenceInv ==
  /\ \A i \in DOMAIN seen :
       /\ seen[i] = seen[1]
       /\ Matched(seen[i]) /\ Signature(seen[i]) = found.signature
  /\ pc = "verify" =>
       \A d \in Range(Reduce[current]) :
         /\ cache[d] # "unknown"
         /\ d \in Range(todo) \/ cache[d] = "invalid" \/ d \in refuted
  /\ pc \in {"reproduce", "pack"} => Checked(current)
  /\ pc = "pack" =>
       /\ record = [doc |-> current, digest |-> found.digest,
                    observations |-> seen]
       /\ Len(seen) = Reproductions
  /\ "capsule" \in disk =>
       /\ profile[record.doc] /\ Checked(record.doc)
       /\ record.observations = seen /\ Len(seen) = Reproductions
       /\ digests = {record.digest} /\ record # NoRecord

(* A campaign without a capsule ran every candidate and found nothing.     *)
CleanInv ==
  /\ pc = "write" => next = 1
  /\ pc = "run" => \A i \in 1..(next - 1) : Candidates[i] \in ran
  /\ pc \in Reporting /\ record = NoRecord =>
       found = NoFinding /\ Range(Candidates) \subseteq ran
  /\ pc \in Reporting /\ record # NoRecord => "capsule" \in disk
  /\ ResultNeverDangles
  /\ CleanMeansClean

-----------------------------------------------------------------------------
(* Every case is a document.                                               *)
LEMMA CasesTyped ==
  /\ Cases \in Seq(Doc) /\ Len(Cases) = 1 + Len(Candidates)
  /\ Range(Cases) \subseteq Doc
  /\ \A i \in 1..Len(Candidates) :
       Candidates[i] \in Range(Cases) /\ Candidates[i] \in Doc
<1> USE CampaignAssumption
<1>1. /\ <<Seed>> \in Seq(Doc) /\ Len(<<Seed>>) = 1
      /\ Candidates \in Seq(Doc) /\ Len(Candidates) \in Nat
  OBVIOUS
<1>2. /\ Cases \in Seq(Doc) /\ Len(Cases) = 1 + Len(Candidates)
      /\ \A i \in 1..Len(Candidates) : Cases[i + 1] = Candidates[i]
  BY <1>1 DEF Cases
<1>3. Range(Cases) \subseteq Doc
  BY <1>2, SeqRange
<1>4. ASSUME NEW i \in 1..Len(Candidates)
      PROVE  Candidates[i] \in Range(Cases) /\ Candidates[i] \in Doc
  <2>1. i + 1 \in DOMAIN Cases /\ Cases[i + 1] = Candidates[i]
    BY <1>1, <1>2
  <2>2. QED
    BY <1>3, <2>1 DEF Range
<1>5. QED
  BY <1>2, <1>3, <1>4

(* The reductions of a document are documents.                             *)
LEMMA ReductionsTyped ==
  ASSUME NEW d \in Doc
  PROVE  Reduce[d] \in Seq(Doc) /\ Range(Reduce[d]) \subseteq Doc
BY CampaignAssumption, SeqRange

(* What a call of the validator leaves in the cache.                       *)
LEMMA ValidatedCache ==
  ASSUME TypeOK, NEW docs \in SUBSET Doc, Validated(docs)
  PROVE  /\ cache' \in [Doc -> {"unknown", "valid", "invalid"}]
         /\ \A d \in Doc : cache[d] # "unknown" => cache'[d] = cache[d]
         /\ \A d \in docs : cache'[d] # "unknown"
         /\ \A d \in Doc : cache'[d] = "valid" => cache[d] = "valid" \/ profile[d]
<1>1. PICK unreported \in SUBSET Asked(docs) :
        cache' = [d \in Doc |-> IF d \in Asked(docs) THEN Verdict(d, unreported)
                                                     ELSE cache[d]]
  BY DEF Validated
<1>2. \A d \in Doc : /\ Verdict(d, unreported) \in {"valid", "invalid"}
                     /\ Verdict(d, unreported) = "valid" => profile[d]
  BY DEF Verdict
<1>3. /\ cache \in [Doc -> {"unknown", "valid", "invalid"}]
      /\ \A d \in docs : d \in Asked(docs) \/ cache[d] # "unknown"
      /\ \A d \in Asked(docs) : cache[d] = "unknown"
  BY DEF TypeOK, Asked
<1>4. QED
  BY <1>1, <1>2, <1>3

(* What a run of the importer on a document changes.                       *)
LEMMA RunsTyped ==
  ASSUME TypeOK, NEW d \in Doc, NEW b \in Behaviour, Runs(d, b)
  PROVE  /\ digest' = NoDigest /\ digest \in {1, 2}
         /\ ran' = ran \cup {d} /\ ran' \subseteq Doc
         /\ Signature(b) \in Behaviour
BY DEF TypeOK, Runs, NoDigest, Signature, Behaviour

(* Each step of the campaign keeps the types.                               *)
LEMMA TypeInductive ==
  ASSUME TypeOK, [Next]_vars
  PROVE  TypeOK'
<1> USE DEF Stop, SecurityFailure, UncaughtFailure, environment, search,
            reduction, output, history, Running, NoDigest, Ended
<1>1. CASE OpenOutput
  <2>1. \/ pc = "open" /\ pc' = "stopped" /\ status' = 2 /\ UNCHANGED disk
        \/ /\ pc = "open" /\ pc' = "validate" /\ UNCHANGED status
           /\ disk' = {"directory"}
    BY <1>1 DEF OpenOutput
  <2>2. UNCHANGED <<environment, search, reduction, seen, record, history>>
    BY <1>1 DEF OpenOutput
  <2>3. (pc' \in {"stopped", "crashed"}) = (status' # 3)
    BY <2>1 DEF TypeOK
  <2>4. pc' \in {"stopped", "validate"} /\ status' \in {0, 1, 2, 3}
    BY <2>1 DEF TypeOK
  <2>5. QED
    BY <2>1, <2>2, <2>3, <2>4 DEF TypeOK
<1>2. CASE ValidateBatch
  <2>1. next + BatchSize \in Nat \ {0}
    BY CampaignAssumption DEF TypeOK
  <2>2. QED
    BY <1>2, <2>1 DEF ValidateBatch, TypeOK
<1>3. CASE CorpusValidated \/ StopReducing \/ Verified \/ CorpusExhausted
           \/ CloseCapsule \/ WriteResult \/ Killed
  <2> USE DEF TypeOK
  <2>1. CASE CorpusValidated
    BY <2>1 DEF CorpusValidated
  <2>2. CASE StopReducing
    BY <2>2 DEF StopReducing
  <2>3. CASE Verified
    BY <2>3 DEF Verified
  <2>4. CASE CorpusExhausted
    BY <2>4 DEF CorpusExhausted
  <2>5. CASE CloseCapsule
    BY <2>5 DEF CloseCapsule
  <2>6. CASE WriteResult
    BY <2>6 DEF WriteResult
  <2>7. CASE Killed
    BY <2>7 DEF Killed
  <2>8. QED
    BY <1>3, <2>1, <2>2, <2>3, <2>4, <2>5, <2>6, <2>7
<1>4. CASE WriteCorpus
  BY <1>4 DEF WriteCorpus, TypeOK
<1>5. CASE RunCandidate
  <2>1. Candidates[next] \in Doc
    BY <1>5, CasesTyped DEF RunCandidate, TypeOK
  <2>2. PICK b \in Behaviour :
          /\ Runs(Candidates[next], b)
          /\ IF Matched(b)
             THEN /\ pc' = "check"
                  /\ found' = [digest |-> digest, signature |-> Signature(b)]
                  /\ current' = Candidates[next]
                  /\ digests' = {digest}
                  /\ UNCHANGED next
             ELSE /\ next' = next + 1
                  /\ UNCHANGED <<pc, found, current, digests>>
    BY <1>5 DEF RunCandidate
  <2>3. /\ digest' = 0 /\ digest \in {1, 2} /\ ran' \subseteq Doc
        /\ Signature(b) \in Behaviour
    BY <2>1, <2>2, RunsTyped
  <2>4. CASE Matched(b)
    BY <1>5, <2>1, <2>2, <2>3, <2>4 DEF RunCandidate, TypeOK
  <2>5. CASE ~Matched(b)
    <3>1. next' = next + 1 /\ UNCHANGED <<pc, found, current, digests>>
      BY <2>2, <2>5
    <3>2. next' \in Nat \ {0}
      BY <3>1 DEF TypeOK
    <3>3. UNCHANGED <<environment, cache, frontier, todo, output, status,
                      refuted>>
      BY <1>5 DEF RunCandidate
    <3>4. QED
      BY <2>3, <3>1, <3>2, <3>3 DEF TypeOK
  <2>6. QED
    BY <2>4, <2>5
<1>6. CASE CheckInitial
  <2>1. PICK b \in Behaviour :
          Runs(current, b) /\ digests' = digests \cup {digest}
    BY <1>6 DEF CheckInitial, CheckedAgain
  <2>2. /\ digest' \in {0, 1, 2} /\ ran' \subseteq Doc
        /\ digests' \subseteq {1, 2}
    BY <2>1, RunsTyped DEF TypeOK
  <2>3. \/ pc' = "stopped" /\ status' \in {1, 2}
        \/ pc = "check" /\ pc' = "reduce" /\ UNCHANGED status
    BY <1>6 DEF CheckInitial, CheckedAgain
  <2>4. QED
    BY <1>6, <2>2, <2>3 DEF CheckInitial, TypeOK
<1>7. CASE StartRound
  <2>1. PICK round \in SUBSET Range(Reduce[current]) :
          frontier' = round /\ Validated(round)
    BY <1>7 DEF StartRound
  <2>2. round \subseteq Doc
    BY <2>1, ReductionsTyped DEF TypeOK
  <2>3. cache' \in [Doc -> {"unknown", "valid", "invalid"}]
    BY <2>1, <2>2, ValidatedCache
  <2>4. QED
    BY <1>7, <2>1, <2>2, <2>3 DEF StartRound, TypeOK
<1>8. CASE Evaluate
  <2>1. PICK d \in Evaluable, b \in Behaviour :
          /\ Runs(d, b) /\ digests' = digests \cup {digest}
          /\ \/ SecurityFailure /\ UNCHANGED <<current, frontier>>
             \/ /\ pc' = "reduce" /\ current' = d /\ frontier' = {}
                /\ UNCHANGED status
             \/ frontier' = frontier \ {d} /\ UNCHANGED <<pc, current, status>>
    BY <1>8 DEF Evaluate, Reduced
  <2>2. d \in Doc
    BY DEF Evaluable, TypeOK
  <2>3. /\ digest' \in {0, 1, 2} /\ ran' \subseteq Doc
        /\ digests' \subseteq {1, 2}
    BY <2>1, <2>2, RunsTyped DEF TypeOK
  <2>4. QED
    BY <1>8, <2>1, <2>2, <2>3 DEF Evaluate, TypeOK
<1>9. CASE Recheck
  <2>1. PICK b \in Behaviour :
          Runs(current, b) /\ digests' = digests \cup {digest}
    BY <1>9 DEF Recheck, CheckedAgain
  <2>2. /\ digest' \in {0, 1, 2} /\ ran' \subseteq Doc
        /\ digests' \subseteq {1, 2}
    BY <2>1, RunsTyped DEF TypeOK
  <2>3. \/ pc' = "stopped" /\ status' \in {1, 2}
        \/ pc = "recheck" /\ pc' = "verify" /\ UNCHANGED status
    BY <1>9 DEF Recheck, CheckedAgain
  <2>4. Reduce[current] \in Seq(Doc) /\ Range(Reduce[current]) \subseteq Doc
    BY ReductionsTyped DEF TypeOK
  <2>5. cache' \in [Doc -> {"unknown", "valid", "invalid"}]
    BY <1>9, <2>4, ValidatedCache DEF Recheck
  <2>6. QED
    BY <1>9, <2>2, <2>3, <2>4, <2>5 DEF Recheck, TypeOK
<1>10. CASE VerifyNext
  <2>1. /\ pc = "verify" /\ todo \in Seq(Doc) /\ todo # <<>>
        /\ todo' = Tail(todo)
    BY <1>10 DEF VerifyNext, TypeOK
  <2>2. Head(todo) \in Doc /\ Tail(todo) \in Seq(Doc)
    BY <2>1, TailRange
  <2>3. CASE UNCHANGED <<pc, digest, status, history>>
    BY <1>10, <2>1, <2>2, <2>3 DEF VerifyNext, TypeOK
  <2>4. CASE ~UNCHANGED <<pc, digest, status, history>>
    <3>1. PICK b \in Behaviour :
            /\ Runs(Head(todo), b) /\ digests' = digests \cup {digest}
            /\ \/ SecurityFailure /\ UNCHANGED refuted
               \/ /\ refuted' = refuted \cup {Head(todo)}
                  /\ UNCHANGED <<pc, status>>
      BY <1>10, <2>4 DEF VerifyNext
    <3>2. /\ digest' \in {0, 1, 2} /\ ran' \subseteq Doc
          /\ digests' \subseteq {1, 2}
      BY <2>2, <3>1, RunsTyped DEF TypeOK
    <3>3. QED
      BY <1>10, <2>1, <2>2, <3>1, <3>2 DEF VerifyNext, TypeOK
  <2>5. QED
    BY <2>3, <2>4
<1>11. CASE Reproduce
  <2>1. PICK b \in Behaviour :
          /\ Runs(current, b) /\ digests' = digests \cup {digest}
          /\ \/ seen' = Append(seen, b) /\ UNCHANGED <<pc, status>>
             \/ SecurityFailure /\ UNCHANGED seen
    BY <1>11 DEF Reproduce
  <2>2. /\ digest' \in {0, 1, 2} /\ ran' \subseteq Doc
        /\ digests' \subseteq {1, 2}
    BY <2>1, RunsTyped DEF TypeOK
  <2>3. seen' \in Seq(Behaviour) /\ Len(seen') <= Reproductions
    <3>1. /\ seen \in Seq(Behaviour) /\ Len(seen) < Reproductions
          /\ Reproductions \in Nat
      BY <1>11, CampaignAssumption DEF Reproduce, Outstanding, TypeOK
    <3>2. /\ Append(seen, b) \in Seq(Behaviour)
          /\ Len(Append(seen, b)) = Len(seen) + 1 /\ Len(seen) \in Nat
      BY <3>1
    <3>3. QED
      BY <2>1, <3>1, <3>2
  <2>4. QED
    BY <1>11, <2>1, <2>2, <2>3 DEF Reproduce, TypeOK
<1>12. CASE OpenCapsule
  BY <1>12 DEF OpenCapsule, Packing, TypeOK
<1>13. CASE Finish
  BY <1>13 DEF Finish, TypeOK
<1>14. CASE TakeDigest
  BY <1>14 DEF TakeDigest, RunIsDue, TypeOK
<1>15. CASE CallFails
  BY <1>15 DEF CallFails, Crash, TypeOK
<1>16. CASE EditImporter
  BY <1>16, CampaignAssumption DEF EditImporter, TypeOK
<1>17. CASE UNCHANGED vars
  BY <1>17 DEF vars, TypeOK
<1>18. QED
  BY <1>1, <1>2, <1>3, <1>4, <1>5, <1>6, <1>7, <1>8, <1>9, <1>10, <1>11,
     <1>12, <1>13, <1>14, <1>15, <1>16, <1>17 DEF Next, Step

-----------------------------------------------------------------------------
(* The verdicts of the profile stay, and the importer only runs on what    *)
(* passed it.                                                              *)
LEMMA RunOnValid ==
  ASSUME TypeOK, ValidInv, UNCHANGED profile, NEW d \in Doc,
         ran' = ran \cup {d}, cache[d] = "valid",
         pc \notin {"open", "validate"} \cup Ended
  PROVE  OnlyValidRun'
<1>1. \A c \in Range(Cases) \cup ran \cup {d} : profile[c]
  BY DEF ValidInv, OnlyValidRun
<1>2. QED
  BY <1>1 DEF OnlyValidRun

(* A run starts after the documents were found valid, and they stay so.     *)
LEMMA ValidInductive ==
  ASSUME TypeOK, ValidInv, [Next]_vars
  PROVE  ValidInv'
<1> USE DEF Stop, SecurityFailure, UncaughtFailure, environment, search,
            reduction, output, history, Running, NoDigest, Ended, Reducing
<1>1. CASE OpenOutput
  <2>1. /\ pc = "open" /\ pc' \in {"validate", "stopped"}
        /\ UNCHANGED <<profile, next, cache, current, ran>>
    BY <1>1 DEF OpenOutput
  <2>2. next = 1 /\ DOMAIN Cases = 1..Len(Cases)
    BY <2>1, CasesTyped DEF ValidInv
  <2>3. QED
    BY <2>1, <2>2 DEF ValidInv, OnlyValidRun
<1>2. CASE ValidateBatch
  <2>1. /\ pc = "validate" /\ UNCHANGED <<profile, cache, current, ran>>
        /\ \/ pc' = "stopped"
           \/ /\ \A d \in Batch : profile[d]
              /\ next' = next + BatchSize /\ UNCHANGED pc
    BY <1>2 DEF ValidateBatch
  <2>2. ASSUME \A d \in Batch : profile[d], next' = next + BatchSize,
               NEW j \in DOMAIN Cases, j < next'
        PROVE  profile[Cases[j]]
    <3>1. next \in Nat /\ BatchSize \in Nat /\ j \in Nat
      BY CasesTyped, CampaignAssumption DEF TypeOK
    <3>2. CASE j < next
      BY <2>1, <3>2 DEF ValidInv
    <3>3. CASE ~(j < next)
      <4>1. j \in next..(next + BatchSize - 1)
        BY <2>2, <3>1, <3>3
      <4>2. Cases[j] \in Batch
        BY <4>1 DEF Batch
      <4>3. QED
        BY <2>2, <4>2
    <3>4. QED
      BY <3>2, <3>3
  <2>3. QED
    BY <2>1, <2>2 DEF ValidInv, OnlyValidRun
<1>3. CASE CorpusValidated
  <2>1. /\ pc = "validate" /\ pc' = "write"
        /\ UNCHANGED <<profile, cache, current, ran>>
        /\ next > Len(Cases)
    BY <1>3 DEF CorpusValidated, AllSeen
  <2>2. \A j \in DOMAIN Cases : profile[Cases[j]]
    BY <2>1, CasesTyped DEF ValidInv, TypeOK
  <2>3. \A d \in Range(Cases) : profile[d]
    BY <2>2 DEF Range
  <2>4. QED
    BY <2>1, <2>3 DEF ValidInv, OnlyValidRun
<1>4. CASE WriteCorpus
  <2>1. /\ pc = "write" /\ pc' = "run"
        /\ UNCHANGED <<profile, current, ran>>
        /\ cache' = [d \in Doc |-> IF d \in Range(Cases) THEN "valid"
                                                         ELSE "unknown"]
    BY <1>4 DEF WriteCorpus
  <2>2. \A d \in Range(Cases) : cache'[d] = "valid"
    BY <2>1, CasesTyped
  <2>3. \A d \in Doc : cache'[d] = "valid" => profile[d]
    BY <2>1 DEF ValidInv
  <2>4. QED
    BY <2>1, <2>2, <2>3 DEF ValidInv, OnlyValidRun
<1>5. CASE RunCandidate
  <2>1. /\ Candidates[next] \in Doc /\ Candidates[next] \in Range(Cases)
        /\ pc = "run" /\ pc' \in {"run", "check"}
        /\ UNCHANGED <<profile, cache>>
    BY <1>5, CasesTyped DEF RunCandidate, TypeOK
  <2>2. /\ ran' = ran \cup {Candidates[next]}
        /\ pc' = "check" => current' = Candidates[next]
    BY <1>5, <2>1 DEF RunCandidate, Runs
  <2>3. cache[Candidates[next]] = "valid"
    BY <2>1 DEF ValidInv
  <2>4. OnlyValidRun'
    BY <2>1, <2>2, <2>3, RunOnValid
  <2>5. QED
    BY <2>1, <2>2, <2>3, <2>4 DEF ValidInv
<1>6. CASE StartRound
  <2>1. PICK round \in SUBSET Range(Reduce[current]) : Validated(round)
    BY <1>6 DEF StartRound
  <2>2. round \subseteq Doc /\ current \in Doc
    BY <2>1, ReductionsTyped DEF TypeOK
  <2>3. /\ \A d \in Doc : cache'[d] = "valid" => cache[d] = "valid" \/ profile[d]
        /\ \A d \in Doc : cache[d] # "unknown" => cache'[d] = cache[d]
    BY <2>1, <2>2, ValidatedCache
  <2>4. /\ pc = "reduce" /\ pc' = "evaluate"
        /\ UNCHANGED <<profile, current, ran>>
    BY <1>6 DEF StartRound
  <2>5. QED
    BY <2>2, <2>3, <2>4 DEF ValidInv, OnlyValidRun
<1>7. CASE Recheck
  <2>1. /\ Range(Reduce[current]) \subseteq Doc /\ current \in Doc
        /\ Validated(Range(Reduce[current]))
    BY <1>7, ReductionsTyped DEF TypeOK, Recheck
  <2>2. /\ \A d \in Doc : cache'[d] = "valid" => cache[d] = "valid" \/ profile[d]
        /\ \A d \in Doc : cache[d] # "unknown" => cache'[d] = cache[d]
    BY <2>1, ValidatedCache
  <2>3. /\ pc = "recheck" /\ pc' \in {"verify", "stopped"}
        /\ ran' = ran \cup {current}
        /\ UNCHANGED <<profile, current>>
    BY <1>7 DEF Recheck, CheckedAgain, Runs
  <2>4. cache[current] = "valid"
    BY <2>3 DEF ValidInv
  <2>5. OnlyValidRun'
    BY <2>1, <2>3, <2>4, RunOnValid
  <2>6. QED
    BY <2>1, <2>2, <2>3, <2>4, <2>5 DEF ValidInv
<1>8. CASE CheckInitial \/ Reproduce
  <2>1. /\ pc \in {"check", "reproduce"} /\ current \in Doc
        /\ pc' \in {"reduce", "stopped", "reproduce"}
        /\ ran' = ran \cup {current}
        /\ UNCHANGED <<profile, current, cache>>
    BY <1>8 DEF CheckInitial, Reproduce, CheckedAgain, Runs, TypeOK
  <2>2. cache[current] = "valid"
    BY <2>1 DEF ValidInv
  <2>3. OnlyValidRun'
    BY <2>1, <2>2, RunOnValid
  <2>4. QED
    BY <2>1, <2>2, <2>3 DEF ValidInv
<1>9. CASE Evaluate
  <2>1. PICK d \in Evaluable :
          ran' = ran \cup {d} /\ current' \in {current, d}
    BY <1>9 DEF Evaluate, Runs, Reduced
  <2>2. /\ pc = "evaluate" /\ pc' \in {"evaluate", "reduce", "stopped"}
        /\ UNCHANGED <<profile, cache>>
    BY <1>9 DEF Evaluate
  <2>3. d \in Doc /\ cache[d] = "valid"
    BY DEF Evaluable, TypeOK
  <2>4. OnlyValidRun'
    BY <2>1, <2>2, <2>3, RunOnValid
  <2>5. QED
    BY <2>1, <2>2, <2>3, <2>4 DEF ValidInv
<1>10. CASE VerifyNext
  <2>1. /\ pc = "verify" /\ pc' \in {"verify", "stopped"}
        /\ UNCHANGED <<profile, cache, current>>
        /\ \/ UNCHANGED ran
           \/ cache[Head(todo)] = "valid" /\ ran' = ran \cup {Head(todo)}
    BY <1>10 DEF VerifyNext, Runs
  <2>2. Head(todo) \in Doc
    BY <1>10, TailRange DEF VerifyNext, TypeOK
  <2>3. OnlyValidRun'
    <3>1. CASE UNCHANGED ran
      BY <2>1, <3>1 DEF ValidInv, OnlyValidRun
    <3>2. CASE ~UNCHANGED ran
      BY <2>1, <2>2, <3>2, RunOnValid
    <3>3. QED
      BY <3>1, <3>2
  <2>4. QED
    BY <2>1, <2>3 DEF ValidInv
<1>11. CASE \/ CorpusExhausted \/ StopReducing \/ Verified \/ TakeDigest
            \/ OpenCapsule \/ CloseCapsule \/ WriteResult \/ Finish
            \/ CallFails \/ Killed \/ EditImporter \/ UNCHANGED vars
  <2>1. UNCHANGED <<profile, next, cache, current, ran>>
    BY <1>11 DEF CorpusExhausted, StopReducing, Verified, TakeDigest,
       OpenCapsule, CloseCapsule, WriteResult, Finish, CallFails, Killed,
       EditImporter, Crash, vars
  <2>2. \/ UNCHANGED pc
        \/ pc = "run" /\ pc' = "report"
        \/ pc = "evaluate" /\ pc' = "recheck"
        \/ pc = "verify" /\ pc' = "reproduce"
        \/ pc = "reproduce" /\ pc' = "pack"
        \/ pc = "pack" /\ pc' = "report"
        \/ pc = "report" /\ pc' = "finish"
        \/ pc' \in Ended
    BY <1>11 DEF CorpusExhausted, StopReducing, Verified, TakeDigest,
       OpenCapsule, CloseCapsule, WriteResult, Finish, CallFails, Killed,
       EditImporter, Crash, vars, Packing
  <2>3. QED
    BY <2>1, <2>2 DEF ValidInv, OnlyValidRun
<1>12. QED
  BY <1>1, <1>2, <1>3, <1>4, <1>5, <1>6, <1>7, <1>8, <1>9, <1>10, <1>11
     DEF Next, Step

-----------------------------------------------------------------------------
(* A finding is only held on a document that showed it.                     *)
LEMMA FindingInductive ==
  ASSUME TypeOK, FindingInv, [Next]_vars
  PROVE  FindingInv'
<1> USE DEF Stop, SecurityFailure, UncaughtFailure, environment, search,
            reduction, output, history, Ended, Reducing, Searching
<1>1. CASE \/ OpenOutput \/ ValidateBatch \/ CorpusValidated \/ WriteCorpus
           \/ CorpusExhausted
  <2>1. /\ UNCHANGED <<found, digests, seen, record>>
        /\ disk' \subseteq disk \cup {"directory", "corpus"}
        /\ pc \in Searching /\ pc' \in Searching \cup {"report", "stopped"}
    BY <1>1 DEF OpenOutput, ValidateBatch, CorpusValidated, WriteCorpus,
       CorpusExhausted
  <2>2. QED
    BY <2>1 DEF FindingInv
<1>2. CASE RunCandidate
  <2>1. /\ pc = "run" /\ UNCHANGED <<seen, record, disk>>
        /\ \/ pc' = "run" /\ UNCHANGED <<found, digests>>
           \/ /\ pc' = "check" /\ found'.digest = digest
              /\ digests' = {digest} /\ digest # NoDigest
    BY <1>2 DEF RunCandidate, Runs
  <2>2. QED
    BY <2>1 DEF FindingInv
<1>3. CASE CheckInitial \/ Recheck \/ Reproduce \/ Evaluate
  <2>1. /\ pc \in Reducing /\ pc' \in Reducing \cup {"stopped"}
        /\ UNCHANGED <<found, record, disk>>
    BY <1>3 DEF CheckInitial, Recheck, CheckedAgain, Reproduce, Evaluate
  <2>2. /\ digests' = digests \cup {digest}
        /\ pc' # "stopped" => digest = found.digest
    BY <1>3 DEF CheckInitial, Recheck, CheckedAgain, Reproduce, Evaluate,
       SameDigest
  <2>3. QED
    BY <2>1, <2>2 DEF FindingInv
<1>4. CASE VerifyNext
  <2>1. /\ pc = "verify" /\ pc' \in {"verify", "stopped"}
        /\ UNCHANGED <<found, record, disk>>
        /\ \/ pc' = "stopped"
           \/ UNCHANGED digests
           \/ digests' = digests \cup {digest} /\ digest = found.digest
    BY <1>4 DEF VerifyNext, SameDigest
  <2>2. QED
    BY <2>1 DEF FindingInv
<1>5. CASE StartRound \/ StopReducing \/ Verified
  BY <1>5 DEF StartRound, StopReducing, Verified, FindingInv
<1>6. CASE OpenCapsule \/ CloseCapsule \/ WriteResult \/ Finish
  <2>1. UNCHANGED <<found, digests>>
    BY <1>6 DEF OpenCapsule, CloseCapsule, WriteResult, Finish
  <2>2. \/ /\ pc = "reproduce" /\ pc' = "pack"
           /\ disk' = disk \cup {"partialCapsule"}
        \/ /\ pc = "pack" /\ pc' = "report"
           /\ disk' = (disk \ {"partialCapsule"}) \cup {"capsule"}
        \/ pc = "report" /\ pc' = "finish" /\ disk' = disk \cup {"result"}
        \/ pc = "finish" /\ pc' = "stopped"
    BY <1>6 DEF OpenCapsule, CloseCapsule, WriteResult, Finish, Packing
  <2>3. QED
    BY <2>1, <2>2 DEF FindingInv
<1>7. CASE TakeDigest \/ EditImporter \/ UNCHANGED vars
  BY <1>7 DEF TakeDigest, EditImporter, vars, FindingInv
<1>8. CASE CallFails \/ Killed
  BY <1>8 DEF CallFails, Crash, Killed, FindingInv
<1>9. QED
  BY <1>1, <1>2, <1>3, <1>4, <1>5, <1>6, <1>7, <1>8 DEF Next, Step

-----------------------------------------------------------------------------
(* What is written to the capsule was observed under one digest.            *)
LEMMA EvidenceInductive ==
  ASSUME TypeOK, ValidInv, FindingInv, EvidenceInv, [Next]_vars
  PROVE  EvidenceInv'
<1> USE DEF Stop, SecurityFailure, UncaughtFailure, environment, search,
            reduction, output, history, Ended, Reducing, Searching
<1>1. CASE \/ OpenOutput \/ ValidateBatch \/ CorpusValidated \/ WriteCorpus
           \/ CorpusExhausted
  <2>1. /\ seen = <<>> /\ UNCHANGED seen
        /\ "capsule" \notin disk /\ disk' \subseteq disk \cup {"directory", "corpus"}
        /\ pc' \in Searching \cup {"report", "stopped"}
    BY <1>1 DEF OpenOutput, ValidateBatch, CorpusValidated, WriteCorpus,
       CorpusExhausted, FindingInv
  <2>2. QED
    BY <2>1 DEF EvidenceInv
<1>2. CASE RunCandidate
  <2>1. /\ seen = <<>> /\ "capsule" \notin disk
        /\ UNCHANGED <<seen, disk>> /\ pc' \in {"run", "check"}
    BY <1>2 DEF RunCandidate, FindingInv
  <2>2. QED
    BY <2>1 DEF EvidenceInv
<1>3. CASE CheckInitial \/ StartRound \/ Evaluate \/ StopReducing
  <2>1. /\ UNCHANGED <<seen, disk, found>> /\ "capsule" \notin disk
        /\ pc' \in {"reduce", "evaluate", "recheck", "stopped"}
    BY <1>3 DEF CheckInitial, CheckedAgain, StartRound, Evaluate,
       StopReducing, FindingInv
  <2>2. QED
    BY <2>1 DEF EvidenceInv
<1>4. CASE Recheck
  <2>1. /\ UNCHANGED <<seen, disk, found, current>> /\ "capsule" \notin disk
        /\ pc' \in {"verify", "stopped"}
        /\ todo' = Reduce[current] /\ Validated(Range(Reduce[current]))
    BY <1>4 DEF Recheck, CheckedAgain, FindingInv
  <2>2. \A d \in Range(Reduce[current]) : cache'[d] # "unknown"
    BY <2>1, ReductionsTyped, ValidatedCache DEF TypeOK
  <2>3. QED
    BY <2>1, <2>2 DEF EvidenceInv
<1>5. CASE VerifyNext
  <2>1. /\ pc = "verify" /\ pc' \in {"verify", "stopped"}
        /\ UNCHANGED <<cache, seen, disk, found, current>>
        /\ "capsule" \notin disk
        /\ todo' = Tail(todo) /\ todo # <<>> /\ todo \in Seq(Doc)
    BY <1>5 DEF VerifyNext, FindingInv, TypeOK
  <2>2. Range(todo) = {Head(todo)} \cup Range(todo')
    BY <2>1, TailRange
  <2>3. /\ pc' = "verify" =>
             \/ cache[Head(todo)] # "valid"
             \/ Head(todo) \in refuted'
        /\ refuted \subseteq refuted'
    BY <1>5 DEF VerifyNext
  <2>4. ASSUME pc' = "verify", NEW d \in Range(Reduce[current])
        PROVE  /\ cache[d] # "unknown"
               /\ d \in Range(todo') \/ cache[d] = "invalid" \/ d \in refuted'
    <3>1. cache[d] \in {"unknown", "valid", "invalid"}
      BY ReductionsTyped DEF TypeOK
    <3>2. QED
      BY <2>1, <2>2, <2>3, <2>4, <3>1 DEF EvidenceInv
  <2>5. QED
    BY <2>1, <2>4 DEF EvidenceInv
<1>6. CASE Verified
  <2>1. /\ pc = "verify" /\ pc' = "reproduce" /\ todo = <<>>
        /\ UNCHANGED <<cache, refuted, seen, disk, found, current>>
        /\ "capsule" \notin disk
    BY <1>6 DEF Verified, FindingInv
  <2>2. Range(todo) = {}
    BY <2>1, EmptyRange
  <2>3. \A d \in Range(Reduce[current]) : cache[d] \in {"unknown", "valid", "invalid"}
    BY ReductionsTyped DEF TypeOK
  <2>4. Checked(current)
    BY <2>1, <2>2, <2>3 DEF EvidenceInv, Checked
  <2>5. Checked(current)'
    BY <2>1, <2>4 DEF Checked
  <2>6. QED
    BY <2>1, <2>5 DEF EvidenceInv
<1>7. CASE Reproduce
  <2>1. /\ pc = "reproduce" /\ pc' \in {"reproduce", "stopped"}
        /\ UNCHANGED <<cache, refuted, disk, found, current>>
        /\ "capsule" \notin disk
    BY <1>7 DEF Reproduce, FindingInv
  <2>2. \/ UNCHANGED seen
        \/ \E b \in Behaviour :
             /\ Preserves(b) /\ SameObservation(b)
             /\ seen' = Append(seen, b)
    BY <1>7 DEF Reproduce
  <2>3. \A i \in DOMAIN seen' :
          /\ seen'[i] = seen'[1]
          /\ Matched(seen'[i]) /\ Signature(seen'[i]) = found.signature
    <3>1. CASE UNCHANGED seen
      BY <3>1 DEF EvidenceInv
    <3>2. CASE ~UNCHANGED seen
      <4>1. PICK b \in Behaviour :
              /\ Preserves(b) /\ SameObservation(b)
              /\ seen' = Append(seen, b)
        BY <2>2, <3>2
      <4>2. seen \in Seq(Behaviour)
        BY DEF TypeOK
      <4>3. /\ DOMAIN seen' = 1..(Len(seen) + 1) /\ Len(seen) \in Nat
            /\ DOMAIN seen = 1..Len(seen)
            /\ \A i \in 1..Len(seen) : seen'[i] = seen[i]
            /\ seen'[Len(seen) + 1] = b
            /\ seen = <<>> => Len(seen) = 0
        BY <4>1, <4>2
      <4>4. seen'[1] = b
        <5>1. CASE seen = <<>>
          BY <4>3, <5>1
        <5>2. CASE seen # <<>>
          <6>1. Len(seen) > 0
            BY <4>2, <5>2
          <6>2. b = seen[1]
            BY <4>1, <5>2 DEF SameObservation
          <6>3. QED
            BY <4>3, <6>1, <6>2
        <5>3. QED
          BY <5>1, <5>2
      <4>5. ASSUME NEW i \in DOMAIN seen'
            PROVE  seen'[i] = b
        <5>1. CASE i = Len(seen) + 1
          BY <4>3, <5>1
        <5>2. CASE i # Len(seen) + 1
          <6>1. i \in 1..Len(seen) /\ 1 \in 1..Len(seen)
            BY <4>3, <5>2
          <6>2. seen[i] = seen[1] /\ seen'[i] = seen[i] /\ seen'[1] = seen[1]
            BY <4>3, <6>1 DEF EvidenceInv
          <6>3. QED
            BY <4>4, <6>2
        <5>3. QED
          BY <5>1, <5>2
      <4>6. Matched(b) /\ Signature(b) = found.signature
        BY <4>1 DEF Preserves
      <4>7. QED
        BY <4>4, <4>5, <4>6
    <3>3. QED
      BY <3>1, <3>2
  <2>4. pc' = "reproduce" => Checked(current)'
    BY <2>1 DEF EvidenceInv, Checked
  <2>5. QED
    BY <2>1, <2>3, <2>4 DEF EvidenceInv
<1>8. CASE OpenCapsule
  <2>1. /\ pc = "reproduce" /\ pc' = "pack"
        /\ UNCHANGED <<cache, refuted, found, current, seen>>
        /\ Len(seen) = Reproductions
        /\ "capsule" \notin disk /\ disk' = disk \cup {"partialCapsule"}
        /\ record' = [doc |-> current, digest |-> found.digest,
                      observations |-> seen]
    BY <1>8 DEF OpenCapsule, Packing, FindingInv
  <2>2. Checked(current)'
    BY <2>1 DEF EvidenceInv, Checked
  <2>3. QED
    BY <2>1, <2>2 DEF EvidenceInv
<1>9. CASE CloseCapsule
  <2>1. /\ pc = "pack" /\ pc' = "report"
        /\ UNCHANGED <<profile, cache, refuted, found, current, seen, record,
                       digests>>
    BY <1>9 DEF CloseCapsule
  <2>2. /\ record.doc = current /\ record.digest = found.digest
        /\ record.observations = seen /\ Len(seen) = Reproductions
        /\ Checked(record.doc)
    BY <2>1 DEF EvidenceInv
  <2>3. profile[current]
    BY <2>1 DEF ValidInv, TypeOK
  <2>4. digests = {record.digest} /\ record # NoRecord
    BY <2>1, <2>2 DEF FindingInv, NoRecord
  <2>5. Checked(record.doc)'
    BY <2>1, <2>2 DEF Checked
  <2>6. QED
    BY <2>1, <2>2, <2>3, <2>4, <2>5 DEF EvidenceInv
<1>10. CASE \/ WriteResult \/ Finish \/ TakeDigest \/ CallFails \/ Killed
            \/ EditImporter \/ UNCHANGED vars
  <2>1. UNCHANGED <<profile, cache, refuted, found, current, todo, seen, record,
                    digests>>
    BY <1>10 DEF WriteResult, Finish, TakeDigest, CallFails, Killed,
       EditImporter, vars
  <2>2. /\ disk' \subseteq disk \cup {"result", "junit"}
        /\ UNCHANGED pc \/ pc' \in {"finish"} \cup Ended
    BY <1>10 DEF WriteResult, Finish, TakeDigest, CallFails, Crash, Killed,
       EditImporter, vars
  <2>3. UNCHANGED Checked(current) /\ UNCHANGED Checked(record.doc)
    BY <2>1 DEF Checked
  <2>4. QED
    BY <2>1, <2>2, <2>3 DEF EvidenceInv
<1>11. QED
  BY <1>1, <1>2, <1>3, <1>4, <1>5, <1>6, <1>7, <1>8, <1>9, <1>10 DEF Next, Step

-----------------------------------------------------------------------------
(* Files and exit status say what happened before them.                     *)
LEMMA CleanInductive ==
  ASSUME TypeOK, FindingInv, EvidenceInv', CleanInv, [Next]_vars
  PROVE  CleanInv'
<1> USE DEF Stop, SecurityFailure, UncaughtFailure, environment, search,
            reduction, output, history, Ended, Reducing, Searching, Reporting,
            Running
<1>1. CASE CorpusValidated \/ WriteCorpus \/ OpenOutput \/ ValidateBatch
  <2>1. /\ pc \in {"open", "validate", "write"} /\ status = Running
        /\ \/ pc' = "stopped" /\ status' = 2
           \/ pc' \in {"validate", "run"} /\ UNCHANGED status
           \/ pc' = "write" /\ next' = 1 /\ UNCHANGED status
        /\ pc' = "run" => pc = "write" /\ UNCHANGED next
        /\ UNCHANGED record /\ disk' \subseteq disk \cup {"directory", "corpus"}
    BY <1>1 DEF CorpusValidated, WriteCorpus, OpenOutput, ValidateBatch, TypeOK
  <2>2. record = NoRecord /\ "result" \notin disk
    BY <2>1 DEF FindingInv
  <2>3. pc' = "run" => 1..(next' - 1) = {}
    BY <2>1 DEF CleanInv
  <2>4. QED
    BY <2>1, <2>2, <2>3 DEF CleanInv, ResultNeverDangles, CleanMeansClean
<1>2. CASE RunCandidate
  <2>1. /\ pc = "run" /\ UNCHANGED <<status, record, disk>>
        /\ status = Running /\ "result" \notin disk
        /\ \/ pc' = "check"
           \/ /\ pc' = "run" /\ next' = next + 1
              /\ ran' = ran \cup {Candidates[next]}
    BY <1>2 DEF RunCandidate, Runs, TypeOK, FindingInv
  <2>2. ASSUME pc' = "run", NEW i \in 1..(next' - 1)
        PROVE  Candidates[i] \in ran'
    <3>1. i = next \/ i \in 1..(next - 1)
      BY <2>1, <2>2 DEF TypeOK
    <3>2. QED
      BY <2>1, <2>2, <3>1 DEF CleanInv
  <2>3. QED
    BY <2>1, <2>2 DEF CleanInv, ResultNeverDangles, CleanMeansClean
<1>3. CASE CorpusExhausted
  <2>1. /\ pc = "run" /\ pc' = "report"
        /\ UNCHANGED <<status, record, disk, found, ran>>
        /\ status = Running /\ "result" \notin disk /\ record = NoRecord
        /\ found = NoFinding
    BY <1>3 DEF CorpusExhausted, TypeOK, FindingInv
  <2>2. \A i \in 1..Len(Candidates) : Candidates[i] \in ran
    <3>1. Len(Candidates) \in Nat /\ next \in Nat /\ next > Len(Candidates)
      BY <1>3, CampaignAssumption DEF CorpusExhausted, TypeOK
    <3>2. \A i \in 1..Len(Candidates) : i \in 1..(next - 1)
      BY <3>1
    <3>3. QED
      BY <2>1, <3>2 DEF CleanInv
  <2>3. Range(Candidates) \subseteq ran
    BY <2>2, CampaignAssumption DEF Range
  <2>4. QED
    BY <2>1, <2>3 DEF CleanInv, ResultNeverDangles, CleanMeansClean
<1>4. CASE \/ CheckInitial \/ StartRound \/ Evaluate \/ StopReducing
           \/ Recheck \/ VerifyNext \/ Verified \/ Reproduce
  <2>1. /\ pc \in Reducing /\ pc' \in Reducing \cup {"stopped"}
        /\ UNCHANGED <<record, disk>>
    BY <1>4 DEF CheckInitial, CheckedAgain, StartRound, Evaluate,
       StopReducing, Recheck, VerifyNext, Verified, Reproduce
  <2>2. status' \in {status, 1, 2} /\ status = Running
    BY <1>4, <2>1 DEF CheckInitial, CheckedAgain, StartRound, Evaluate,
       StopReducing, Recheck, VerifyNext, Verified, Reproduce, TypeOK
  <2>3. "result" \notin disk
    BY <2>1 DEF FindingInv
  <2>4. QED
    BY <2>1, <2>2, <2>3 DEF CleanInv, ResultNeverDangles, CleanMeansClean
<1>5. CASE OpenCapsule \/ CloseCapsule
  <2>1. /\ UNCHANGED status /\ status = Running
        /\ "result" \notin disk /\ "result" \notin disk'
        /\ \/ pc' = "pack"
           \/ pc' = "report" /\ "capsule" \in disk'
    BY <1>5 DEF OpenCapsule, CloseCapsule, TypeOK, Packing, FindingInv
  <2>2. pc' = "report" => record' # NoRecord
    BY <2>1 DEF EvidenceInv, NoRecord
  <2>3. QED
    BY <2>1, <2>2 DEF CleanInv, ResultNeverDangles, CleanMeansClean
<1>6. CASE WriteResult
  <2>1. /\ pc = "report" /\ pc' = "finish" /\ status = Running
        /\ disk' = disk \cup {"result"}
        /\ UNCHANGED <<found, ran, record, status>>
    BY <1>6 DEF WriteResult, TypeOK
  <2>2. QED
    BY <2>1 DEF CleanInv, ResultNeverDangles, CleanMeansClean, NoRecord
<1>7. CASE Finish
  <2>1. /\ pc = "finish" /\ pc' = "stopped"
        /\ disk' = disk \cup {"junit"}
        /\ status' = IF record = NoRecord THEN 0 ELSE 1
        /\ UNCHANGED <<found, ran, record>>
        /\ "result" \in disk
    BY <1>7 DEF Finish, FindingInv
  <2>2. QED
    BY <2>1 DEF CleanInv, ResultNeverDangles, CleanMeansClean, NoRecord
<1>8. CASE TakeDigest \/ EditImporter \/ UNCHANGED vars
  <2>1. UNCHANGED <<pc, next, found, ran, record, disk, status>>
    BY <1>8 DEF TakeDigest, EditImporter, vars
  <2>2. QED
    BY <2>1 DEF CleanInv, ResultNeverDangles, CleanMeansClean, NoRecord
<1>9. CASE CallFails \/ Killed
  <2>1. /\ pc' \in Ended /\ status' \in {1, 2, status}
        /\ UNCHANGED <<found, ran, record>>
        /\ disk' \in {disk, disk \ {"partialCapsule"}}
    BY <1>9 DEF CallFails, Crash, Killed
  <2>2. QED
    BY <2>1 DEF CleanInv, ResultNeverDangles, CleanMeansClean, NoRecord
<1>10. QED
  BY <1>1, <1>2, <1>3, <1>4, <1>5, <1>6, <1>7, <1>8, <1>9 DEF Next, Step

-----------------------------------------------------------------------------
CampaignInv == TypeOK /\ ValidInv /\ FindingInv /\ EvidenceInv /\ CleanInv

(* The five parts are inductive together.                                   *)
LEMMA CampaignInvariant == Spec => []CampaignInv
<1>1. Init => CampaignInv
  <2> SUFFICES ASSUME Init
               PROVE  CampaignInv
    OBVIOUS
  <2>1. TypeOK
    BY CampaignAssumption
       DEF Init, TypeOK, NoFinding, NoRecord, NoDigest, Behaviour, Running
  <2>2. ValidInv
    BY DEF Init, ValidInv, OnlyValidRun, Reducing, Ended
  <2>3. FindingInv
    BY DEF Init, FindingInv, Searching, Reducing, Ended
  <2>4. EvidenceInv
    BY DEF Init, EvidenceInv
  <2>5. CleanInv
    BY DEF Init, CleanInv, ResultNeverDangles, CleanMeansClean, Reporting,
       Running
  <2>6. QED
    BY <2>1, <2>2, <2>3, <2>4, <2>5 DEF CampaignInv
<1>2. CampaignInv /\ [Next]_vars => CampaignInv'
  BY TypeInductive, ValidInductive, FindingInductive, EvidenceInductive,
     CleanInductive DEF CampaignInv
<1>3. QED
  BY <1>1, <1>2, PTL DEF Spec

(* The variables of a campaign only take values of their types; it has an  *)
(* exit status exactly when it stopped by itself (run_campaign, main).     *)
THEOREM TypeCorrect == Spec => []TypeOK
BY CampaignInvariant, PTL DEF CampaignInv

(* The importer only ever runs after the seed and the whole corpus passed  *)
(* the pinned profile, and on a document that passes it: from the corpus,  *)
(* in the reduction, in its verification and in the reproductions.         *)
THEOREM OnlyValidDocumentsRun == Spec => []OnlyValidRun
BY CampaignInvariant, PTL DEF CampaignInv, ValidInv

(* Whatever the importer does and whenever it is replaced, a capsule that  *)
(* was exported holds a valid invoice, a verdict on each of its one-step   *)
(* reductions, the valid ones refuted by a run, and as many identical      *)
(* observations of the finding as were requested.                          *)
THEOREM CapsulesAreEvidence == Spec => []CapsuleIsEvidence
<1>1. CampaignInv => CapsuleIsEvidence
  <2> SUFFICES ASSUME CampaignInv, "capsule" \in disk
               PROVE  /\ profile[record.doc] /\ Checked(record.doc)
                      /\ Len(record.observations) = Reproductions
                      /\ \E b \in Behaviour :
                            /\ Matched(b) /\ Signature(b) = found.signature
                            /\ Range(record.observations) = {b}
    BY DEF CapsuleIsEvidence, Checked
  <2>1. /\ profile[record.doc] /\ Checked(record.doc)
        /\ record.observations = seen /\ Len(seen) = Reproductions
    BY DEF CampaignInv, EvidenceInv
  <2>2. seen \in Seq(Behaviour) /\ Len(seen) > 0 /\ Len(seen) \in Nat
    BY <2>1, CampaignAssumption DEF CampaignInv, TypeOK
  <2>3. 1 \in DOMAIN seen /\ seen[1] \in Behaviour
    BY <2>2
  <2>4. Matched(seen[1]) /\ Signature(seen[1]) = found.signature
    BY <2>3 DEF CampaignInv, EvidenceInv
  <2>5. Range(seen) = {seen[1]}
    BY <2>3 DEF CampaignInv, EvidenceInv, Range
  <2>6. QED
    BY <2>1, <2>3, <2>4, <2>5
<1>2. QED
  BY <1>1, CampaignInvariant, PTL

(* Every run of the importer from the first match to the last reproduction *)
(* had one and the same digest, the one the capsule records.               *)
THEOREM CapsulesHaveOneDigest == Spec => []CapsuleHasOneDigest
BY CampaignInvariant, PTL
   DEF CampaignInv, EvidenceInv, CapsuleHasOneDigest

(* Wherever the campaign fails or is killed, result.json never lists a     *)
(* finding without its complete capsule.                                   *)
THEOREM ResultsNeverDangle == Spec => []ResultNeverDangles
BY CampaignInvariant, PTL DEF CampaignInv, CleanInv

(* Exit status 0 is only reached by the campaign that ran every candidate, *)
(* saw no match and wrote its report.                                      *)
THEOREM CleanIsClean == Spec => []CleanMeansClean
BY CampaignInvariant, PTL DEF CampaignInv, CleanInv

-----------------------------------------------------------------------------
(* What is being reduced, and what a verification refuted, was run; the    *)
(* cache starts with the verdicts on the whole corpus.                     *)
RanInv ==
  /\ pc \in {"open", "validate", "write"} =>
       \A d \in Doc : cache[d] = "unknown"
  /\ pc \in Reducing \cup {"pack"} => current \in ran
  /\ refuted \subseteq ran

(* Only a run makes a document current or refuted.                         *)
LEMMA RanInductive ==
  ASSUME TypeOK, RanInv, [Next]_vars
  PROVE  RanInv'
<1> USE DEF Stop, SecurityFailure, UncaughtFailure, environment, search,
            reduction, output, history, Reducing
<1>1. CASE OpenOutput \/ ValidateBatch \/ CorpusValidated \/ WriteCorpus
           \/ CorpusExhausted \/ CallFails \/ Killed \/ CloseCapsule
           \/ WriteResult \/ Finish
  BY <1>1 DEF OpenOutput, ValidateBatch, CorpusValidated, WriteCorpus,
     CorpusExhausted, CallFails, Killed, CloseCapsule, WriteResult, Finish,
     Crash, Ended, RanInv
<1>2. CASE RunCandidate
  <2>1. /\ pc = "run" /\ UNCHANGED refuted
        /\ ran' = ran \cup {Candidates[next]}
        /\ pc' = "run" \/ (pc' = "check" /\ current' = Candidates[next])
    BY <1>2 DEF RunCandidate, Runs
  <2>2. QED
    BY <2>1 DEF RanInv
<1>3. CASE CheckInitial \/ Reproduce
  <2>1. /\ UNCHANGED <<current, refuted>> /\ ran' = ran \cup {current}
        /\ pc' \notin {"open", "validate", "write"}
    BY <1>3 DEF CheckInitial, CheckedAgain, Reproduce, Runs
  <2>2. QED
    BY <2>1 DEF RanInv
<1>4. CASE Recheck
  <2>1. /\ UNCHANGED current /\ refuted' = {} /\ ran' = ran \cup {current}
        /\ pc' \notin {"open", "validate", "write"}
    BY <1>4 DEF Recheck, CheckedAgain, Runs
  <2>2. QED
    BY <2>1 DEF RanInv
<1>5. CASE Evaluate
  <2>1. /\ pc = "evaluate" /\ UNCHANGED refuted
        /\ pc' \notin {"open", "validate", "write"}
        /\ \E d \in Evaluable : ran' = ran \cup {d} /\ current' \in {current, d}
    BY <1>5 DEF Evaluate, Runs, Reduced
  <2>2. QED
    BY <2>1 DEF RanInv
<1>6. CASE VerifyNext
  <2>1. /\ pc = "verify" /\ UNCHANGED current
        /\ pc' \notin {"open", "validate", "write"}
        /\ \/ UNCHANGED <<ran, refuted>>
           \/ /\ ran' = ran \cup {Head(todo)}
              /\ refuted' \subseteq refuted \cup {Head(todo)}
    BY <1>6 DEF VerifyNext, Runs
  <2>2. QED
    BY <2>1 DEF RanInv
<1>7. CASE StartRound \/ StopReducing \/ Verified \/ OpenCapsule
           \/ TakeDigest \/ EditImporter \/ UNCHANGED vars
  <2>1. /\ UNCHANGED <<current, ran, refuted>>
        /\ pc' \in Reducing \cup {"pack"} =>
             pc' = pc \/ pc \in Reducing
        /\ pc' \notin {"open", "validate", "write"} \/ UNCHANGED <<pc, cache>>
    BY <1>7 DEF StartRound, StopReducing, Verified, OpenCapsule, TakeDigest,
       EditImporter, vars, Packing
  <2>2. QED
    BY <2>1 DEF RanInv
<1>8. QED
  BY <1>1, <1>2, <1>3, <1>4, <1>5, <1>6, <1>7 DEF Next, Step

-----------------------------------------------------------------------------
(* Nothing that the abstract evidence shows changes.                       *)
LEMMA NothingClaimed ==
  ASSUME UNCHANGED <<profile, cache, ran, record, status>>,
         UNCHANGED <<"capsule" \in disk, "result" \in disk, "junit" \in disk>>
  PROVE  UNCHANGED Claims!evars
BY DEF Claims!evars, Answered

(* A step before the export that learns verdicts, runs a document that is  *)
(* known to be valid, or fails.                                            *)
LEMMA Investigates ==
  ASSUME TypeOK, FindingInv,
         pc \in Searching \cup Reducing,
         UNCHANGED profile,
         disk' \subseteq disk \cup {"directory", "corpus"},
         status' \in {status, 1, 2},
         Claims!Learned,
         UNCHANGED ran \/ \E d \in Doc : cache[d] = "valid" /\ ran' = ran \cup {d}
  PROVE  Claims!Investigate
<1>1. /\ "capsule" \notin disk /\ "result" \notin disk
      /\ "capsule" \notin disk' /\ "result" \notin disk'
      /\ "junit" \notin disk'
  BY DEF FindingInv, Searching, Reducing, Ended
<1>2. status = Running /\ Answered = "none"
  BY DEF TypeOK, Searching, Reducing, Answered, Running, Ended
<1>3. Answered' \in {"none", "failed"}
  <2>1. status' \in {3, 1, 2} /\ Running = 3
    BY <1>2 DEF Running
  <2>2. CASE status' = 3
    BY <2>1, <2>2 DEF Answered
  <2>3. CASE status' = 1
    BY <1>1, <2>1, <2>3 DEF Answered
  <2>4. CASE status' = 2
    BY <2>1, <2>4 DEF Answered
  <2>5. QED
    BY <2>1, <2>2, <2>3, <2>4
<1>4. QED
  BY <1>1, <1>2, <1>3 DEF Claims!Investigate

(* The cache is only ever extended by verdicts of the profile.             *)
LEMMA NothingLearned ==
  ASSUME TypeOK, ValidInv, UNCHANGED cache
  PROVE  Claims!Learned
BY DEF Claims!Learned, TypeOK, ValidInv

(* Neither does a call of the validator do anything else.                  *)
LEMMA VerdictsLearned ==
  ASSUME TypeOK, ValidInv, NEW docs \in SUBSET Doc, Validated(docs)
  PROVE  Claims!Learned
<1>1. /\ cache' \in [Doc -> {"unknown", "valid", "invalid"}]
      /\ \A d \in Doc : cache[d] # "unknown" => cache'[d] = cache[d]
      /\ \A d \in Doc : cache'[d] = "valid" => cache[d] = "valid" \/ profile[d]
  BY ValidatedCache
<1>2. QED
  BY <1>1 DEF Claims!Learned, ValidInv

(* Each step of the campaign is one of the abstract evidence or shows      *)
(* nothing.                                                                *)
LEMMA StepClaims ==
  ASSUME TypeOK, ValidInv, FindingInv, EvidenceInv, CleanInv, RanInv,
         [Next]_vars
  PROVE  [Claims!ENext]_(Claims!evars)
<1> USE DEF Stop, SecurityFailure, UncaughtFailure, environment, search,
            reduction, output, history
<1>1. CASE OpenOutput \/ ValidateBatch \/ CorpusValidated \/ CorpusExhausted
  <2>1. /\ UNCHANGED <<profile, cache, ran>> /\ pc \in Searching
        /\ disk' \subseteq disk \cup {"directory", "corpus"}
        /\ status' \in {status, 1, 2}
    BY <1>1 DEF OpenOutput, ValidateBatch, CorpusValidated, CorpusExhausted,
       Searching
  <2>2. QED
    BY <2>1, NothingLearned, Investigates DEF Claims!ENext
<1>2. CASE WriteCorpus
  <2>1. /\ UNCHANGED <<profile, ran>> /\ pc = "write"
        /\ disk' \subseteq disk \cup {"directory", "corpus"}
        /\ status' \in {status, 1, 2}
        /\ cache' = [d \in Doc |-> IF d \in Range(Cases) THEN "valid"
                                                         ELSE "unknown"]
    BY <1>2 DEF WriteCorpus
  <2>2. Claims!Learned
    BY <2>1 DEF Claims!Learned, TypeOK, ValidInv, Ended, RanInv
  <2>3. QED
    BY <2>1, <2>2, Investigates DEF Claims!ENext, Searching
<1>3. CASE RunCandidate
  <2>1. /\ UNCHANGED <<profile, cache, disk, status>> /\ pc = "run"
        /\ ran' = ran \cup {Candidates[next]}
    BY <1>3 DEF RunCandidate, Runs
  <2>2. Candidates[next] \in Doc /\ cache[Candidates[next]] = "valid"
    BY <1>3, <2>1, CasesTyped DEF RunCandidate, TypeOK, ValidInv
  <2>3. QED
    BY <2>1, <2>2, NothingLearned, Investigates DEF Claims!ENext, Searching
<1>4. CASE CheckInitial \/ Reproduce
  <2>1. /\ UNCHANGED <<profile, cache, disk>>
        /\ pc \in {"check", "reproduce"} /\ status' \in {status, 1, 2}
        /\ ran' = ran \cup {current}
    BY <1>4 DEF CheckInitial, CheckedAgain, Reproduce, Runs
  <2>2. current \in Doc /\ cache[current] = "valid"
    BY <2>1 DEF TypeOK, ValidInv, Reducing
  <2>3. QED
    BY <2>1, <2>2, NothingLearned, Investigates DEF Claims!ENext, Reducing
<1>5. CASE StartRound
  <2>1. /\ UNCHANGED <<profile, ran, disk, status>> /\ pc = "reduce"
    BY <1>5 DEF StartRound
  <2>2. PICK round \in SUBSET Range(Reduce[current]) : Validated(round)
    BY <1>5 DEF StartRound
  <2>3. round \in SUBSET Doc
    BY <2>2, ReductionsTyped DEF TypeOK
  <2>4. QED
    BY <2>1, <2>2, <2>3, VerdictsLearned, Investigates
       DEF Claims!ENext, Reducing
<1>6. CASE Evaluate
  <2>1. /\ UNCHANGED <<profile, cache, disk>> /\ pc = "evaluate"
        /\ status' \in {status, 1, 2}
    BY <1>6 DEF Evaluate
  <2>2. \E d \in Doc : cache[d] = "valid" /\ ran' = ran \cup {d}
    BY <1>6 DEF Evaluate, Evaluable, Runs, TypeOK
  <2>3. QED
    BY <2>1, <2>2, NothingLearned, Investigates DEF Claims!ENext, Reducing
<1>7. CASE Recheck
  <2>1. /\ UNCHANGED <<profile, disk>> /\ pc = "recheck"
        /\ status' \in {status, 1, 2} /\ ran' = ran \cup {current}
        /\ Validated(Range(Reduce[current]))
    BY <1>7 DEF Recheck, CheckedAgain, Runs
  <2>2. /\ current \in Doc /\ cache[current] = "valid"
        /\ Range(Reduce[current]) \in SUBSET Doc
    BY <2>1, ReductionsTyped DEF TypeOK, ValidInv, Reducing
  <2>3. QED
    BY <2>1, <2>2, VerdictsLearned, Investigates DEF Claims!ENext, Reducing
<1>8. CASE VerifyNext
  <2>1. /\ UNCHANGED <<profile, cache, disk>> /\ pc = "verify"
        /\ status' \in {status, 1, 2}
        /\ \/ UNCHANGED ran
           \/ cache[Head(todo)] = "valid" /\ ran' = ran \cup {Head(todo)}
    BY <1>8 DEF VerifyNext, Runs
  <2>2. Head(todo) \in Doc
    BY <1>8, TailRange DEF VerifyNext, TypeOK
  <2>3. QED
    BY <2>1, <2>2, NothingLearned, Investigates DEF Claims!ENext, Reducing
<1>9. CASE StopReducing \/ Verified \/ TakeDigest \/ Killed \/ EditImporter
           \/ UNCHANGED vars
  <2>1. UNCHANGED <<profile, cache, ran, record, status, disk>>
    BY <1>9 DEF StopReducing, Verified, TakeDigest, Killed, EditImporter, vars
  <2>2. QED
    BY <2>1, NothingClaimed
<1>10. CASE OpenCapsule
  <2>1. /\ pc = "reproduce" /\ UNCHANGED <<profile, cache, ran, status>>
        /\ disk' = disk \cup {"partialCapsule"}
    BY <1>10 DEF OpenCapsule
  <2>2. /\ "capsule" \notin disk /\ "result" \notin disk
        /\ "capsule" \notin disk' /\ "result" \notin disk'
        /\ UNCHANGED ("junit" \in disk)
    BY <2>1 DEF FindingInv, Reducing
  <2>3. UNCHANGED Claims!evars
    BY <2>1, <2>2 DEF Claims!evars, Answered
  <2>4. QED
    BY <2>3
<1>11. CASE CloseCapsule
  <2>1. /\ pc = "pack" /\ UNCHANGED <<profile, cache, ran, record, status>>
        /\ disk' = (disk \ {"partialCapsule"}) \cup {"capsule"}
        /\ status = Running
    BY <1>11 DEF CloseCapsule, TypeOK, Ended
  <2>2. /\ "capsule" \notin disk /\ "result" \notin disk
        /\ "capsule" \in disk' /\ "result" \notin disk'
    BY <2>1 DEF FindingInv
  <2>3. /\ record.doc = current /\ record.observations = seen
        /\ Len(seen) = Reproductions
    BY <2>1 DEF EvidenceInv
  <2>4. record # NoRecord
    BY <2>3, CampaignAssumption DEF NoRecord
  <2>5. cache[current] = "valid" /\ current \in ran
    BY <2>1 DEF ValidInv, RanInv
  <2>6. \A d \in Range(Reduce[current]) :
          cache[d] = "invalid" \/ (cache[d] = "valid" /\ d \in ran)
    BY <2>1 DEF EvidenceInv, Checked, RanInv
  <2>7. \A i \in DOMAIN seen : seen[i] = seen[1] /\ seen[i] # "clean"
    BY DEF EvidenceInv, Matched
  <2>8. Claims!Supported(record)
    BY <2>3, <2>5, <2>6, <2>7 DEF Claims!Supported, Claims!Range, Range
  <2>9. Answered = "none" /\ UNCHANGED Answered
    BY <2>1 DEF Answered, Running
  <2>10. Claims!Supported(record')
    BY <2>1, <2>8
  <2>11. Claims!Export
    BY <2>1, <2>2, <2>4, <2>9, <2>10 DEF Claims!Export
  <2>12. QED
    BY <2>11 DEF Claims!ENext
<1>12. CASE WriteResult
  <2>1. /\ pc = "report"
        /\ UNCHANGED <<profile, cache, ran, record, status>>
        /\ disk' = disk \cup {"result"} /\ status = Running
    BY <1>12 DEF WriteResult, TypeOK, Ended
  <2>2. "result" \notin disk /\ "result" \in disk' /\ UNCHANGED ("capsule" \in disk)
    BY <2>1 DEF FindingInv, Ended
  <2>3. \/ record = NoRecord /\ Range(Candidates) \subseteq ran
        \/ record # NoRecord /\ "capsule" \in disk
    BY <2>1 DEF CleanInv, Reporting
  <2>4. Answered = "none" /\ UNCHANGED Answered
    BY <2>1 DEF Answered, Running
  <2>5. Claims!Report
    BY <2>1, <2>2, <2>3, <2>4 DEF Claims!Report, Claims!Range, Range
  <2>6. QED
    BY <2>5 DEF Claims!ENext
<1>13. CASE Finish
  <2>1. /\ pc = "finish" /\ UNCHANGED <<profile, cache, ran, record>>
        /\ disk' = disk \cup {"junit"} /\ status = Running
        /\ status' = IF record = NoRecord THEN 0 ELSE 1
    BY <1>13 DEF Finish, TypeOK, Ended
  <2>2. /\ "result" \in disk /\ "result" \in disk'
        /\ UNCHANGED ("capsule" \in disk) /\ "junit" \in disk'
        /\ record # NoRecord => "capsule" \in disk
    BY <2>1 DEF FindingInv, CleanInv, Reporting
  <2>3. Answered = "none"
    BY <2>1 DEF Answered, Running
  <2>4. Answered' = IF record = NoRecord THEN "clean" ELSE "finding"
    <3>1. CASE record = NoRecord
      BY <2>1, <3>1 DEF Answered, Running
    <3>2. CASE record # NoRecord
      BY <2>1, <2>2, <3>2 DEF Answered, Running
    <3>3. QED
      BY <3>1, <3>2
  <2>5. Claims!Answer
    BY <2>1, <2>2, <2>3, <2>4 DEF Claims!Answer
  <2>6. QED
    BY <2>5 DEF Claims!ENext
<1>14. CASE CallFails
  <2>1. /\ UNCHANGED <<profile, cache, ran, record>>
        /\ disk' = disk \ {"partialCapsule"}
        /\ status = Running /\ status' \in {1, 2}
        /\ pc \notin Ended
    BY <1>14 DEF CallFails, Crash, TypeOK, Ended
  <2>2. /\ UNCHANGED <<"capsule" \in disk, "result" \in disk>>
        /\ "junit" \notin disk'
    BY <2>1 DEF FindingInv
  <2>3. Answered = "none" /\ Answered' = "failed"
    BY <2>1, <2>2 DEF Answered, Running
  <2>4. Claims!Answer
    BY <2>1, <2>2, <2>3 DEF Claims!Answer
  <2>5. QED
    BY <2>4 DEF Claims!ENext
<1>15. QED
  BY <1>1, <1>2, <1>3, <1>4, <1>5, <1>6, <1>7, <1>8, <1>9, <1>10, <1>11,
     <1>12, <1>13, <1>14 DEF Next, Step

(* A campaign implements the abstract evidence: whatever the importer      *)
(* does, whenever it is replaced, wherever a call fails or the campaign is *)
(* killed, the directory and the exit status only ever tell what was seen. *)
THEOREM CampaignImplementsEvidence == Spec => ImplementsEvidence
<1>1. Init => Claims!EInit /\ RanInv
  BY DEF Init, Claims!EInit, RanInv, Answered, Reducing, Running
<1>2. CampaignInv /\ RanInv /\ [Next]_vars => RanInv'
  BY RanInductive DEF CampaignInv
<1>3. CampaignInv /\ RanInv /\ [Next]_vars => [Claims!ENext]_(Claims!evars)
  BY StepClaims DEF CampaignInv
<1>4. QED
  BY <1>1, <1>2, <1>3, CampaignInvariant, PTL
     DEF Spec, ImplementsEvidence, Claims!ESpec

-----------------------------------------------------------------------------
(* The two promises that a campaign breaks (OneMinimalIsMinimal and        *)
(* StatusOneMeansFinding), each under a condition on what is outside the   *)
(* campaign that the counterexamples do not meet.                          *)

(* The validator finds no document invalid that the profile accepts: it    *)
(* leaves a report for each one, exits with 0 and is in time.              *)
EveryReport ==
  \A d \in Doc : cache[d] = "unknown" /\ cache'[d] = "invalid" => ~profile[d]

InvalidIsRejected == \A d \in Doc : cache[d] = "invalid" => ~profile[d]

(* A capsule of a campaign whose validator reports on every document holds *)
(* a 1-minimal invoice: the importer was seen not to show the finding on   *)
(* each one-step reduction that passes the profile (validate_batch).       *)
THEOREM MinimalWithEveryReport ==
  Spec /\ [][EveryReport]_vars => []OneMinimalIsMinimal
<1>1. Init => InvalidIsRejected /\ RanInv
  BY DEF Init, InvalidIsRejected, RanInv, Reducing
<1>2. CampaignInv /\ RanInv /\ [Next]_vars => RanInv'
  BY RanInductive DEF CampaignInv
<1>3. CampaignInv /\ RanInv /\ [Next]_vars /\ [EveryReport]_vars
        /\ InvalidIsRejected => InvalidIsRejected'
  <2> SUFFICES ASSUME CampaignInv, RanInv, [Next]_vars, [EveryReport]_vars,
                      InvalidIsRejected,
                      NEW d \in Doc, cache'[d] = "invalid"
               PROVE  ~profile'[d]
    BY DEF InvalidIsRejected
  <2>1. [Claims!ENext]_(Claims!evars)
    BY StepClaims DEF CampaignInv
  <2>2. UNCHANGED profile
    BY <2>1 DEF Claims!ENext, Claims!evars, Claims!Investigate, Claims!Export,
       Claims!Report, Claims!Answer
  <2>3. Claims!Learned \/ UNCHANGED cache
    BY <2>1 DEF Claims!ENext, Claims!evars, Claims!Investigate, Claims!Export,
       Claims!Report, Claims!Answer
  <2>4. cache[d] = "unknown" \/ cache[d] = "invalid"
    BY <2>3 DEF Claims!Learned
  <2>5. cache[d] = "unknown" => EveryReport
    BY DEF vars, search
  <2>6. QED
    BY <2>2, <2>4, <2>5 DEF EveryReport, InvalidIsRejected
<1>4. CampaignInv /\ InvalidIsRejected => OneMinimalIsMinimal
  <2> SUFFICES ASSUME CampaignInv, InvalidIsRejected, "capsule" \in disk,
                      NEW d \in Range(Reduce[record.doc]), profile[d]
               PROVE  d \in refuted
    BY DEF OneMinimalIsMinimal
  <2>1. d \in Doc
    BY ReductionsTyped DEF CampaignInv, TypeOK
  <2>2. cache[d] = "invalid" \/ d \in refuted
    BY DEF CampaignInv, EvidenceInv, Checked
  <2>3. QED
    BY <2>1, <2>2 DEF InvalidIsRejected
<1>5. QED
  BY <1>1, <1>2, <1>3, <1>4, CampaignInvariant, PTL DEF Spec

(* Every importer that may be under test always does the same.             *)
Deterministic ==
  \A f \in Importers : \A d \in Doc : \E b \in Behaviour : f[d] = {b}

(* The importer stays, and what is being reduced shows the finding.        *)
SteadyInv ==
  /\ importer \in Importers /\ version = 1 /\ digest \in {NoDigest, 1}
  /\ pc \in Reducing =>
       /\ found.digest = 1
       /\ \E b \in Behaviour : importer[current] = {b} /\ Preserves(b)
  /\ StatusOneMeansFinding

(* A steady importer that showed the finding shows it in every check.      *)
LEMMA SteadyInductive ==
  ASSUME Deterministic, TypeOK, FindingInv, CleanInv, SteadyInv,
         [Next]_vars, version' = version
  PROVE  SteadyInv'
<1> USE DEF Stop, SecurityFailure, UncaughtFailure, environment, search,
            reduction, output, history, Running, NoDigest, Ended
<1>1. ASSUME NEW b \in Behaviour
      PROVE  pc \in Reducing /\ Runs(current, b) => Preserves(b) /\ SameDigest
  BY DEF SteadyInv, Runs, SameDigest
<1>2. status = 1 => UNCHANGED <<importer, version, digest, pc, status, disk>>
  BY DEF TypeOK, Next, Step, vars, OpenOutput, ValidateBatch, CorpusValidated,
     WriteCorpus, RunCandidate, CorpusExhausted, CheckInitial, StartRound,
     Evaluate, StopReducing, Recheck, VerifyNext, Verified, TakeDigest,
     RunIsDue, Reproduce, OpenCapsule, CloseCapsule, WriteResult, Finish,
     CallFails, Crash, Killed, EditImporter
<1>3. CASE OpenOutput \/ ValidateBatch \/ CorpusValidated \/ WriteCorpus
           \/ CorpusExhausted \/ CloseCapsule \/ WriteResult \/ CallFails
           \/ Killed
  <2>1. /\ UNCHANGED <<importer, version, digest>> /\ pc' \notin Reducing
        /\ status' \in {status, 2} \/ pc' = "crashed"
    BY <1>3 DEF OpenOutput, ValidateBatch, CorpusValidated, WriteCorpus,
       CorpusExhausted, CloseCapsule, WriteResult, CallFails, Crash, Killed,
       Reducing
  <2>2. QED
    BY <1>2, <2>1 DEF SteadyInv, StatusOneMeansFinding
<1>4. CASE RunCandidate
  <2>1. /\ pc = "run" /\ UNCHANGED <<importer, version, status>>
        /\ digest' = 0 /\ status = 3
    BY <1>4 DEF RunCandidate, Runs, TypeOK
  <2>2. Candidates[next] \in Doc
    BY <1>4, CasesTyped DEF RunCandidate, TypeOK
  <2>3. PICK b \in Behaviour :
          /\ b \in importer[Candidates[next]] /\ digest # 0
          /\ \/ /\ Matched(b) /\ pc' = "check"
                /\ found' = [digest |-> digest, signature |-> Signature(b)]
                /\ current' = Candidates[next]
             \/ pc' = pc
    BY <1>4 DEF RunCandidate, Runs
  <2>4. importer[Candidates[next]] = {b}
    BY <2>2, <2>3 DEF Deterministic, SteadyInv
  <2>5. digest = 1
    BY <2>3 DEF SteadyInv
  <2>6. pc' \in Reducing =>
          found'.digest = 1 /\ importer'[current'] = {b} /\ Preserves(b)'
    BY <2>1, <2>3, <2>4, <2>5 DEF Preserves, Reducing
  <2>7. QED
    BY <2>1, <2>6 DEF SteadyInv, StatusOneMeansFinding
<1>5. CASE CheckInitial \/ Recheck
  <2>1. /\ pc \in {"check", "recheck"} /\ UNCHANGED <<importer, version, found, current>>
        /\ status = 3
    BY <1>5 DEF CheckInitial, Recheck, TypeOK
  <2>2. PICK b \in Behaviour :
          /\ Runs(current, b) /\ digest' = 0
          /\ \/ ~SameDigest \/ ~Preserves(b)
             \/ UNCHANGED status
    BY <1>5 DEF CheckInitial, Recheck, CheckedAgain, Runs
  <2>3. UNCHANGED status
    BY <1>1, <2>1, <2>2 DEF Reducing
  <2>4. QED
    BY <2>1, <2>2, <2>3 DEF SteadyInv, StatusOneMeansFinding, Preserves, Reducing
<1>6. CASE Evaluate
  <2>1. /\ pc = "evaluate" /\ UNCHANGED <<importer, version, found>>
        /\ digest' = 0 /\ status = 3 /\ status' \in {3, 2}
    BY <1>6 DEF Evaluate, Runs, TypeOK
  <2>2. PICK d \in Doc, b \in Behaviour :
          /\ b \in importer[d]
          /\ UNCHANGED current \/ (current' = d /\ Preserves(b))
    BY <1>6 DEF Evaluate, Evaluable, Runs, Reduced, TypeOK
  <2>3. importer[d] = {b}
    BY <2>2 DEF Deterministic, SteadyInv
  <2>4. QED
    BY <2>1, <2>2, <2>3 DEF SteadyInv, StatusOneMeansFinding, Preserves, Reducing
<1>7. CASE VerifyNext \/ Reproduce \/ StartRound \/ StopReducing \/ Verified
           \/ OpenCapsule
  <2>1. /\ pc \in Reducing /\ UNCHANGED <<importer, version, found, current>>
        /\ digest' \in {digest, 0} /\ status' \in {status, 2} /\ status = 3
    BY <1>7 DEF VerifyNext, Reproduce, StartRound, StopReducing, Verified,
       OpenCapsule, Runs, TypeOK, Reducing
  <2>2. QED
    BY <2>1 DEF SteadyInv, StatusOneMeansFinding, Preserves
<1>8. CASE TakeDigest \/ UNCHANGED vars
  <2>1. /\ UNCHANGED <<importer, version, found, current, pc, status, disk>>
        /\ digest' \in {digest, version}
    BY <1>8 DEF TakeDigest, vars
  <2>2. QED
    BY <2>1 DEF SteadyInv, StatusOneMeansFinding, Preserves
<1>9. CASE Finish
  <2>1. /\ pc = "finish" /\ pc' = "stopped" /\ UNCHANGED <<importer, version, digest>>
        /\ disk' = disk \cup {"junit"}
        /\ status' = 1 => record # NoRecord
    BY <1>9 DEF Finish
  <2>2. record # NoRecord => "capsule" \in disk
    BY <2>1 DEF CleanInv, Reporting
  <2>3. QED
    BY <2>1, <2>2 DEF SteadyInv, StatusOneMeansFinding, Reducing
<1>10. CASE EditImporter
  BY <1>10 DEF EditImporter
<1>11. QED
  BY <1>3, <1>4, <1>5, <1>6, <1>7, <1>8, <1>9, <1>10 DEF Next, Step

(* A campaign whose deterministic importer nobody replaces meanwhile ends  *)
(* with exit status 1 only when there is a finding and its capsule, unless *)
(* one of its calls raises what nothing in it provides for (CallFails):    *)
(* the campaign's own ValueError, that of _check_initial (shrink.py:353),  *)
(* needs an importer that changes its mind.                                *)
THEOREM SteadyStatusOneMeansFinding ==
  ASSUME Deterministic
  PROVE  Spec /\ [][version' = version]_vars => []StatusOneMeansFinding
<1>1. Init => SteadyInv
  BY DEF Init, SteadyInv, StatusOneMeansFinding, Reducing, Running
<1>2. CampaignInv /\ SteadyInv /\ [Next]_vars /\ [version' = version]_vars
        => SteadyInv'
  <2> SUFFICES ASSUME CampaignInv, SteadyInv, [Next]_vars,
                      [version' = version]_vars
               PROVE  SteadyInv'
    OBVIOUS
  <2>1. version' = version
    BY DEF vars, environment
  <2>2. QED
    BY <2>1, SteadyInductive DEF CampaignInv
<1>3. SteadyInv => StatusOneMeansFinding
  BY DEF SteadyInv
<1>4. QED
  BY <1>1, <1>2, <1>3, CampaignInvariant, PTL DEF Spec

=============================================================================
