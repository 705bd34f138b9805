# Rechnungsprobe in TLA+

A verification development for `rechnungsprobe` (src/src/rechnungsprobe): a
program that mutates a valid XRechnung invoice, runs an importer on the
mutations, and, when a predicate says that the importer misbehaves, reduces the
invoice to a 1-minimal one, reproduces the behaviour and exports a finding
capsule. The modules model the control of the code (every state change, guard,
early return and error path, in order) and abstract the data to what the
properties tell apart. TLC checks them on small instances; TLAPS proves
theorems about them for every value of their constants.

Paths below are relative to the repository's `src/rechnungsprobe/`.

## Inventory

| part | code | state it keeps | talks to | what is hard | what makes it correct |
|---|---|---|---|---|---|
| shrinker | shrink.py | current invoice, `checked`, frontier, attempts | validator (batches) and importer (callbacks) | bookkeeping over many rounds, an importer that changes its mind | results and verdicts are justified by answers actually given |
| reduction relation | shrink.py, model.py | none (pure) | the model's validation | duplicates, no-ops, clashing line identifiers | every reduction is a smaller invoice |
| bounded process | process.py | two output buffers, a shared total, termination | two reader threads, a stdin thread, the child and its descendants | threads, kills racing exits, pipes held open | what the result says is true; nothing is left running; it returns |
| campaign | campaign.py | validity cache, first match, observations, output directory | corpus, validator, shrinker, target, capsule | flaky and replaced importers, failing calls, kills | evidence in a capsule was all observed, on one target digest |
| command line | cli.py | none | campaign, gate, replay | exceptions of many layers | exit status says what happened |
| corpus store | corpus.py | a directory of cases and a manifest | file system | kills, repeated and concurrent commands | a manifest only beside its cases; nothing rewritten |
| corpus gate | gates.py | the evidence file | corpus store, validator | validates memory, vouches for the disk | evidence and directory agree |
| targets | target.py | workspace, staged files, container | bounded process, Docker daemon | files edited while hashed, daemon calls that fail | digest names what ran; no container is left |
| predicates | predicates.py | none (pure) | campaign, replay | | match and signature are functions of the observation |
| capsules | capsule.py | one ZIP file | campaign, replay | a failure half-way | complete or absent; verified without execution |
| replay | replay.py | observations | capsule, validator, targets | authority, nondeterminism | no execution without authority; verdict needs every run |
| validator | validate.py, profiles.py, security.py | materialized profile, reports | Java in a bounded process | missing or foreign reports | a verdict per case, from its own report |
| invoice model, mutators, comparison | model.py, mutators.py, comparison.py | none (pure) | corpus, shrinker | rounding, collisions | unique, valid candidates |
| XML safety, reporting, provenance, findings | xmlsafe.py, reporting.py, provenance.py, findings.py | none (pure) | everything | bounds | canonical output |
| schemas, research importers, release tools, CI | schemas/, research/, tools/ | | | | outside the running program |

How they interact: `cli.main` calls `run_campaign`, which generates a corpus,
has it validated in batches, runs the target on one candidate after the other
(each run is one `run_bounded_process`), and on the first match hands two
callbacks to `shrink_invoice` and `verify_one_minimal`: `is_valid` /
`validate_batch`, backed by a cache, and `preserves_finding`, which runs the
target again and compares digest and failure signature. Reproductions follow,
then the capsule, `result.json` and `junit.xml`. `corpus` and `corpus-gate` use
the generator on their own. Threads exist only inside `run_bounded_process`;
everything else is one thread, whose environment (importers, the daemon, the
file system, other commands, the user who kills it) is what interleaves with it.

## Modules

| module | models | composed with |
|---|---|---|
| `Minimization` | abstract: what a minimization promises | implemented by `Shrink` |
| `Shrink`, `MC_ShrinkText` | `shrink_invoice`, `verify_one_minimal`, `_check_initial` | run on `ReductionRelation` |
| `InvoiceModel` | `Invoice.validate`, the totals, `serialize_invoice`, `parse_invoice` | pure operators |
| `ReductionRelation` | `one_step_reductions` | over `InvoiceModel` |
| `Mutators` | the mutators and their order | over `InvoiceModel` |
| `Validator` | `validate_invoices`: from a KoSIT run to verdicts | used by `Candidates` |
| `Candidates` | `generate_candidates`, coverage and validation in `run_corpus_gate` | `Mutators`, `Validator` |
| `Materialize` | `materialize_profile`, `safe_extract_zip` | pure operators over file systems |
| `Generation`, `MC_Generation` | what the program does with a candidate: totals, document, reductions, the profile it is validated with | `Candidates`, `ReductionRelation`, `Materialize` |
| `BoundedProcess` | `run_bounded_process` on POSIX | |
| `Evidence` | abstract: what a campaign's directory and exit status tell | implemented by `Campaign` |
| `Campaign`, `MC_Campaign` | `run_campaign`, and the exit status of `fuzz` | has the shrinker at the granularity of rounds |
| `CorpusStore`, `MC_CorpusStore` | `materialize_corpus`, `run_corpus_gate` | |
| `TargetParameters` | constants of the targets and their assumptions | |
| `ContainerTarget` | `run_container_target`, `_cleanup_container`, docker | |
| `DirectoryScan` | `_directory_usage` | |
| `LocalTarget` | `run_local_target`, staging, the scans of `run_bounded_process` | extends `DirectoryScan` |
| `Targets`, `MC_Targets` | `_bounded_target_runner` | composes `ContainerTarget` and `LocalTarget` |
| `Replay` | `verify`, `replay`: capsules, authority, execution, status | the capsules `Campaign` writes are its `Created` |
| `SequenceLemmas` | lemmas about the range, tail and end of a sequence, induction up to a number, recursive functions | used by the proofs |
| `X_proof` | theorems about `X`, for X one of `Shrink`, `BoundedProcess`, `Campaign`, `CorpusStore`, `Targets`, `Replay`, `Generation` | extends `X` |

### Shrink

`valid` and `answers` are the two oracles: the verdict on a document is fixed
(the campaign caches it, also a wrong one, see finding 4), while the importer is asked every time and
may give any answer in `answers[d]`. The other variables are the locals of the
two functions: `current`, `accepted`, `checked`, `attempts` have the code's
names, `rest` is what the enumeration `for` loop has left, `pending` the
frontier or what the verification has left. `Enumerate` is one iteration of the
first inner loop, `Validate` the batch call, `SkipInvalid`, `Reject` and
`Accept` the three ways through the second, `Finish` the end of the `while`.
`StartVerification`, `VerifyNext`, `FoundReducible` and `Certify` are
`verify_one_minimal`. `Abort` is any exception of a callback. `asked` and
`refuted` are history.

`Minimization` says what is promised: the invoice only moves to a valid
reduction on which the finding can show, "minimal" needs every valid reduction
to have an answer without it, "reducible" needs one with it. The refinement
mapping takes `phase` to `verdict`.

### InvoiceModel, Mutators, ReductionRelation

An invoice has the fields that the mutators and the reductions tell apart: eight
required and four optional header texts, and lines with four texts, four optional
members that are only ever removed, quantity, price and rate. A text is a sequence
of characters (of fixed words and a number, where the code formats one), a decimal
is a number of thousandths. `Serialize` leaves out what is absent and writes the
rounded totals, `Parsed` reads a document back and `Parses` says when
`parse_invoice` accepts it: `_required_text` refuses a blank text that
`_validate_text` lets pass. The order of operations, the elimination of no-ops and
duplicates, and the rejection of results that are no invoice are the code's. The
named assumptions are that the seed is a valid invoice (`SeedIsAnInvoice`, the bundled
file), that requests are numbers (`RequestsAreNumbers`, argparse), that two campaign
seeds draw from different tokens (`StrideIsLarge`) and that what a text is reduced to
is a character (`MinimalIsCharacter`).

### Candidates, Validator

`Generate` is one iteration of the loop of `generate_candidates`: the operations
`Names(i)` that an index chooses, applied one after the other, each result
validated. The tokens drawn from SHA-256 are numbers that repeat with a period
(`Periods`): with period 1 every drawn token is the same, the worst there can be
for uniqueness. `CheckCoverage` and `ValidateBatch` are `run_corpus_gate`. A run of
the validator ends with any termination and exit status and leaves a complete set of
reports, one that lacks a report, or one in which a document's report is a copy of
another one's; `Validator!Results` makes verdicts of it.

### Materialize

A call is a record of the file system, what it created, whether it raised, and how
many more operations succeed. Recursive functions over the entries of the archive run
the code; whatever happens, `Cleaned` removes the files, whose order does not matter,
then the directories, the newest first. `FileNames`, `Archives`, `LowerCase` and
`Operations` are constants: the names and archives there may be, the lower case of a
name, and the operation that may fail.

### BoundedProcess

`pc` walks through `run_bounded_process`; each reader goes through "reading"
(blocked in `read1`), "waiting" (has a chunk, wants the lock), "counting" (in
the lock) and "ended". The child and one descendant write to both pipes, end,
get reparented, leave the process group (only with `LeavesGroup`). A join with a
time limit may time out only while somebody still holds the pipe; closing a
stream needs its reader to be out of `read1`, as CPython's buffered reader does.

### Campaign

`pc` follows `run_campaign`. A run of the importer is two steps: `TakeDigest`
hashes the files, the run itself uses whatever importer is there by then
(`target.py:236-242`); what happens in between is `LocalTarget`. `Behaviour`
distinguishes two matching results with one signature ("loss", "noisyLoss") and one
with another ("otherLoss"). Reduction is abstracted to rounds over any subset of the reductions in any order, so `Shrink`
refines what happens in between. The validator may leave documents without a
report, which makes them invalid (`Verdict`). `CallFails` and `Killed` can strike anywhere;
`EditImporter` replaces the importer once. A failing call ends with status 2 where it
raises an `OSError` or a `SecurityError` (`SecurityFailure`), and with status 1 where it
raises anything else (`Crash`): a `ModelError` of `create_finding_capsule` on a blank
required text (capsule.py:109), a `UnicodeDecodeError` of an answer of Docker that is not
ASCII (target.py:331, 353), a `ValueError` of `int` on a digit of a JSON pointer
(predicates.py:88). The model lets both come of any call.

`Evidence` says what all this is for. `Investigate` learns verdicts, runs a valid
document or fails; `Export` writes a capsule that is `Supported` by what was seen
until then; `Report` says "clean" only when every candidate was run and nothing was
exported, and "finding" only beside the capsule; `Answer` is the exit status, which
repeats the report or says that the campaign failed. After the export nothing is run
and nothing learned. The refinement mapping takes the cache to `verdicts`, the finished
capsule to `capsule`, `result.json` to `report` and the exit status to `answer`
(`Answered`: status 1 says "finding" once `junit.xml`, the last file, is written; before
that it is an exception that left `main`, a failure). Opening the capsule does not show.

### CorpusStore

A command is a worker with a plan (cases and campaign seed); the directory is
`root`, `caseRoot` and `file`. A file is Absent, incomplete (created, not
written) or whole. Checks and creations are separate steps, so that two commands
interleave. A file never disappears, hence a check and the read after it are one
step.

### ContainerTarget

The calls share one workspace path: `made`, `staged` and `cidfile` are what is in
it. `Look`, `MakeDirectory`, `Stage`, `Build`, `StartClient`, `ReadCidfile`,
`List`, `Kill`, `RemoveContainer`, `Inspect` and `ReadOutput` follow the code;
each docker command of the cleanup may work, fail or time out. The client and the
daemon are external and are modelled by the steps of `docker run --cidfile`:
`request` is what the client asked and the daemon has not done, so a container
can come into being after its client was killed. `blind` is history: the daemon
did not list the container, or failed when asked whether it is still there.
`Staged` says that a call creates a file exclusively (input by file, or a declared
output file); the default workspace of `replay` depends on the capsule only, so
the calls that meet have the same configuration.

### DirectoryScan, LocalTarget, Targets

The workspace is a tree of entries that an importer creates and removes at any
moment. `ListDirectory` is `scandir`, `CountEntry` the body of the inner loop with
its `stat`: an entry that is gone by then is `Retry`, which starts from nothing or,
after three attempts, gives up. `throughout`, `ever` and `races` are history.

`LocalTarget` stages the argument file: `Read` takes a chunk, `Hashed` ends the
first reading, `CompareCopy` the second, while `Edit` changes the file in place.
Then come the three kinds of scan of `run_bounded_process` (before the start,
between polls, after the end) with the importer at work, a descendant that may
outlive it, and the time limit; the pipes and kills of the same call are
`BoundedProcess`. `Targets` is the runner of a campaign, which has one kind of
target.

### Replay

The initial state is a capsule with any combination of invoice, replay
specification, finding record and packaging. `Created` is what
`create_finding_capsule` writes (and more: `stdout-json` has no classification in findings.py, so
that a campaign exports such a finding only when the run did not exit), `Verified` what
`verify_finding_capsule` accepts; a document stands for its hash and its fingerprint.
`Package` says how the members are packed: as both sides have it, beyond the sizes that
only verification limits, with a `junit.xml` that only verification parses, damaged so
that it is refused, irregular so that the reading raises what `main` does not catch, or
with other reports. A command ends "answered" when it printed its answer, "stopped" or
"rejected" with an error reported, "crashed" with an uncaught exception of a call. `Mode` is the decision who
may have the target run, `Compare`, `ValidateInput`, `TakeDigest`, `Run`, `Judge`
and `Conclude` are the rest of `replay`. A local target's files have a `version`,
which `EditTarget` changes at any moment; a container's digest does not depend on it.

## Runs

| run | what it shows | size |
|---|---|---|
| shrink_text | eight properties of the shrinker, among them the refinement and termination, for all verdicts and all truthful or flaky importers on a text of four characters | 79,698 states |
| generation | every candidate is new and valid, its totals agree, it can be read back, and each of its reductions is a smaller invoice; coverage is exact; a passed gate was accepted document by document; a profile that fails to unpack leaves nothing | 2,262 states, one invoice and some eighty reductions each |
| shrink_not_minimal | *violation*: greedy reduction alone is not 1-minimal | |
| process | result, exit status and left-over processes under every interleaving; the call ends as long as descendants stay in the group | 934,676 states |
| process_hangs | *violation*: it does not when one leaves | |
| campaign | evidence, digests and status, with failures and kills everywhere, among them the refinement of `Evidence`; the end, unless a run never returns | 107,647 states |
| campaign_status | *violation*: status 1 without a finding | |
| corpus | three commands, two at a time, three plans | about 310,000 states |
| campaign_minimal | *violation*: a capsule says 1-minimal after a validation timed out | |
| corpus_resume | *violation*: a repeated gate is refused | |
| targets | what a returned call knows of its container and output, for two calls; what a local call stages, and what its scans say of the workspace; every call ends | 345,368 states |
| replay | what may run, what an answer then says, and what verification makes of the program's own capsules, for 279,936 capsules | 5,086,704 states |

Bounds and why they are enough.

- *Shrink*: a text of four equal characters has few reductions and all that
  matters: documents that are rejected and met again below a later acceptance,
  and some that are dropped at an acceptance and are reductions of the accepted
  invoice as well.
- *Generation*: 12 candidates miss a mutator, 399 the last interaction and 400
  none, in seven batches of 64, the last one short; a shard, the second of
  three, has every third of the indices; every mutator meets every other one,
  and the seed has two lines, blanks at the end of names, a price with a tenth
  of a cent and every kind of optional member; archives of three entries are
  enough for a file where a directory is needed, names that differ in case, and
  a failure between two directories.
- *BoundedProcess*: a budget of two units and at most two per stream make the
  streams fill it exactly, exceed it together and exceed it alone; one
  descendant is enough, since kills treat each alike; the violation run uses one
  unit, as the amount of output only repeats the reader's loop.
- *Campaign*: two candidates and a seed make two validator batches of size two,
  the last one short; two reproductions are the least that can disagree;
  `version` is bounded to one replacement.
- *CorpusStore*: two workers are needed to race, three commands to interrupt,
  finish and come back (`MaxCommands`); the plans share a case name with equal
  text ("both", "first") and with different text ("other").
- *ContainerTarget*: two calls are the least that can meet, each has one
  container; two units of output make a partly written file.
- *LocalTarget*: an argument file of two chunks and three edits let both
  readings mix contents; no edit brings an earlier content of a chunk back, with
  which two mixed readings could agree and `StagedIsASnapshot` would not hold; a
  directory that may be unreadable and a file in it that may be a link, beside
  the staged copy and `input.xml`, with one entry allowed, reach every exit of
  the scan. Names that were removed do not come back and entries are not moved,
  which bounds the importer.
- *Replay*: two invoices and one document that is none, two commands, two safe
  policies and an excessive one are the least that can disagree; three of the
  five predicate kinds cover an outcome decided by the process, by the output
  file and by the validator.

Deadlock checking is off where the modelled program stops for good (all runs:
each models a call, a command or a bounded number of commands that end).

Fairness. `Shrink`: weak fairness of the single thread's steps, whose callbacks are
taken to return. `Campaign`: weak fairness of those steps that are not a run of the
importer (`Own`): the thread's own work, the file system, and the bounded calls of the
validator and of Docker, which leave no descendant behind. Nothing is assumed of a run,
since `run_bounded_process` need not return for a local importer (finding 2); `Ends` says
that a campaign ends or waits for such a run for ever, so that no loop of its own is
endless. Failures, kills and replacements are never forced. `BoundedProcess`: weak fairness of the calling
thread and of each reader (the operating system schedules them), of the death of
a process that was sent SIGKILL, of the broken pipe that ends the stdin thread,
and of time passing. Nothing makes the child or its descendant end. `SampleExceeded`
and `Refuse` are never forced. `Targets`: weak fairness of each call, of a local
call's thread and of its clock; the importer, the docker client and the daemon may
stop for ever, since every docker command is itself a bounded process (whether a bounded process
returns at all is the question of `BoundedProcess`, finding 2). `Candidates`,
`CorpusStore` and `Replay` claim no liveness.

## Findings

1. `shrink_not_minimal` (shrink.py:383). Candidates are marked checked when
   enumerated. Those dropped at an acceptance are never tried again, even when
   they are reductions of the accepted invoice, so the loop can end at an
   invoice that is not 1-minimal although the docstring says it is. The
   independent verification notices, and the campaign aborts without evidence.
2. `process_hangs` (process.py:466). Closing a stream waits for its reader, and
   the reader for the last holder of the pipe.
3. `campaign_status` (cli.py:246). `ValueError` of `_check_initial` is neither
   `OSError` nor `SecurityError`: exit status 1, the status of a finding. The trace needs
   a flaky importer and no failing call; that calls may raise what `main` does not catch
   is left out of the property (`pc # "crashed"`), though it ends with status 1 as well.
4. `campaign_minimal` (campaign.py:366). A validation that times out counts as
   invalid for its whole batch, and for the rest of the campaign, and so does one
   whose exit status is not 0 (validate.py:263-266), though methodology.md calls the
   documents of a batch independent; the reductions
   in it are not shown to the importer, and the capsule says 1-minimal.
5. `corpus_resume` (corpus.py:218). A repeated `corpus-gate` always fails on its
   own `validation.json`; the comparison in gates.py:173-177 is unreachable.

The passing runs document more, in the conditions of their properties:

- `RefusalHasReason`: an incomplete file left by a kill blocks every later
  `--resume` until it is deleted by hand, as `materialize_corpus` promises to
  accept only byte-identical work.
- `ReturnedIsClean`: a failing `docker ps` or `docker inspect` counts as proof that
  there is no container (target.py:350, target.py:381), although
  docs/security-model.md:33-34 says that the cleanup verifies it; and a call whose
  cidfile stayed empty raises before it tries the label.
- `KillsOnlyItsOwn` needs `Staged`: two concurrent calls with standard input and no
  output file on one existing empty workspace are both let in, and the cleanup of
  the second kills the container of the first, which then looks like a crash.
- `VerdictIsAboutTheFinding` takes status 1 for an answer only where one was printed. In
  `verify` and `replay` other exceptions than `OSError` and `SecurityError` end with
  status 1 too (cli.py:329, 378), although src/README.md:132-134 has it say that a replay
  no longer matches: the `ModelError` of a document that is no invoice (capsule.py:265),
  the `TypeError` of `compare_digest` on a hash that is not ASCII (capsule.py:230-234) or of
  a list where a text is expected (replay.py:218, reporting.py:162), `UnicodeDecodeError`
  and `NotImplementedError` of zipfile (capsule.py:172-208), and those of calls named
  under `Campaign`.
- `OwnCapsulesVerify` excepts two kinds of capsules that the program writes and rejects:
  one with a member above `_MEMBER_LIMITS` or a `replay.json` above 128 KiB
  (capsule.py:192, replay.py:177), which creation does not check although it allows 128
  arguments of 32768 characters; and one whose `junit.xml` is no XML because a text of
  the finding has a control character, which only verification parses (capsule.py:268).
- `Ends` excepts a run of the importer that never returns (finding 2).
- `RoundTrips` needs `Readable`: a reduction may leave a required text that is only a
  blank, which `Invoice.validate` accepts and `parse_invoice` does not. The field-loss
  predicate takes such an input for a match (predicates.py:206), and
  `create_finding_capsule` raises `ModelError` on it (capsule.py:109).
- `FailureLeavesNothing` needs the archive to have `scenarios.xml`: without it
  `materialize_profile` raises after its cleanup and leaves everything it unpacked
  (profiles.py:119-121); the pinned archive has it.
- `ExitedWithinBudget` needs that no descendant outlived the importer: one that did
  can create entries after the last scan.
- `ScanTellsTheTruth`: an importer that loses an entry to each of three attempts is
  stopped with `file_limit` although it stayed within its budget.
- `Judge`: when the validator fails on the importer's output, `replay` takes the
  output for invalid and reports that the finding was reproduced.

## Proofs

`Shrink_proof` proves, for every finite set of documents, every reduction
relation and every kind of importer (assumptions `DocAssumption`,
`ReduceAssumption`, `AnswersAssumption`), that each property of `Shrink` but
termination holds in every behaviour of `Spec`, and that `Spec` implements
`Minimization`.

- `TypeCorrect` proves `TypeOK` with each action typed on its own.
- `VerdictInv` is the inductive invariant behind `OnlyValidDocumentsShown`,
  `MinimalityIsVerified`, `VerdictsAreTrue`, `OnlyFlakinessRejects` and the
  refinement. `MinimalIsVerified` speaks of the end only; to carry it there,
  `VerificationComplete` says that at every moment of the verification each valid
  reduction is refuted or still pending, `RefutedMayNotShow` what a refutation
  means, `ReducibleHasWitness` keeps the reduction that was found, and
  `FrontierReduces` that what is pending are reductions of the current invoice.
- `BookInv` is the one behind `AttemptsCounted` and `EachAskedOnce`: the counter
  equals the number of checked documents, whoever was asked had been checked, and
  the frontier is free of repetitions and disjoint from what was asked.
- `AcceptedLeadsToResult` is inductive with the frontier's invariant.
- `ShrinkImplementsMinimization`: initial states map to initial states, and each
  action is a step of `Minimization` or a stutter under the invariants.

The other proofs have the same form: an invariant that says what is established
at each place of the program, checked with TLC on the run's instance before it was
proved; one step per action; the property from the invariant. Constants are subject
to the named assumptions of the module only.

- `BoundedProcess_proof`, for every budget, amount of output, pipe size, set of
  limits. `BudgetInv` relates the counter to what is kept, the lock to the reader
  that counts, and what is written to what is in the pipe, in a chunk or kept:
  without "room is what was left when the lock was taken" `OutputBounded` is not
  inductive. `CallerInv` follows the caller through the kills (`LimitIsExact`,
  `ExitIsTheChilds`, `NoGroupMemberLeft`). `JoinedInv` says that a reader that was
  joined has read everything while the descendant is in the group. `NothingHidden` is
  proved where that is so, as `[](inGroup => NothingHidden)`, and as an invariant of
  every behaviour if `~LeavesGroup`, as in the run: a descendant that left the group
  keeps the pipe open beyond the join, and may write and end after it.
- `Campaign_proof`, for every corpus, reduction relation, batch size, number of
  reproductions and importer, flaky or replaced. `CampaignInv` has four parts.
  `ValidInv`: what the validated batches, the cache and the run set say about the
  profile. `FindingInv`: from the first match on there is exactly one digest, which
  is what makes `CapsuleHasOneDigest` survive a replacement between the hash and the
  run. `EvidenceInv`: during the verification each reduction is still to do, invalid
  or refuted. `CleanInv`: what was run so far. `CampaignImplementsEvidence` needs one
  more, `RanInv`: what is current or refuted was run, and until the corpus is written
  the cache is empty, so that writing it forgets no verdict. Each action is then a step
  of `Evidence` or shows nothing. `ResultNeverDangles` (no `result.json` lists a finding
  without its capsule) is proved and follows from the refinement, which the run checks.
  Two theorems say under which condition the promises of findings 3 and 4 hold:
  `MinimalWithEveryReport`, that exported invoices are 1-minimal if the validator never
  calls a document invalid that the profile accepts; `SteadyStatusOneMeansFinding`,
  that status 1 means a finding if every importer is deterministic and stays, unless a
  call raises what `main` does not catch: of the campaign's own errors only the
  `ValueError` of `_check_initial` becomes status 1, and it needs a change of mind.
- `CorpusStore_proof`, for any number of workers, plans and commands; `CasesOf` are
  non-empty sequences, as `corpus_manifest` refuses an empty shard before the
  directory is touched (corpus.py:122).
  `PlaceInv` says that no two workers write one file, which carries `NeverRewritten`.
  `PassedAreWhole` (a file a command has passed is whole and of its plan)
  and `FilesInOrder` (the manifest comes after the cases, the evidence last) carry
  `EvidenceRestsOnFiles` and `DoneMeansOnDisk`. `RefusalHasReason` needs two more
  facts: `AloneMeansAlone`, that a command marked as alone meets nobody, and
  `AllFound`, that what it finds is then its own.
- `Targets_proof`, for every finite set of calls, tree of names, argument file,
  budget. Container calls: `OwnerInv` (at most one call gets past its staging),
  `ClientInv` (how far the docker client came bounds what may still be created),
  `CleanupInv` (what each step of the cleanup has established). `ReturnedIsClean`
  and `KillsOnlyItsOwn` are proved under `Undisturbed`: the calls stage a file, or
  there is one call. The run satisfies it; without it both are false, see
  the findings. A local call: `StageInv` sandwiches one content the file really had
  between what the copy reads and what the first reading expects. `WalkInv` is what
  makes a walk over a changing directory sound: the entries seen were counted
  once, those listed wait, and whatever was there throughout is seen or waits once
  its directory was listed. That no cycle is overlooked rests on
  `NameAssumption` (no entry is below itself). `TreeInv` and `RunInv` carry
  `ScanTellsTheTruth` over to `ExitedWithinBudget`.
- `Replay_proof`, for every set of documents, commands, policies and predicates and
  every capsule made of them (`Nothing` is no run). `ReplayInv` says what each place
  of a command has established; `VerifiedIsStable` that the acceptance of a capsule does
  not depend on the files of a local target, which is why `OwnCapsulesVerify` holds
  at any time. `Concluded` is what makes `VerdictsAreAboutFindings` inductive: an answer
  is only printed where the digest of the run was compared once more.
- `Generation_proof`, for every seed invoice, request, set of rejected documents and
  archive. The corpus gate: a batch is only accepted if the profile accepts each of its
  documents, whatever report is missing or misplaced (`BatchAccepted`), hence
  `PassedMeansAccepted`; a batch of one has no second report that could be copied.
  What recursive functions compute needs induction, which the library states for an
  operator parameter; `LeastNumber`, `CountedInduction` and `RecursionExists` in
  `SequenceLemmas` state it for sets and functions instead, and carry the sums, the
  elimination of duplicates, the flattening of sequences and the runs of `Materialize`.
  - *Reductions*: `Size` counts lines, characters, optional members and how far a
    number is from one. `ReductionsAreSmaller`: every one-step reduction of any invoice
    is valid and has a smaller size; `ReductionsEnd`: hence no chain of them is
    infinite, and the shrinker accepts finitely often.
  - *Candidates*: `CandidatesInv` says that candidates have the indices of the shard in
    order, the operations of their index and valid invoices. From it follow
    `TotalsAlwaysAgree` (half a cent per line), `DocumentsRoundTrip` and
    `CandidatesReduceToSmaller`.
  - *Coverage*: arithmetic on quotients and remainders by the number of mutators shows
    which pair each index applies, hence `CoverageIsAlwaysExact`.
  - *Uniqueness*: `IdentifiersInv` says that no later mutator touches the identifier
    made from the index. `CandidatesNeverCollide` and `CandidatesAreAlwaysNew` follow,
    if different numbers are written differently and the seed is plain
    (`SeedIsPlain`: fewer than a hundred lines, no identifier that a mutator writes).
    The condition is needed: on a seed with a line ZUSATZ-n the mutator that draws n
    raises ModelError, and the corpus is not generated.
  - *Archives*: `Sound` is kept by every operation: what was made is new, lies in
    directories that are there, and a later directory is never above an earlier one. So
    removing the newest first never meets a directory that is not empty:
    `UnpackedOrNothing` holds for any sequence of entries and any failing operation, and
    `FailureLeavesNothing` in every state.

Every safety property and both refinements of the passing runs are proved; some under
the condition that their bullet names, which the run meets. Only model-checked:

- the liveness properties `Terminates`, `Ends`, `Returns` and `CallsEnd`: fairness
  is out of this prover's reach;
- the properties of the runs that end in a violation, which are false without a
  further condition.

The type invariants are proved for the sake of the other proofs and are not among
the properties of the runs.

## Not modelled

- XML elements and namespaces, JSON and JUnit formatting, ZIP bytes and hashes (a
  digest is the identity of what it digests); the XML safety limits, reporting,
  provenance and comparison: single passes over one document or record, without state.
- The Windows job object and process creation flags of process.py.
- Of an invoice: limits of lengths and numbers, control characters, the order of the
  dates, endpoints of another scheme than EM (`InvoiceModel!Valid`), and the reductions
  of the payee's account and of the buyer's street, city and postal code, which go the
  way of the texts that are there. The tokens of mutators are a periodic sequence in
  `Candidates`; the pairing of a batch's
  verdicts with its documents by position (shrink.py:393) is taken for granted.
- What makes an archive entry admissible (one bit), the Java command line and the
  texts of validator errors.
- The bytes a scan adds up, which follow the same path as its entries; a file
  argument that vanishes while it is staged; several file arguments, which are staged
  one after the other.
- Argument parsing and printing; research importers, schemas, release tools, CI.

See "components" in PROJECT.json for the reason of each.

## Plan

What is left:

1. That the rounds of `Campaign` are what `Shrink` does between two verdicts, so that
   both are one refinement of `Evidence`.
2. Conditions under which the greedy reduction alone is 1-minimal (finding 1), as
   there are for findings 3 and 4.
3. The parts under "Not modelled" that keep no state, as operators checked against
   reference definitions: comparison and the XML limits first.
