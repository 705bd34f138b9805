------------------------------- MODULE Candidates -------------------------------
(***************************************************************************)
(* generate_candidates (src/rechnungsprobe/corpus.py) and what the corpus  *)
(* gate (gates.py) then asks of the whole corpus: every mutator and every  *)
(* ordered pair of them is covered, and the profile accepts every          *)
(* candidate, in batches of 64.                                            *)
(*                                                                         *)
(* The files it is written to are CorpusStore's.  SHA-256 of the campaign  *)
(* seed and the index, from which the tokens are drawn, is external: the   *)
(* tokens of a corpus repeat with a period, far more often than digests do.*)
(***************************************************************************)
EXTENDS Mutators, Validator

CONSTANTS
  Seed,            \* the seed invoice
  Counts,          \* the values of count
  CampaignSeeds,   \* the values of campaign_seed
  Shards,          \* the values of <<shard_index, shard_count>>
  Periods,         \* after how many candidates drawn tokens repeat
  Stride,          \* 2^32: the unique token is campaign_seed * Stride + index
  Rejections       \* the indices the profile may reject, each a set

ASSUME SeedIsAnInvoice == Seed \in InvoicesOver(STRING) /\ Valid(Seed)
ASSUME RequestsAreNumbers ==
  /\ Counts \subseteq Nat /\ CampaignSeeds \subseteq Nat /\ Stride \in Nat
  /\ Periods \subseteq Nat \ {0}
  /\ \A shard \in Shards : shard[1] \in Nat /\ shard[2] \in Nat \ {0}
ASSUME StrideIsLarge == \A count \in Counts : count < Stride

VARIABLES
  request,         \* what was asked for, and the period of the drawn tokens
  index,           \* the next index
  candidates,      \* the candidates so far: index, operations and invoice
  phase,           \* generating, generated, validating, passed or the failure
  rejected,        \* the indices the profile rejects
  offset           \* how many candidates the gate has validated

vars == <<request, index, candidates, phase, rejected, offset>>

N == Len(MutatorOrder)

-----------------------------------------------------------------------------
(* The operations of the candidate with index i: its primary mutator, from *)
(* index N on an interaction, and invoice-id unless it is one of the two.  *)
Primary(i) == MutatorOrder[(i % N) + 1]
AloneOrFirst(i) == i <= N
Alone(i) == i < N
Interaction(i) ==
  LET others == RemoveAt(MutatorOrder, (i % N) + 1)
      cycle == (i - N) \div N
  IN  others[(cycle % Len(others)) + 1]

Chosen(i) == IF Alone(i) THEN <<Primary(i)>> ELSE <<Primary(i), Interaction(i)>>
Names(i) ==
  IF "invoice-id" \in Range(Chosen(i)) THEN Chosen(i)
                                       ELSE Append(Chosen(i), "invoice-id")

UniqueToken(i) == request.campaignSeed * Stride + i
(* The tokens that the code draws with SHA-256 are arbitrary numbers; here *)
(* they are the members of a sequence that repeats with request.period.    *)
Drawn(i, k) == (i + request.campaignSeed + k) % request.period
Token(i, k) == IF Names(i)[k] = "invoice-id" THEN UniqueToken(i) ELSE Drawn(i, k)

(* The invoice after each of the operations, the seed before the first;    *)
(* mutate raises ModelError when one of them is not valid.                 *)
Stages(i) ==
  LET stage[k \in 0..Len(Names(i))] ==
        IF k = 0 THEN Seed ELSE Mutated(stage[k - 1], Names(i)[k], Token(i, k))
  IN  stage

(* The model says of an invoice what its semantic fingerprint does. *)
Collides(invoice) ==
  invoice = Seed \/ \E c \in Range(candidates) : c.invoice = invoice

-----------------------------------------------------------------------------
Init ==
  /\ request \in [count : Counts, campaignSeed : CampaignSeeds,
                  shard : Shards, period : Periods]
  /\ index = request.shard[1]
  /\ candidates = <<>>
  /\ phase = "generating"
  /\ rejected = {}
  /\ offset = 0

Generate ==
  /\ phase = "generating" /\ index < request.count
  /\ LET stages == Stages(index)
         invoice == stages[Len(Names(index))]
     IN  IF \E k \in DOMAIN stages : ~Valid(stages[k])
         THEN phase' = "ModelError" /\ UNCHANGED <<candidates, index>>
         ELSE IF Collides(invoice)
         THEN phase' = "RuntimeError" /\ UNCHANGED <<candidates, index>>
         ELSE /\ candidates' = Append(candidates, [index |-> index, invoice |-> invoice,
                                                   operations |-> Names(index)])
              /\ index' = index + request.shard[2]
              /\ UNCHANGED phase
  /\ UNCHANGED <<request, rejected, offset>>

Generated ==
  /\ phase = "generating" /\ index >= request.count
  /\ phase' = "generated"
  /\ UNCHANGED <<request, index, candidates, rejected, offset>>

-----------------------------------------------------------------------------
(* run_corpus_gate, which generates the whole corpus in one shard. *)
MutatorsCovered == {c.operations[1] : c \in Range(candidates)}
InteractionsCovered ==
  {<<c.operations[1], c.operations[2]>> : c \in
     {c \in Range(candidates) : c.index >= N /\ Len(c.operations) >= 2}}
InteractionBuckets ==
  {pair \in Range(MutatorOrder) \X Range(MutatorOrder) : pair[1] # pair[2]}

CheckCoverage ==
  /\ phase = "generated" /\ request.shard = <<0, 1>>
  /\ \/ /\ MutatorsCovered # Range(MutatorOrder)
        /\ phase' = "mutators not covered" /\ UNCHANGED rejected
     \/ /\ MutatorsCovered = Range(MutatorOrder)
        /\ InteractionsCovered # InteractionBuckets
        /\ phase' = "interactions not covered" /\ UNCHANGED rejected
     \/ /\ MutatorsCovered = Range(MutatorOrder)
        /\ InteractionsCovered = InteractionBuckets
        /\ phase' = "validating" /\ rejected' \in Rejections
  /\ UNCHANGED <<request, index, candidates, offset>>

(* How a run over a batch may end: a truthful report for every document,   *)
(* or one report missing, or a copy of another document's in its place.    *)
Truthful(batch) ==
  [d \in DOMAIN batch |-> [document |-> d, errors |-> batch[d].index \in rejected]]
Displaced(batch) ==
  {d \in DOMAIN batch : d \in {1, Len(batch)} \/ batch[d].index \in rejected}
ReportSets(batch) ==
  {Truthful(batch)}
  \cup {Restrict(Truthful(batch), DOMAIN batch \ {d}) : d \in Displaced(batch)}
  \cup {[Truthful(batch) EXCEPT ![d] = Truthful(batch)[other]] :
          d \in Displaced(batch), other \in DOMAIN batch \cap {1, 2, Len(batch)}}
Outcomes(batch) ==
  [termination : {"exited", "timeout"}, returncode : {0, 1}, reports : ReportSets(batch)]

ValidateBatch ==
  /\ phase = "validating" /\ offset < Len(candidates)
  /\ LET end == IF Len(candidates) - offset < BatchLimit THEN Len(candidates)
                                                         ELSE offset + BatchLimit
         batch == SubSeq(candidates, offset + 1, end)
     IN  /\ BatchIsAllowed(Len(batch))
         /\ \E outcome \in Outcomes(batch) :
              phase' = IF \A d \in DOMAIN batch : Results(outcome, Len(batch))[d].valid
                       THEN "validating" ELSE "rejected"
         /\ offset' = end
  /\ UNCHANGED <<request, index, candidates, rejected>>

Pass ==
  /\ phase = "validating" /\ offset >= Len(candidates)
  /\ phase' = "passed"
  /\ UNCHANGED <<request, index, candidates, rejected, offset>>

Next == Generate \/ Generated \/ CheckCoverage \/ ValidateBatch \/ Pass
Spec == Init /\ [][Next]_vars

-----------------------------------------------------------------------------
(* No drawn token makes a mutator produce an invoice the model refuses, or *)
(* two candidates the same: every candidate keeps the identifier made from *)
(* its own index, whatever was applied after it (corpus.py:97-105).        *)
EveryCandidateIsNew ==
  /\ phase \notin {"ModelError", "RuntimeError"}
  /\ candidates # <<>> =>
       LET c == Last(candidates)
       IN  c.invoice.header.identifier = Worded("RP", UniqueToken(c.index))

(* The smallest count for which the gate finds every ordered pair of       *)
(* mutators is N * N: one candidate fewer is refused, one more is not      *)
(* needed (corpus.py:83-88, gates.py:97-106).                              *)
CoverageIsExact ==
  phase \in {"interactions not covered", "mutators not covered",
             "validating", "rejected", "passed"} =>
    /\ phase = "mutators not covered" <=> request.count < N
    /\ phase = "interactions not covered" <=> request.count \in N..(N * N - 1)

(* The gate only passes a corpus every document of which the profile       *)
(* accepts, although a report may be missing or be about another document  *)
(* and the exit status is that of the whole batch (gates.py:111-130).      *)
PassedMeansAccepted ==
  phase = "passed" =>
    /\ offset = Len(candidates)
    /\ \A c \in Range(candidates) : c.index \notin rejected

=============================================================================
