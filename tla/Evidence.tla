------------------------------- MODULE Evidence -------------------------------
(***************************************************************************)
(* What a campaign promises to whoever reads its output directory and its  *)
(* exit status, however it searches, reduces and repeats: the importer     *)
(* only sees documents found valid, a capsule is exported once and rests   *)
(* on what was seen until then, nothing is run after it, the report says   *)
(* what the directory holds, and the exit status what the report says.     *)
(***************************************************************************)
EXTENDS Naturals, Sequences, SequencesExt

CONSTANTS Doc,            \* serialized invoices
          Candidates,     \* the generated corpus, in order
          Reduce,         \* Doc -> its one-step reductions
          Reproductions,  \* requested number of final reproductions
          NoCapsule

VARIABLES profile,        \* Doc -> BOOLEAN: the pinned profile's verdict
          verdicts,       \* Doc -> what the campaign knows of that
          ran,            \* documents the importer was run on
          capsule,        \* the exported capsule
          report,         \* none, clean or finding
          answer          \* none, clean, finding or failed

evars == <<profile, verdicts, ran, capsule, report, answer>>

EInit ==
  /\ profile \in [Doc -> BOOLEAN]
  /\ verdicts = [d \in Doc |-> "unknown"]
  /\ ran = {}
  /\ capsule = NoCapsule /\ report = "none" /\ answer = "none"

(* A verdict is given once, and "valid" only to what the profile accepts.  *)
Learned ==
  /\ verdicts' \in [Doc -> {"unknown", "valid", "invalid"}]
  /\ \A d \in Doc :
       /\ verdicts[d] # "unknown" => verdicts'[d] = verdicts[d]
       /\ verdicts'[d] = "valid" => profile[d]

(* What the importer does may end the campaign. *)
Investigate ==
  /\ capsule = NoCapsule /\ report = "none" /\ answer = "none"
  /\ Learned
  /\ \/ UNCHANGED ran
     \/ \E d \in Doc : verdicts[d] = "valid" /\ ran' = ran \cup {d}
  /\ answer' \in {"none", "failed"}
  /\ UNCHANGED <<profile, capsule, report>>

(* The invoice was run, each of its reductions is invalid or was run, and  *)
(* the reproductions are as many as requested and all alike.               *)
Supported(c) ==
  /\ verdicts[c.doc] = "valid" /\ c.doc \in ran
  /\ \A d \in Range(Reduce[c.doc]) :
       verdicts[d] = "invalid" \/ (verdicts[d] = "valid" /\ d \in ran)
  /\ Len(c.observations) = Reproductions
  /\ \A i \in DOMAIN c.observations :
       c.observations[i] = c.observations[1] /\ c.observations[i] # "clean"

Export ==
  /\ capsule = NoCapsule /\ report = "none" /\ answer = "none"
  /\ capsule' # NoCapsule /\ Supported(capsule')
  /\ UNCHANGED <<profile, verdicts, ran, report, answer>>

Report ==
  /\ report = "none" /\ answer = "none"
  /\ \/ /\ capsule = NoCapsule /\ Range(Candidates) \subseteq ran
        /\ report' = "clean"
     \/ /\ capsule # NoCapsule
        /\ report' = "finding"
  /\ UNCHANGED <<profile, verdicts, ran, capsule, answer>>

Answer ==
  /\ answer = "none"
  /\ \/ report # "none" /\ answer' = report
     \/ answer' = "failed"
  /\ UNCHANGED <<profile, verdicts, ran, capsule, report>>

ENext == Investigate \/ Export \/ Report \/ Answer

ESpec == EInit /\ [][ENext]_evars

=============================================================================
