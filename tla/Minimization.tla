----------------------------- MODULE Minimization -----------------------------
(***************************************************************************)
(* What a minimization promises, whatever the order in which it tries the  *)
(* reductions: the invoice under reduction is only ever replaced by a      *)
(* valid one-step reduction of it on which the importer can show the       *)
(* finding, and the verdict "minimal" is only given when every valid       *)
(* one-step reduction has an answer of the importer without the finding.   *)
(***************************************************************************)
EXTENDS Naturals, Sequences, SequencesExt

CONSTANTS Doc,        \* serialized invoices
          Reduce,     \* Doc -> its one-step reductions, in order
          Original    \* the candidate on which the finding was seen

VARIABLES valid,      \* the verdict of the pinned profile on each document
          answers,    \* what the importer may answer: does the finding show?
          current,    \* the invoice reached so far
          verdict     \* running, or how the minimization ended

mvars == <<valid, answers, current, verdict>>

Smaller == Range(Reduce[current])
Shows(d) == valid[d] /\ TRUE \in answers[d]
MayNotShow(d) == valid[d] => FALSE \in answers[d]

MInit ==
  /\ valid \in [Doc -> BOOLEAN]
  /\ answers \in [Doc -> (SUBSET BOOLEAN) \ {{}}]
  /\ current = Original
  /\ verdict = "running"

Replace ==
  /\ verdict = "running"
  /\ \E d \in Smaller : Shows(d) /\ current' = d
  /\ UNCHANGED <<valid, answers, verdict>>

Certify ==
  /\ verdict = "running"
  /\ Shows(current)
  /\ \A d \in Smaller : MayNotShow(d)
  /\ verdict' = "minimal"
  /\ UNCHANGED <<valid, answers, current>>

Refute ==
  /\ verdict = "running"
  /\ \E d \in Smaller : Shows(d)
  /\ verdict' = "reducible"
  /\ UNCHANGED <<valid, answers, current>>

GiveUp ==
  /\ verdict = "running"
  /\ verdict' \in {"rejected", "aborted"}
  /\ UNCHANGED <<valid, answers, current>>

MNext == Replace \/ Certify \/ Refute \/ GiveUp

MSpec == MInit /\ [][MNext]_mvars

=============================================================================
