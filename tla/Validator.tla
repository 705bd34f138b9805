-------------------------------- MODULE Validator --------------------------------
(***************************************************************************)
(* validate_invoices of src/rechnungsprobe/validate.py: from the end of    *)
(* one KoSIT run over a batch to a verdict on each of its documents.       *)
(*                                                                         *)
(* Documents are numbered in the order of the batch, which also names      *)
(* their input files and the report each of them is expected to have.      *)
(*   outcome.termination   how run_bounded_process says the run ended      *)
(*   outcome.returncode    the exit status (KoSIT: how many it rejects)    *)
(*   outcome.reports       expected report name -> what lies there: the    *)
(*                         document whose digest it carries, and whether   *)
(*                         it has a fatal or error assertion               *)
(* Reports under other names are one more way for the set not to be exact. *)
(***************************************************************************)
EXTENDS Naturals

BatchLimit == 64
BatchIsAllowed(size) == size \in 1..BatchLimit

Failure == [valid |-> FALSE, hasReport |-> FALSE]

(* _report_errors: the report has to name the digest of its own document. *)
AnyReport(outcome, d) == TRUE
ReportIsAbout(outcome, d) == outcome.reports[d].document = d

Judged(outcome, d) ==
  IF ReportIsAbout(outcome, d)
  THEN [valid |-> outcome.returncode = 0 /\ ~outcome.reports[d].errors,
        hasReport |-> TRUE]
  ELSE Failure

(* A run that did not exit, or did not leave the exact set of reports,     *)
(* fails every document of the batch, and so does its exit status.         *)
Results(outcome, size) ==
  [d \in 1..size |->
     IF outcome.termination # "exited" \/ DOMAIN outcome.reports # 1..size
     THEN Failure ELSE Judged(outcome, d)]

=============================================================================
