------------------------------ MODULE MC_Campaign ------------------------------
(* Two candidates that reduce to a common smaller invoice. *)
EXTENDS Campaign

MCDoc == {"seed", "first", "second", "small"}
MCCandidates == <<"first", "second">>
MCReduce == [seed |-> <<>>, first |-> <<"second", "small">>,
             second |-> <<"small">>, small |-> <<>>]

(* Deterministic, flaky, or with two observations or two signatures; the   *)
(* seed itself is never run.                                               *)
MCKinds == {{"clean"}, {"loss"}, {"clean", "loss"},
            {"loss", "noisyLoss"}, {"loss", "otherLoss"}}
MCImporters == {f \in [MCDoc -> MCKinds] : f["seed"] = {"clean"}}
MCEdits == {[d \in MCDoc |-> k] : k \in {{"clean"}, {"loss"}}}
=============================================================================
