-------------------------------- MODULE Targets --------------------------------
(***************************************************************************)
(* _bounded_target_runner of src/rechnungsprobe/campaign.py: a call with   *)
(* an invoice and a workspace runs either a container or a local importer. *)
(* Both prepare the same kind of workspace; a campaign has one kind of     *)
(* target, so the calls of a behaviour are all of that kind.               *)
(***************************************************************************)
EXTENDS TargetParameters

VARIABLES
  kind,            \* container or local
  made,            \* the workspace exists
  \* container calls
  staged, cidfile, calls, ids, raised, outputs, client, request, container,
  written, blind,
  \* a local call
  tree, outcome, attempt, pending, count, limit, listing, throughout, ever, races,
  pc, source, got, expected, baseline, termination, late, child, output, whole,
  escaped

Container == INSTANCE ContainerTarget WITH pc <- calls, output <- outputs
Local == INSTANCE LocalTarget

containerVars == <<staged, cidfile, calls, ids, raised, outputs, client, request,
                   container, written, blind>>
localVars == <<tree, outcome, attempt, pending, count, limit, listing, throughout,
               ever, races, pc, source, got, expected, baseline, termination, late,
               child, output, whole, escaped>>
vars == <<kind, made, containerVars, localVars>>

Init ==
  /\ kind \in {"container", "local"}
  /\ Container!Init /\ Local!Init

ContainerCall(c) ==
  kind = "container" /\ Container!Step(c) /\ UNCHANGED <<kind, localVars>>
DockerActs(c) ==
  kind = "container" /\ Container!Docker(c) /\ UNCHANGED <<kind, localVars>>
LocalCall == kind = "local" /\ Local!Step /\ UNCHANGED <<kind, containerVars>>
LocalClock == kind = "local" /\ Local!Expire /\ UNCHANGED <<kind, containerVars>>
ImporterActs ==
  /\ kind = "local"
  /\ Local!Edit \/ Local!Works \/ Local!Ends
  /\ UNCHANGED <<kind, containerVars>>

Next ==
  \/ \E c \in Call : ContainerCall(c) \/ DockerActs(c)
  \/ LocalCall \/ LocalClock \/ ImporterActs

Fairness ==
  /\ \A c \in Call : WF_vars(ContainerCall(c))
  /\ WF_vars(LocalCall) /\ WF_vars(LocalClock)

Spec == Init /\ [][Next]_vars /\ Fairness

-----------------------------------------------------------------------------
(* The properties of the two kinds of call, stated at their definitions. *)
ReturnedIsClean == Container!ReturnedIsClean
KillsOnlyItsOwn == Container!KillsOnlyItsOwn
StagedIsASnapshot == Local!StagedIsASnapshot
ExitedWithinBudget == Local!ExitedWithinBudget
ScanTellsTheTruth == Local!ScanTellsTheTruth

Ended ==
  IF kind = "container" THEN \A c \in Call : calls[c] \in {"returned", "refused"}
                        ELSE pc \in {"returned", "refused"}

(* Every call comes to an end, although an importer may run for ever, may  *)
(* keep changing the directory while it is measured, and the daemon may    *)
(* fail to answer (target.py:226-258, 385-428).                            *)
CallsEnd == <>Ended
=============================================================================
