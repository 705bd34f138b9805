--------------------------- MODULE ContainerTarget ---------------------------
(***************************************************************************)
(* run_container_target and _cleanup_container                             *)
(* (src/rechnungsprobe/target.py): calls that run a container through the  *)
(* docker client, on one workspace path that more than one of them may     *)
(* use, and the cleanup that has to leave no container behind although the *)
(* client was killed and any call of the daemon may fail.                  *)
(*                                                                         *)
(* The client and the daemon are external.  The client opens the cidfile,  *)
(* has the container created, writes its identifier to the cidfile, has it *)
(* started and waits for it; a request it sent may be carried out after    *)
(* the client is gone.  A container is named by the call it belongs to;    *)
(* all of them carry the label of the same path.                           *)
(***************************************************************************)
EXTENDS TargetParameters

VARIABLES
  \* the workspace
  made,       \* the directory exists
  staged,     \* so do the files a call stages
  cidfile,    \* NoFile, Empty, or the call whose container it names
  \* the calls
  pc,
  ids,        \* containers left to clean up, in order
  raised,     \* the docker client could not be run at all
  output,     \* what was read from the output file
  \* docker
  client,     \* the docker run process of each call
  request,    \* what its client asked and the daemon has not done yet
  container,  \* the container of each call
  written,    \* what the importer in it wrote to the output file
  \* history
  blind       \* the cleanup got no or a false answer about the container

workspace == <<made, staged, cidfile>>
docker == <<client, request, container, written>>
vars == <<workspace, pc, ids, raised, output, docker, blind>>

Alive == {"opened", "creating", "created", "identified", "waiting"}
Exists(c) == container[c] \in {"created", "running", "exited"}

Init ==
  /\ made \in BOOLEAN /\ staged = FALSE /\ cidfile = NoFile
  /\ pc = [c \in Call |-> "look"]
  /\ ids = [c \in Call |-> <<>>]
  /\ raised = [c \in Call |-> FALSE]
  /\ output = [c \in Call |-> 0]
  /\ client = [c \in Call |-> "off"]
  /\ request = [c \in Call |-> "none"]
  /\ container = [c \in Call |-> "none"]
  /\ written = [c \in Call |-> 0]
  /\ blind = [c \in Call |-> FALSE]

Goto(c, to) == pc' = [pc EXCEPT ![c] = to]
Refuse(c) == Goto(c, "refused")

-----------------------------------------------------------------------------
(* _prepare_workspace: the directory is new, or empty. *)
Look(c) ==
  /\ pc[c] = "look"
  /\ \/ ~made /\ Goto(c, "make")
     \/ made /\ ~staged /\ cidfile = NoFile /\ Goto(c, "stage")
     \/ made /\ (staged \/ cidfile # NoFile) /\ Refuse(c)
  /\ UNCHANGED <<workspace, ids, raised, output, docker, blind>>

(* mkdir fails when another call was faster. *)
MakeDirectory(c) ==
  /\ pc[c] = "make"
  /\ IF made THEN Refuse(c) ELSE Goto(c, "stage")
  /\ made' = TRUE
  /\ UNCHANGED <<staged, cidfile, ids, raised, output, docker, blind>>

(* input.xml, or the output directory, is created exclusively. *)
NeverTaken == FALSE
Taken == staged

Stage(c) ==
  /\ pc[c] = "stage"
  /\ IF Staged
     THEN /\ IF Taken THEN Refuse(c) ELSE Goto(c, "build")
          /\ staged' = TRUE
     ELSE Goto(c, "build") /\ UNCHANGED staged
  /\ UNCHANGED <<made, cidfile, ids, raised, output, docker, blind>>

(* build_docker_command names the cidfile and the label, or refuses a      *)
(* target that is not well formed.                                         *)
Build(c) ==
  /\ pc[c] = "build"
  /\ Goto(c, "start") \/ Refuse(c)
  /\ UNCHANGED <<workspace, ids, raised, output, docker, blind>>

(* run_bounded_process starts the client, or raises. *)
StartClient(c) ==
  /\ pc[c] = "start"
  /\ Goto(c, "wait")
  /\ client' = [client EXCEPT ![c] = "opened"]
  /\ UNCHANGED <<workspace, ids, raised, output, request, container, written,
                 blind>>

ClientCannotStart(c) ==
  /\ pc[c] = "start"
  /\ Goto(c, "cleanup")
  /\ raised' = [raised EXCEPT ![c] = TRUE]
  /\ UNCHANGED <<workspace, ids, output, docker, blind>>

(* It returns when the client ended or was killed at a limit. *)
ClientReturns(c) ==
  /\ pc[c] = "wait"
  /\ client[c] = "ended"
  /\ Goto(c, "cleanup")
  /\ UNCHANGED <<workspace, ids, raised, output, docker, blind>>

KillClient(c) ==
  /\ pc[c] = "wait"
  /\ client[c] \in Alive
  /\ client' = [client EXCEPT ![c] = "ended"]
  /\ Goto(c, "cleanup")
  /\ UNCHANGED <<workspace, ids, raised, output, request, container, written,
                 blind>>

-----------------------------------------------------------------------------
(* _cleanup_container: the cidfile, or else the label, says what to remove.*)
ToClean(left) == IF left = <<>> THEN "read" ELSE "kill"

Clean(c, left) ==
  /\ ids' = [ids EXCEPT ![c] = left]
  /\ Goto(c, ToClean(left))

(* An empty cidfile holds no identifier: the cleanup gives up. *)
NothingToClean(c) == Clean(c, <<>>)
NoIdentifier(c) == Refuse(c) /\ UNCHANGED ids

ReadCidfile(c) ==
  /\ pc[c] = "cleanup"
  /\ \/ cidfile = NoFile /\ Goto(c, "list") /\ UNCHANGED ids
     \/ cidfile = Empty /\ NoIdentifier(c)
     \/ cidfile \in Call /\ Clean(c, <<cidfile>>)
  /\ UNCHANGED <<workspace, raised, output, docker, blind>>

(* docker ps -aq --filter label.  What it does not list yet it misses; a   *)
(* failure or time limit lists nothing; and without docker it raises.      *)
Listings == SetToSeqs({d \in Call : Exists(d)})

List(c) ==
  /\ pc[c] = "list"
  /\ \/ /\ \E left \in Listings : Clean(c, left)
        /\ blind' = [blind EXCEPT ![c] = request[c] = "create"]
     \/ /\ Clean(c, <<>>)
        /\ blind' = [blind EXCEPT ![c] = TRUE]
     \/ /\ raised[c]
        /\ Refuse(c)
        /\ UNCHANGED <<ids, blind>>
  /\ UNCHANGED <<workspace, raised, output, docker>>

(* docker kill and docker rm -f: whether they worked is not looked at. *)
Kill(c) ==
  /\ pc[c] = "kill"
  /\ Goto(c, "rm")
  /\ \/ /\ container[Head(ids[c])] = "running"
        /\ container' = [container EXCEPT ![Head(ids[c])] = "exited"]
     \/ UNCHANGED container
  /\ UNCHANGED <<workspace, ids, raised, output, client, request, written, blind>>

RemoveContainer(c) ==
  /\ pc[c] = "rm"
  /\ Goto(c, "inspect")
  /\ \/ /\ Exists(Head(ids[c]))
        /\ container' = [container EXCEPT ![Head(ids[c])] = "gone"]
     \/ UNCHANGED container
  /\ UNCHANGED <<workspace, ids, raised, output, client, request, written, blind>>

(* docker inspect: any exit status but 0 is taken for a missing container. *)
Answers(d) == {"failed", "timeout"} \cup (IF Exists(d) THEN {"found"} ELSE {"missing"})
Unverified(answer) == answer \in {"found", "timeout"}

Inspect(c) ==
  /\ pc[c] = "inspect"
  /\ \E answer \in Answers(Head(ids[c])) :
       IF Unverified(answer)
       THEN Refuse(c) /\ UNCHANGED <<ids, blind>>
       ELSE /\ Clean(c, Tail(ids[c]))
            /\ blind' = [blind EXCEPT ![c] = @ \/ answer = "failed"]
  /\ UNCHANGED <<workspace, raised, output, docker>>

(* What the client raised is raised again; otherwise the output file is    *)
(* read, unless it is unsafe or too large.                                 *)
ReadOutput(c) ==
  /\ pc[c] = "read"
  /\ \/ /\ ~raised[c]
        /\ Goto(c, "returned")
        /\ output' = [output EXCEPT ![c] = written[c]]
     \/ Refuse(c) /\ UNCHANGED output
  /\ UNCHANGED <<workspace, ids, raised, docker, blind>>

Step(c) ==
  \/ Look(c) \/ MakeDirectory(c) \/ Stage(c) \/ Build(c)
  \/ StartClient(c) \/ ClientCannotStart(c) \/ ClientReturns(c) \/ KillClient(c)
  \/ ReadCidfile(c) \/ List(c) \/ Kill(c) \/ RemoveContainer(c) \/ Inspect(c)
  \/ ReadOutput(c)

-----------------------------------------------------------------------------
(* The docker client.  It refuses to run when the cidfile exists. *)
OpenCidfile(c) ==
  /\ client[c] = "opened"
  /\ IF cidfile = NoFile
     THEN /\ cidfile' = Empty
          /\ client' = [client EXCEPT ![c] = "creating"]
          /\ request' = [request EXCEPT ![c] = "create"]
     ELSE /\ client' = [client EXCEPT ![c] = "ended"]
          /\ UNCHANGED <<cidfile, request>>
  /\ UNCHANGED <<made, staged, pc, ids, raised, output, container, written, blind>>

WriteCidfile(c) ==
  /\ client[c] = "created"
  /\ cidfile' = c
  /\ client' = [client EXCEPT ![c] = "identified"]
  /\ UNCHANGED <<made, staged, pc, ids, raised, output, request, container,
                 written, blind>>

AskForStart(c) ==
  /\ client[c] = "identified"
  /\ client' = [client EXCEPT ![c] = "waiting"]
  /\ request' = [request EXCEPT ![c] = "start"]
  /\ UNCHANGED <<workspace, pc, ids, raised, output, container, written, blind>>

(* Its container ended, or it lost the daemon; a cidfile that is still     *)
(* empty is removed.                                                       *)
ClientEnds(c) ==
  /\ client[c] \in {"creating", "created", "identified", "waiting"}
  /\ client' = [client EXCEPT ![c] = "ended"]
  /\ cidfile' = IF cidfile = Empty THEN NoFile ELSE cidfile
  /\ UNCHANGED <<made, staged, pc, ids, raised, output, request, container,
                 written, blind>>

(* The daemon. *)
Create(c) ==
  /\ request[c] = "create"
  /\ request' = [request EXCEPT ![c] = "none"]
  /\ container' = [container EXCEPT ![c] = "created"]
  /\ client' = [client EXCEPT ![c] = IF @ = "creating" THEN "created" ELSE @]
  /\ UNCHANGED <<workspace, pc, ids, raised, output, written, blind>>

Begin(c) ==
  /\ request[c] = "start"
  /\ request' = [request EXCEPT ![c] = "none"]
  /\ container' = [container EXCEPT ![c] = IF @ = "created" THEN "running" ELSE @]
  /\ UNCHANGED <<workspace, pc, ids, raised, output, client, written, blind>>

Work(c) ==
  /\ container[c] = "running"
  /\ \/ /\ written[c] < MaxOutput
        /\ written' = [written EXCEPT ![c] = @ + 1]
        /\ UNCHANGED container
     \/ /\ container' = [container EXCEPT ![c] = "exited"]
        /\ UNCHANGED written
  /\ UNCHANGED <<workspace, pc, ids, raised, output, client, request, blind>>

(* --rm *)
AutoRemove(c) ==
  /\ container[c] = "exited"
  /\ container' = [container EXCEPT ![c] = "gone"]
  /\ UNCHANGED <<workspace, pc, ids, raised, output, client, request, written, blind>>

Docker(c) ==
  \/ OpenCidfile(c) \/ WriteCidfile(c) \/ AskForStart(c) \/ ClientEnds(c)
  \/ Create(c) \/ Begin(c) \/ Work(c) \/ AutoRemove(c)

Next == \E c \in Call : Step(c) \/ Docker(c)

Spec == Init /\ [][Next]_vars

-----------------------------------------------------------------------------
TypeOK ==
  /\ made \in BOOLEAN /\ staged \in BOOLEAN
  /\ cidfile \in {NoFile, Empty} \cup Call
  /\ pc \in [Call -> {"look", "make", "stage", "build", "start", "wait",
                      "cleanup", "list", "kill", "rm", "inspect", "read",
                      "returned", "refused"}]
  /\ ids \in [Call -> Seq(Call)]
  /\ raised \in [Call -> BOOLEAN]
  /\ output \in [Call -> 0..MaxOutput]
  /\ client \in [Call -> Alive \cup {"off", "ended"}]
  /\ request \in [Call -> {"none", "create", "start"}]
  /\ container \in [Call -> {"none", "created", "running", "exited", "gone"}]
  /\ written \in [Call -> 0..MaxOutput]
  /\ blind \in [Call -> BOOLEAN]
  /\ \A c \in Call : pc[c] \in {"kill", "rm", "inspect"} => ids[c] # <<>>

(* A call that returns leaves no container behind, also none that is yet to*)
(* be created, unless the daemon did not list it or failed when asked      *)
(* whether it is still there ("Cleanup kills and removes any daemon-owned  *)
(* container and verifies that it no longer exists",                       *)
(* docs/security-model.md).  So no importer is left that could still write *)
(* to the output file: what the call returned is all there will be.        *)
ReturnedIsClean ==
  \A c \in Call :
    pc[c] = "returned" /\ ~blind[c] =>
      ~Exists(c) /\ request[c] # "create" /\ output[c] = written[c]

(* A cleanup kills and removes the container of its own call only, so that *)
(* no call takes for its importer's crash what another call did to it.     *)
KillsOnlyItsOwn ==
  [][\A c, d \in Call :
       pc[c] \in {"kill", "rm"} /\ pc'[c] # pc[c] /\ container'[d] # container[d]
       => c = d]_vars

=============================================================================
