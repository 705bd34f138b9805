----------------------------- MODULE Targets_proof -----------------------------
(***************************************************************************)
(* Theorems about the calls of Targets, for every finite set of calls and  *)
(* every directory tree, argument file and budget.  A behaviour has calls  *)
(* of one kind; each kind has an invariant of its own, and the steps of    *)
(* the other kind touch none of its state.                                 *)
(*                                                                         *)
(* Part one, calls that run a container.  What a call leaves behind is its *)
(* own affair as long as no other call gets past its staging in the same   *)
(* workspace: a call stages a file, or is the only one.  Without that a    *)
(* cidfile may name another call's container, and the theorems that assume *)
(* Undisturbed would be false.                                             *)
(*                                                                         *)
(* Part two, a call that runs a local importer: the staged copy, the walk  *)
(* over the workspace, and what a run that is reported as exited left      *)
(* there.  The walk is the hard part: it looks at one entry at a time      *)
(* while the importer works.  Its invariant says which entries were seen   *)
(* and which wait for it, and that what was there all the time is not      *)
(* passed over.                                                            *)
(***************************************************************************)
EXTENDS Targets, SequenceLemmas, FiniteSetTheorems, TLAPS

(* Part one: container calls. *)

ContainerPlace == {"look", "make", "stage", "build", "start", "wait", "cleanup", "list",
          "kill", "rm", "inspect", "read", "returned", "refused"}

Undisturbed == Staged \/ \A c, d \in Call : c = d

HasClient(c) == client[c] # "off"
IsStaged(c) ==
  \/ calls[c] \in {"build", "start", "wait", "cleanup", "list", "kill", "rm",
                "inspect", "read", "returned"}
  \/ HasClient(c)

(* At most one call got past its staging.                                  *)
OwnerInv ==
  /\ \A c \in Call : IsStaged(c) /\ Staged => staged
  /\ \A c, d \in Call : IsStaged(c) /\ IsStaged(d) => c = d

(* How far a client came says what was asked for and what the cidfile can  *)
(* name; nothing is asked for once its caller went on to the cleanup.      *)
ClientInv ==
  \A c \in Call :
    /\ calls[c] \in {"look", "make", "stage", "build", "start"} => ~HasClient(c)
    /\ client[c] \in Container!Alive => calls[c] = "wait"
    /\ client[c] \in {"off", "opened"} =>
         container[c] = "none" /\ request[c] = "none" /\ cidfile # c
    /\ client[c] = "creating" => request[c] = "create"
    /\ client[c] \in {"created", "identified", "waiting"} =>
         request[c] # "create"
    /\ request[c] = "create" => container[c] = "none" /\ cidfile # c

(* What the cleanup knows: the containers it lists belong to calls that ran*)
(* a client, its own one among them while that exists.                     *)
CleanupInv ==
  \A c \in Call :
    /\ Range(ids[c]) \subseteq {d \in Call : HasClient(d)}
    /\ calls[c] \in {"kill", "rm", "inspect"} /\ ~blind[c] =>
         request[c] # "create" /\ (Container!Exists(c) => c \in Range(ids[c]))
    /\ calls[c] \in {"read", "returned"} /\ ~blind[c] =>
         request[c] # "create" /\ ~Container!Exists(c)
    /\ calls[c] = "returned" /\ ~blind[c] => outputs[c] = written[c]

-----------------------------------------------------------------------------
(* A listing names each existing container.                                *)
LEMMA ListingsComplete ==
  ASSUME NEW left \in Container!Listings
  PROVE  /\ left \in Seq(Call)
         /\ Range(left) = {d \in Call : Container!Exists(d)}
<1> DEFINE E == {d \in Call : Container!Exists(d)}
<1> DEFINE D == 1..Cardinality(E)
<1>1. IsFiniteSet(E) /\ Cardinality(E) \in Nat
  BY ContainerAssumption, FS_Subset, FS_CardinalityType
<1>2. left \in [D -> E] /\ \A i, j \in D : i # j => left[i] # left[j]
  <2>1. Container!Cardinality(E) = Cardinality(E)
    BY DEF Cardinality, Container!Cardinality
  <2>2. QED
    BY <2>1 DEF Container!Listings, Container!SetToSeqs
<1>3. Cardinality(D) = Cardinality(E)
  BY <1>1, FS_Interval
<1> HIDE DEF D, E
<1>4. left \in Injection(D, E)
  BY <1>2 DEF Injection, IsInjective
<1>5. left \in Surjection(D, E)
  BY <1>1, <1>3, <1>4, FS_Injection
<1>6. Range(left) = E
  BY <1>2, <1>5 DEF Surjection, Range
<1>7. left \in Seq(Call)
  BY <1>1, <1>2 DEF D, E
<1>8. QED
  BY <1>6, <1>7 DEF E

(* What is left to clean is only empty when the cleanup is over.           *)
LEMMA GotoTyped ==
  ASSUME Container!TypeOK, NEW c \in Call, NEW left \in Seq(Call), NEW to,
         Container!Goto(c, to), ids' = [ids EXCEPT ![c] = left],
         \/ to \in {"build", "list", "read", "returned", "refused"}
         \/ to = "kill" /\ left # <<>>
  PROVE  /\ calls' \in [Call -> ContainerPlace]
         /\ ids' \in [Call -> Seq(Call)]
         /\ \A d \in Call :
              calls'[d] \in {"kill", "rm", "inspect"} => ids'[d] # <<>>
BY DEF ContainerPlace, Container!TypeOK, Container!Goto

(* A cleanup goes on with what is left, or reads the output.                *)
LEMMA CleanTyped ==
  ASSUME Container!TypeOK, NEW c \in Call, NEW left \in Seq(Call),
         Container!Clean(c, left)
  PROVE  /\ calls' \in [Call -> ContainerPlace]
         /\ ids' \in [Call -> Seq(Call)]
         /\ \A d \in Call :
              calls'[d] \in {"kill", "rm", "inspect"} => ids'[d] # <<>>
<1>1. \/ Container!ToClean(left) = "read"
      \/ Container!ToClean(left) = "kill" /\ left # <<>>
  BY DEF Container!ToClean
<1>2. QED
  BY <1>1, GotoTyped DEF Container!Clean

(* Each step of a container call keeps the types.                           *)
LEMMA TypeInductive ==
  ASSUME Container!TypeOK, made' \in BOOLEAN,
         Container!Next \/ UNCHANGED containerVars
  PROVE  Container!TypeOK'
<1> USE DEF ContainerPlace, Container!TypeOK, Container!Goto, Container!Refuse,
            Container!workspace, Container!docker
<1>1. ASSUME NEW c \in Call,
             \/ Container!Look(c) \/ Container!MakeDirectory(c)
             \/ Container!Stage(c) \/ Container!Build(c)
      PROVE  Container!TypeOK'
  <2>1. CASE Container!Look(c)
    BY <2>1 DEF Container!Look
  <2>2. CASE Container!MakeDirectory(c)
    BY <2>2 DEF Container!MakeDirectory
  <2>3. CASE Container!Stage(c)
    BY <2>3 DEF Container!Stage
  <2>4. CASE Container!Build(c)
    BY <2>4 DEF Container!Build
  <2>5. QED
    BY <1>1, <2>1, <2>2, <2>3, <2>4
<1>2. ASSUME NEW c \in Call,
             \/ Container!StartClient(c) \/ Container!ClientCannotStart(c)
             \/ Container!ClientReturns(c)
             \/ Container!KillClient(c)
      PROVE  Container!TypeOK'
  <2> USE DEF Container!Alive
  <2>1. CASE Container!StartClient(c)
    BY <2>1 DEF Container!StartClient
  <2>2. CASE Container!ClientCannotStart(c)
    BY <2>2 DEF Container!ClientCannotStart
  <2>3. CASE Container!ClientReturns(c)
    BY <2>3 DEF Container!ClientReturns
  <2>4. CASE Container!KillClient(c)
    BY <2>4 DEF Container!KillClient
  <2>5. QED
    BY <1>2, <2>1, <2>2, <2>3, <2>4
<1>3. ASSUME NEW c \in Call,
             \/ Container!ReadCidfile(c) \/ Container!List(c)
             \/ Container!Inspect(c)
      PROVE  Container!TypeOK'
  <2>1. \/ Container!Goto(c, "list") /\ UNCHANGED ids
        \/ Container!Goto(c, "refused") /\ UNCHANGED ids
        \/ \E left \in Seq(Call) : Container!Clean(c, left)
    <3>1. <<>> \in Seq(Call) /\ (cidfile \in Call => <<cidfile>> \in Seq(Call))
      OBVIOUS
    <3>2. CASE Container!ReadCidfile(c)
      BY <3>1, <3>2 DEF Container!ReadCidfile, Container!NoIdentifier
    <3>3. CASE Container!List(c)
      BY <3>1, <3>3, ListingsComplete DEF Container!List
    <3>4. CASE Container!Inspect(c)
      <4>1. Tail(ids[c]) \in Seq(Call)
        BY <3>4, TailRange DEF Container!Inspect
      <4>2. QED
        BY <3>4, <4>1 DEF Container!Inspect
    <3>5. QED
      BY <1>3, <3>2, <3>3, <3>4
  <2>2. /\ calls' \in [Call -> ContainerPlace]
        /\ ids' \in [Call -> Seq(Call)]
        /\ \A d \in Call :
             calls'[d] \in {"kill", "rm", "inspect"} => ids'[d] # <<>>
    <3>1. CASE \E left \in Seq(Call) : Container!Clean(c, left)
      BY <3>1, CleanTyped
    <3>2. CASE UNCHANGED ids
      <4>1. ids' = [ids EXCEPT ![c] = ids[c]] /\ ids[c] \in Seq(Call)
        BY <3>2
      <4>2. QED
        BY <2>1, <3>1, <4>1, GotoTyped
    <3>3. QED
      BY <2>1, <3>1, <3>2
  <2>3. blind' \in [Call -> BOOLEAN]
    <3>1. CASE UNCHANGED blind
      BY <3>1
    <3>2. CASE ~UNCHANGED blind
      <4>1. \E value \in BOOLEAN : blind' = [blind EXCEPT ![c] = value]
        BY <1>3, <3>2 DEF Container!ReadCidfile, Container!List,
           Container!Inspect
      <4>2. QED
        BY <4>1
    <3>3. QED
      BY <3>1, <3>2
  <2>4. UNCHANGED <<Container!workspace, raised, outputs, Container!docker>>
    BY <1>3 DEF Container!ReadCidfile, Container!List, Container!Inspect
  <2>5. QED
    BY <2>2, <2>3, <2>4
<1>4. ASSUME NEW c \in Call, Container!Kill(c) \/ Container!RemoveContainer(c)
      PROVE  Container!TypeOK'
  <2>1. Head(ids[c]) \in Call
    BY <1>4, TailRange DEF Container!Kill, Container!RemoveContainer
  <2>2. QED
    BY <1>4, <2>1 DEF Container!Kill, Container!RemoveContainer
<1>5. ASSUME NEW c \in Call, Container!ReadOutput(c)
      PROVE  Container!TypeOK'
  <2>1. outputs' \in [Call -> 0..MaxOutput]
    BY <1>5 DEF Container!ReadOutput
  <2>2. Container!Goto(c, "returned") \/ Container!Goto(c, "refused")
    BY <1>5 DEF Container!ReadOutput
  <2>3. UNCHANGED <<Container!workspace, ids, raised, Container!docker, blind>>
    BY <1>5 DEF Container!ReadOutput
  <2>4. QED
    BY <2>1, <2>2, <2>3
<1>6. ASSUME NEW c \in Call,
             \/ Container!OpenCidfile(c) \/ Container!WriteCidfile(c)
             \/ Container!AskForStart(c) \/ Container!ClientEnds(c)
      PROVE  Container!TypeOK'
  BY <1>6 DEF Container!OpenCidfile, Container!WriteCidfile,
     Container!AskForStart, Container!ClientEnds, Container!Alive
<1>7. ASSUME NEW c \in Call,
             \/ Container!Create(c) \/ Container!Begin(c) \/ Container!Work(c)
             \/ Container!AutoRemove(c)
      PROVE  Container!TypeOK'
  <2>1. UNCHANGED <<Container!workspace, calls, ids, raised, outputs, blind>>
    BY <1>7 DEF Container!Create, Container!Begin, Container!Work,
       Container!AutoRemove
  <2>2. /\ client' \in [Call -> Container!Alive \cup {"off", "ended"}]
        /\ request' \in [Call -> {"none", "create", "start"}]
    BY <1>7 DEF Container!Create, Container!Begin, Container!Work,
       Container!AutoRemove, Container!Alive
  <2>3. container' \in
          [Call -> {"none", "created", "running", "exited", "gone"}]
    BY <1>7 DEF Container!Create, Container!Begin, Container!Work,
       Container!AutoRemove
  <2>4. written' \in [Call -> 0..MaxOutput]
    <3>1. \/ UNCHANGED written
          \/ /\ written[c] < MaxOutput
             /\ written' = [written EXCEPT ![c] = written[c] + 1]
      BY <1>7 DEF Container!Create, Container!Begin, Container!Work,
         Container!AutoRemove
    <3>2. written[c] < MaxOutput => written[c] + 1 \in 0..MaxOutput
      BY ContainerAssumption
    <3>3. QED
      BY <3>1, <3>2
  <2>5. QED
    BY <2>1, <2>2, <2>3, <2>4
<1>8. CASE UNCHANGED containerVars
  BY <1>8 DEF containerVars
<1>9. QED
  BY <1>1, <1>2, <1>3, <1>4, <1>5, <1>6, <1>7, <1>8 DEF Container!Next,
     Container!Step, Container!Docker

-----------------------------------------------------------------------------
(* Steps of one call leave the others where they are.                      *)
LEMMA OwnerInductive ==
  ASSUME Container!TypeOK, Undisturbed, OwnerInv,
         Container!Next \/ UNCHANGED containerVars
  PROVE  OwnerInv'
<1> USE DEF ContainerPlace, Container!TypeOK, Container!Goto, Container!Refuse,
            Container!workspace, Container!docker
<1>1. ASSUME staged => staged',
             \A c \in Call : IsStaged(c)' => IsStaged(c)
      PROVE  OwnerInv'
  BY <1>1 DEF OwnerInv
<1>2. ASSUME NEW c \in Call, Container!Stage(c)
      PROVE  OwnerInv'
  <2>1. \A d \in Call : d # c => IsStaged(d)' = IsStaged(d)
    BY <1>2 DEF Container!Stage, IsStaged, HasClient
  <2>2. CASE Staged /\ ~staged
    BY <1>2, <2>1, <2>2 DEF OwnerInv, Container!Stage, Container!Taken
  <2>3. CASE Staged /\ staged
    <3>1. ~IsStaged(c)' \/ IsStaged(c)
      BY <1>2, <2>3 DEF Container!Stage, Container!Taken, IsStaged, HasClient
    <3>2. QED
      BY <1>1, <1>2, <2>1, <2>3, <3>1 DEF Container!Stage
  <2>4. CASE ~Staged
    BY <2>4 DEF OwnerInv, Undisturbed
  <2>5. QED
    BY <2>2, <2>3, <2>4
<1>3. ASSUME NEW c \in Call,
             \/ Container!Look(c) \/ Container!MakeDirectory(c)
             \/ Container!Build(c)
             \/ Container!StartClient(c) \/ Container!ClientCannotStart(c)
             \/ Container!ClientReturns(c)
             \/ Container!KillClient(c) \/ Container!ReadOutput(c)
      PROVE  OwnerInv'
  <2>1. UNCHANGED staged
    BY <1>3 DEF Container!Look, Container!MakeDirectory, Container!Build,
       Container!StartClient, Container!ClientCannotStart,
       Container!ClientReturns, Container!KillClient, Container!ReadOutput
  <2>2. \A d \in Call : IsStaged(d)' => IsStaged(d)
    BY <1>3 DEF Container!Look, Container!MakeDirectory, Container!Build,
       Container!StartClient, Container!ClientCannotStart,
       Container!ClientReturns, Container!KillClient, Container!ReadOutput,
       IsStaged, HasClient, Container!Alive
  <2>3. QED
    BY <1>1, <2>1, <2>2
<1>4. ASSUME NEW c \in Call,
             \/ Container!ReadCidfile(c) \/ Container!List(c)
             \/ Container!Kill(c) \/ Container!RemoveContainer(c)
             \/ Container!Inspect(c)
      PROVE  OwnerInv'
  <2>1. UNCHANGED <<staged, client>>
    BY <1>4 DEF Container!ReadCidfile, Container!List, Container!Kill,
       Container!RemoveContainer, Container!Inspect
  <2>2. /\ calls[c] \in {"cleanup", "list", "kill", "rm", "inspect"}
        /\ \E to : calls' = [calls EXCEPT ![c] = to]
    BY <1>4 DEF Container!ReadCidfile, Container!List, Container!Kill,
       Container!RemoveContainer, Container!Inspect, Container!NoIdentifier,
       Container!Clean
  <2>3. QED
    BY <1>1, <2>1, <2>2 DEF IsStaged, HasClient
<1>5. ASSUME NEW c \in Call, Container!Docker(c)
      PROVE  OwnerInv'
  <2>1. UNCHANGED <<staged, calls>>
    BY <1>5 DEF Container!Docker, Container!OpenCidfile,
       Container!WriteCidfile, Container!AskForStart, Container!ClientEnds,
       Container!Create, Container!Begin, Container!Work, Container!AutoRemove
  <2>2. \A d \in Call : client'[d] # "off" => client[d] # "off"
    BY <1>5 DEF Container!Docker, Container!OpenCidfile,
       Container!WriteCidfile, Container!AskForStart, Container!ClientEnds,
       Container!Create, Container!Begin, Container!Work, Container!AutoRemove
  <2>3. QED
    BY <1>1, <2>1, <2>2 DEF IsStaged, HasClient
<1>6. CASE UNCHANGED containerVars
  BY <1>1, <1>6 DEF containerVars, IsStaged, HasClient
<1>7. QED
  BY <1>2, <1>3, <1>4, <1>5, <1>6 DEF Container!Next, Container!Step

-----------------------------------------------------------------------------
(* An empty or missing cidfile names no container.                          *)
LEMMA CidfileNamesNoCall ==
  Container!NoFile \notin Call /\ Container!Empty \notin Call
BY ContainerAssumption DEF NoFile, Empty, Container!NoFile, Container!Empty

(* Each step of a call, its client and the daemon.                          *)
LEMMA ClientInductive ==
  ASSUME Container!TypeOK, ClientInv, Container!Next \/ UNCHANGED containerVars
  PROVE  ClientInv'
<1> USE DEF ContainerPlace, Container!TypeOK, Container!Goto, Container!Refuse,
            Container!workspace, Container!docker, Container!Alive, HasClient,
            ClientInv
<1>1. ASSUME NEW c \in Call,
             \/ Container!Look(c) \/ Container!MakeDirectory(c)
             \/ Container!Stage(c) \/ Container!Build(c)
      PROVE  ClientInv'
  BY <1>1 DEF Container!Look, Container!MakeDirectory, Container!Stage,
     Container!Build
<1>2. ASSUME NEW c \in Call,
             \/ Container!StartClient(c) \/ Container!ClientCannotStart(c)
             \/ Container!ClientReturns(c)
             \/ Container!KillClient(c)
      PROVE  ClientInv'
  BY <1>2 DEF Container!StartClient, Container!ClientCannotStart,
     Container!ClientReturns, Container!KillClient
<1>3. ASSUME NEW c \in Call,
             \/ Container!ReadCidfile(c) \/ Container!List(c)
             \/ Container!Kill(c) \/ Container!RemoveContainer(c)
             \/ Container!Inspect(c) \/ Container!ReadOutput(c)
      PROVE  ClientInv'
  <2>1. /\ calls[c] \in {"cleanup", "list", "kill", "rm", "inspect", "read"}
        /\ \E to \in {"list", "kill", "rm", "inspect", "read", "returned",
                    "refused"} :
             calls' = [calls EXCEPT ![c] = to]
    BY <1>3 DEF Container!ReadCidfile, Container!List, Container!Kill,
       Container!RemoveContainer, Container!Inspect, Container!ReadOutput,
       Container!NoIdentifier, Container!Clean, Container!ToClean
  <2>2. UNCHANGED <<client, request, cidfile>>
    BY <1>3 DEF Container!ReadCidfile, Container!List, Container!Kill,
       Container!RemoveContainer, Container!Inspect, Container!ReadOutput
  <2>3. \A d \in Call : container[d] = "none" => container'[d] = "none"
    <3>1. CASE Container!Kill(c)
      BY <3>1 DEF Container!Kill
    <3>2. CASE Container!RemoveContainer(c)
      BY <3>2 DEF Container!RemoveContainer, Container!Exists
    <3>3. CASE ~(Container!Kill(c) \/ Container!RemoveContainer(c))
      <4>1. UNCHANGED container
        BY <1>3, <3>3 DEF Container!ReadCidfile, Container!List,
           Container!Inspect, Container!ReadOutput
      <4>2. QED
        BY <4>1
    <3>4. QED
      BY <3>1, <3>2, <3>3
  <2>4. QED
    BY <2>1, <2>2, <2>3
<1>4. ASSUME NEW c \in Call, Container!OpenCidfile(c)
      PROVE  ClientInv'
  BY <1>4, CidfileNamesNoCall DEF Container!OpenCidfile
<1>5. ASSUME NEW c \in Call,
             \/ Container!WriteCidfile(c) \/ Container!AskForStart(c)
             \/ Container!ClientEnds(c)
      PROVE  ClientInv'
  BY <1>5, CidfileNamesNoCall
     DEF Container!WriteCidfile, Container!AskForStart, Container!ClientEnds
<1>6. ASSUME NEW c \in Call, Container!Create(c) \/ Container!Begin(c)
      PROVE  ClientInv'
  <2>1. CASE Container!Create(c)
    <3>1. client[c] \in {"creating", "ended"}
      BY <2>1 DEF Container!Create
    <3>2. /\ request' = [request EXCEPT ![c] = "none"]
          /\ container' = [container EXCEPT ![c] = "created"]
          /\ client' = [client EXCEPT ![c] = IF client[c] = "creating"
                                            THEN "created" ELSE client[c]]
          /\ UNCHANGED <<calls, cidfile>>
      BY <2>1 DEF Container!Create
    <3>3. \/ client'[c] = "created" /\ client[c] \in Container!Alive
          \/ client'[c] = "ended"
      BY <3>1, <3>2
    <3>4. QED
      BY <3>1, <3>2, <3>3
  <2>2. CASE Container!Begin(c)
    BY <2>2 DEF Container!Begin
  <2>3. QED
    BY <1>6, <2>1, <2>2
<1>7. ASSUME NEW c \in Call, Container!Work(c) \/ Container!AutoRemove(c)
      PROVE  ClientInv'
  BY <1>7 DEF Container!Work, Container!AutoRemove
<1>8. CASE UNCHANGED containerVars
  BY <1>8 DEF containerVars
<1>9. QED
  BY <1>1, <1>2, <1>3, <1>4, <1>5, <1>6, <1>7, <1>8 DEF Container!Next,
     Container!Step, Container!Docker

-----------------------------------------------------------------------------
(* Exists never becomes true of a container that is not asked for.         *)
LEMMA OwnContainer ==
  ASSUME Container!TypeOK, OwnerInv, ClientInv, NEW c \in Call, IsStaged(c)
  PROVE  /\ \A d \in Call : HasClient(d) => d = c
         /\ cidfile \in Call => cidfile = c /\ request[c] # "create"
<1>1. \A d \in Call : HasClient(d) => d = c
  BY DEF OwnerInv, IsStaged
<1>2. ASSUME cidfile \in Call
      PROVE  cidfile = c /\ request[c] # "create"
  <2>1. HasClient(cidfile)
    BY <1>2 DEF ClientInv, HasClient
  <2>2. QED
    BY <1>1, <1>2, <2>1 DEF ClientInv
<1>3. QED
  BY <1>1, <1>2

(* A step that concerns one call keeps what the cleanups of the others know.*)
LEMMA OtherCleanups ==
  ASSUME CleanupInv, NEW c \in Call,
         UNCHANGED <<request, outputs, written, client>>,
         \A d \in Call : d # c =>
           calls'[d] = calls[d] /\ ids'[d] = ids[d] /\ blind'[d] = blind[d],
         \A d \in Call : Container!Exists(d)' = Container!Exists(d),
         Range(ids'[c]) \subseteq {d \in Call : HasClient(d)},
         calls'[c] \in {"kill", "read", "refused"},
         calls'[c] = "kill" /\ ~blind'[c] =>
           request[c] # "create" /\ (Container!Exists(c) => c \in Range(ids'[c])),
         calls'[c] = "read" /\ ~blind'[c] =>
           request[c] # "create" /\ ~Container!Exists(c)
  PROVE  CleanupInv'
<1>1. ASSUME NEW d \in Call
      PROVE  /\ HasClient(d)' = HasClient(d)
             /\ Container!Exists(d)' = Container!Exists(d)
  BY DEF HasClient
<1> DEFINE Knows(d) ==
      /\ Range(ids[d]) \subseteq {e \in Call : HasClient(e)}
      /\ calls[d] \in {"kill", "rm", "inspect"} /\ ~blind[d] =>
           request[d] # "create" /\ (Container!Exists(d) => d \in Range(ids[d]))
      /\ calls[d] \in {"read", "returned"} /\ ~blind[d] =>
           request[d] # "create" /\ ~Container!Exists(d)
      /\ calls[d] = "returned" /\ ~blind[d] => outputs[d] = written[d]
<1>2. ASSUME NEW d \in Call
      PROVE  Knows(d)'
  <2>1. CASE d = c
    BY <1>1, <2>1
  <2>2. CASE d # c
    BY <1>1, <2>2 DEF CleanupInv
  <2>3. QED
    BY <2>1, <2>2
<1>3. QED
  BY <1>2 DEF CleanupInv

(* What the cleanup knows survives every step of the daemon.                *)
LEMMA CleanupInductive ==
  ASSUME Container!TypeOK, OwnerInv, ClientInv, CleanupInv,
         Container!Next \/ UNCHANGED containerVars
  PROVE  CleanupInv'
<1> USE DEF ContainerPlace, Container!TypeOK, Container!Goto, Container!Refuse,
            Container!workspace, Container!docker, HasClient
<1>1. ASSUME NEW c \in Call,
             \/ Container!Look(c) \/ Container!MakeDirectory(c)
             \/ Container!Stage(c) \/ Container!Build(c)
             \/ Container!StartClient(c) \/ Container!ClientCannotStart(c)
             \/ Container!ClientReturns(c)
             \/ Container!KillClient(c)
      PROVE  CleanupInv'
  <2>1. /\ UNCHANGED <<ids, blind, request, container, outputs, written>>
        /\ \A d \in Call : client[d] # "off" => client'[d] # "off"
        /\ \A d \in Call : d # c => calls'[d] = calls[d]
        /\ calls'[c] \in {"make", "stage", "build", "start", "wait", "cleanup",
                         "refused"}
    BY <1>1 DEF Container!Look, Container!MakeDirectory, Container!Stage,
       Container!Build, Container!StartClient, Container!ClientCannotStart,
       Container!ClientReturns, Container!KillClient
  <2>2. QED
    BY <2>1 DEF CleanupInv, Container!Exists
<1>2. ASSUME NEW c \in Call, Container!ReadCidfile(c)
      PROVE  CleanupInv'
  <2>1. /\ calls[c] = "cleanup"
        /\ UNCHANGED <<blind, request, container, outputs, written, client>>
        /\ \/ Container!Goto(c, "list") /\ UNCHANGED ids
           \/ Container!Goto(c, "refused") /\ UNCHANGED ids
           \/ /\ cidfile \in Call /\ calls' = [calls EXCEPT ![c] = "kill"]
              /\ ids' = [ids EXCEPT ![c] = <<cidfile>>]
    BY <1>2 DEF Container!ReadCidfile, Container!NoIdentifier, Container!Clean,
       Container!ToClean
  <2>2. CASE /\ Container!Goto(c, "list") \/ Container!Goto(c, "refused")
             /\ UNCHANGED ids
    BY <2>1, <2>2 DEF CleanupInv, Container!Exists
  <2>3. CASE /\ cidfile \in Call /\ calls' = [calls EXCEPT ![c] = "kill"]
             /\ ids' = [ids EXCEPT ![c] = <<cidfile>>]
    <3>1. cidfile = c /\ request[c] # "create" /\ HasClient(c)
      BY <2>1, <2>3, OwnContainer DEF IsStaged, ClientInv
    <3>2. Range(<<c>>) = {c}
      BY DEF Range
    <3>3. \A d \in Call : d # c => calls'[d] = calls[d] /\ ids'[d] = ids[d]
      BY <2>3
    <3>4. calls'[c] = "kill" /\ Range(ids'[c]) = {c}
      BY <2>3, <3>1, <3>2
    <3>5. \A d \in Call : Container!Exists(d)' = Container!Exists(d)
      BY <2>1 DEF Container!Exists
    <3>6. UNCHANGED <<client, request, blind, outputs, written>>
      BY <2>1
    <3>7. blind'[c] = blind[c] /\ calls'[c] # "read"
      BY <3>4, <3>6
    <3>8. Range(ids'[c]) \subseteq {d \in Call : HasClient(d)}
      BY ONLY <3>1, <3>4
    <3>9. QED
      BY ONLY CleanupInv, <3>1, <3>3, <3>4, <3>5, <3>6, <3>7, <3>8, OtherCleanups
  <2>4. QED
    BY <2>1, <2>2, <2>3
<1>3. ASSUME NEW c \in Call, Container!List(c)
      PROVE  CleanupInv'
  <2>1. /\ UNCHANGED <<request, container, outputs, written, client>>
        /\ \A d \in Call : d # c =>
             calls'[d] = calls[d] /\ ids'[d] = ids[d] /\ blind'[d] = blind[d]
    BY <1>3 DEF Container!List, Container!Clean
  <2>2. \/ calls'[c] = "refused" /\ ids'[c] = ids[c]
        \/ /\ ids'[c] \in Container!Listings \/ (ids'[c] = <<>> /\ blind'[c])
           /\ calls'[c] = Container!ToClean(ids'[c])
           /\ ~blind'[c] => request[c] # "create"
    <3>1. CASE /\ \E left \in Container!Listings : Container!Clean(c, left)
               /\ blind' = [blind EXCEPT ![c] = request[c] = "create"]
      <4>1. PICK left \in Container!Listings : Container!Clean(c, left)
        BY <3>1
      <4>2. ids'[c] = left /\ calls'[c] = Container!ToClean(left)
        BY <4>1 DEF Container!Clean
      <4>3. blind'[c] = (request[c] = "create")
        BY <3>1
      <4>4. QED
        BY <4>2, <4>3
    <3>2. CASE Container!Clean(c, <<>>) /\ blind' = [blind EXCEPT ![c] = TRUE]
      BY <3>2 DEF Container!Clean
    <3>3. CASE Container!Refuse(c) /\ UNCHANGED <<ids, blind>>
      BY <3>3
    <3>4. QED
      BY <1>3, <3>1, <3>2, <3>3 DEF Container!List
  <2>3. \A d \in Call : Container!Exists(d) => HasClient(d)
    BY DEF Container!Exists, ClientInv
  <2>4. Range(<<>>) = {} /\ Container!Exists(c)' = Container!Exists(c)
    BY <2>1, EmptyRange DEF Container!Exists
  <2>5. \/ calls'[c] = "refused" /\ ids'[c] = ids[c]
        \/ /\ calls'[c] \in {"kill", "read"}
           /\ Range(ids'[c]) \subseteq {d \in Call : HasClient(d)}
           /\ ~blind'[c] =>
                /\ request[c] # "create"
                /\ Container!Exists(c) => c \in Range(ids'[c])
           /\ calls'[c] = "read" => Range(ids'[c]) = {}
    BY <2>2, <2>3, <2>4, ListingsComplete DEF Container!ToClean
  <2>6. \A d \in Call : Container!Exists(d)' = Container!Exists(d)
    BY <2>1 DEF Container!Exists
  <2>7. Range(ids[c]) \subseteq {d \in Call : HasClient(d)}
    BY DEF CleanupInv
  <2>8. QED
    BY ONLY CleanupInv, <2>1, <2>5, <2>6, <2>7, OtherCleanups
<1>4. ASSUME NEW c \in Call, Container!Kill(c) \/ Container!RemoveContainer(c)
      PROVE  CleanupInv'
  <2>1. Head(ids[c]) \in Call
    BY <1>4, TailRange DEF Container!Kill, Container!RemoveContainer
  <2>2. /\ UNCHANGED <<ids, blind, request, outputs, written, client>>
        /\ \A d \in Call : Container!Exists(d)' => Container!Exists(d)
        /\ \A d \in Call : d # c => calls'[d] = calls[d]
        /\ calls[c] \in {"kill", "rm"} /\ calls'[c] \in {"rm", "inspect"}
    BY <1>4, <2>1 DEF Container!Kill, Container!RemoveContainer,
       Container!Exists
  <2>3. QED
    BY <2>2 DEF CleanupInv
<1>5. ASSUME NEW c \in Call, Container!Inspect(c)
      PROVE  CleanupInv'
  <2>1. /\ calls[c] = "inspect" /\ ids[c] \in Seq(Call) /\ ids[c] # <<>>
        /\ UNCHANGED <<request, container, outputs, written, client>>
        /\ \A d \in Call : d # c =>
             calls'[d] = calls[d] /\ ids'[d] = ids[d] /\ blind'[d] = blind[d]
    BY <1>5 DEF Container!Inspect, Container!Clean
  <2>2. Range(ids[c]) = {Head(ids[c])} \cup Range(Tail(ids[c]))
    BY <2>1, TailRange
  <2>3. \/ calls'[c] = "refused" /\ ids'[c] = ids[c]
        \/ /\ ids'[c] = Tail(ids[c]) /\ calls'[c] = Container!ToClean(ids'[c])
           /\ ~blind'[c] => ~blind[c] /\ ~Container!Exists(Head(ids[c]))
    <3>1. PICK answer \in Container!Answers(Head(ids[c])) :
            IF Container!Unverified(answer)
            THEN Container!Refuse(c) /\ UNCHANGED <<ids, blind>>
            ELSE /\ Container!Clean(c, Tail(ids[c]))
                 /\ blind' = [blind EXCEPT ![c] = blind[c] \/ answer = "failed"]
      BY <1>5 DEF Container!Inspect
    <3>2. CASE Container!Unverified(answer)
      BY <3>1, <3>2
    <3>3. CASE ~Container!Unverified(answer)
      <4>1. \/ answer = "failed"
            \/ answer = "missing" /\ ~Container!Exists(Head(ids[c]))
        BY <3>3 DEF Container!Answers, Container!Unverified
      <4>2. Container!Clean(c, Tail(ids[c]))
        BY <3>1, <3>3
      <4>3. ids'[c] = Tail(ids[c]) /\ calls'[c] = Container!ToClean(ids'[c])
        BY <4>2 DEF Container!Clean
      <4>4. blind'[c] = (blind[c] \/ answer = "failed")
        BY <3>1, <3>3
      <4>5. QED
        BY <4>1, <4>3, <4>4
    <3>4. QED
      BY <3>2, <3>3
  <2>4. /\ \A d \in Call : Container!Exists(d)' = Container!Exists(d)
        /\ Tail(ids[c]) = <<>> => Range(Tail(ids[c])) = {}
    BY <2>1, EmptyRange DEF Container!Exists
  <2>5. \/ calls'[c] = "refused" /\ Range(ids'[c]) = Range(ids[c])
        \/ /\ Range(ids'[c]) \subseteq Range(ids[c])
           /\ calls'[c] \in {"kill", "read"}
           /\ calls'[c] = "read" => Range(ids'[c]) = {}
           /\ ~blind'[c] =>
                /\ ~blind[c]
                /\ Container!Exists(c) /\ c \in Range(ids[c]) =>
                     c \in Range(ids'[c])
    BY <2>2, <2>3, <2>4 DEF Container!ToClean
  <2>6. /\ Range(ids[c]) \subseteq {d \in Call : HasClient(d)}
        /\ ~blind[c] =>
             request[c] # "create" /\ (Container!Exists(c) => c \in Range(ids[c]))
    BY <2>1 DEF CleanupInv
  <2>7. QED
    BY ONLY CleanupInv, <2>1, <2>4, <2>5, <2>6, OtherCleanups
<1>6. ASSUME NEW c \in Call, Container!ReadOutput(c)
      PROVE  CleanupInv'
  <2>1. /\ UNCHANGED <<ids, blind, request, container, written, client>>
        /\ calls[c] = "read"
        /\ \A d \in Call :
             d # c => calls'[d] = calls[d] /\ outputs'[d] = outputs[d]
        /\ \/ calls'[c] = "refused"
           \/ calls'[c] = "returned" /\ outputs'[c] = written[c]
    BY <1>6 DEF Container!ReadOutput
  <2>2. QED
    BY <2>1 DEF CleanupInv, Container!Exists
<1>7. ASSUME NEW c \in Call, Container!Docker(c)
      PROVE  CleanupInv'
  <2>1. /\ UNCHANGED <<calls, ids, blind, outputs>>
        /\ \A d \in Call : client[d] # "off" => client'[d] # "off"
    BY <1>7 DEF Container!Docker, Container!OpenCidfile,
       Container!WriteCidfile, Container!AskForStart, Container!ClientEnds,
       Container!Create, Container!Begin, Container!Work, Container!AutoRemove
  <2>2. \A d \in Call :
          Container!Exists(d)' => Container!Exists(d) \/ request[d] = "create"
    BY <1>7 DEF Container!Docker, Container!OpenCidfile,
       Container!WriteCidfile, Container!AskForStart, Container!ClientEnds,
       Container!Create, Container!Begin, Container!Work, Container!AutoRemove,
       Container!Exists
  <2>3. \A d \in Call :
          request'[d] = "create" => request[d] = "create" \/ calls[d] = "wait"
    BY <1>7 DEF Container!Docker, Container!OpenCidfile,
       Container!WriteCidfile, Container!AskForStart, Container!ClientEnds,
       Container!Create, Container!Begin, Container!Work, Container!AutoRemove,
       ClientInv, Container!Alive
  <2>4. \A d \in Call : written'[d] # written[d] => Container!Exists(d)
    BY <1>7 DEF Container!Docker, Container!OpenCidfile,
       Container!WriteCidfile, Container!AskForStart, Container!ClientEnds,
       Container!Create, Container!Begin, Container!Work, Container!AutoRemove,
       Container!Exists
  <2>5. QED
    BY <2>1, <2>2, <2>3, <2>4 DEF CleanupInv
<1>8. CASE UNCHANGED containerVars
  BY <1>8 DEF containerVars, CleanupInv, Container!Exists
<1>9. QED
  BY <1>1, <1>2, <1>3, <1>4, <1>5, <1>6, <1>7, <1>8 DEF Container!Next,
     Container!Step

-----------------------------------------------------------------------------
ContainerInv == OwnerInv /\ ClientInv /\ CleanupInv

(* A step of Targets is one of ContainerTarget, or none of its.             *)
LEMMA StepsOfContainers ==
  ASSUME made \in BOOLEAN, [Next]_vars
  PROVE  /\ made' \in BOOLEAN
         /\ Container!Next \/ UNCHANGED containerVars
<1> USE DEF Container!workspace
<1>1. ASSUME NEW c \in Call, ContainerCall(c)
      PROVE  made' \in BOOLEAN /\ Container!Next
  <2>1. Container!Step(c)
    BY <1>1 DEF ContainerCall
  <2>2. made' \in {made, TRUE}
    BY <2>1 DEF Container!Step, Container!Look, Container!MakeDirectory,
       Container!Stage, Container!Build, Container!StartClient,
       Container!ClientCannotStart, Container!ClientReturns,
       Container!KillClient, Container!ReadCidfile, Container!List,
       Container!Kill, Container!RemoveContainer, Container!Inspect,
       Container!ReadOutput
  <2>3. QED
    BY <2>1, <2>2 DEF Container!Next
<1>2. ASSUME NEW c \in Call, DockerActs(c)
      PROVE  made' \in BOOLEAN /\ Container!Next
  <2>1. Container!Docker(c)
    BY <1>2 DEF DockerActs
  <2>2. UNCHANGED made
    BY <2>1 DEF Container!Docker, Container!OpenCidfile,
       Container!WriteCidfile, Container!AskForStart, Container!ClientEnds,
       Container!Create, Container!Begin, Container!Work,
       Container!AutoRemove
  <2>3. QED
    BY <2>1, <2>2 DEF Container!Next
<1>3. CASE LocalCall
  <2>1. Local!Step /\ UNCHANGED containerVars
    BY <1>3 DEF LocalCall
  <2>2. made' \in {made, TRUE}
    BY <2>1 DEF Local!Step, Local!Prepare, Local!Read, Local!Hashed,
       Local!MakeFiles, Local!CompareCopy, Local!WriteInput,
       Local!BeginAScan, Local!Walk, Local!TakeBaseline, Local!Poll,
       Local!TakeSample, Local!Wait, Local!TakeFinal, Local!ReadOutput,
       Local!local
  <2>3. QED
    BY <2>1, <2>2
<1>4. CASE LocalClock \/ ImporterActs
  BY <1>4 DEF LocalClock, ImporterActs, Local!Expire, Local!Edit,
     Local!Works, Local!Ends, Local!local
<1>5. CASE UNCHANGED vars
  BY <1>5 DEF vars
<1>6. QED
  BY <1>1, <1>2, <1>3, <1>4, <1>5 DEF Next

(* The variables of the container calls only take values of their types,   *)
(* and a cleanup that goes on has something left to remove                 *)
(* (_cleanup_container).                                                   *)
THEOREM ContainerTypeCorrect == Spec => []Container!TypeOK
<1>1. Init => Container!TypeOK
  <2> SUFFICES ASSUME Init
               PROVE  Container!TypeOK
    OBVIOUS
  <2>1. <<>> \in Seq(Call) /\ 0 \in 0..MaxOutput
    BY ContainerAssumption
  <2>2. QED
    BY <2>1 DEF Init, Container!Init, Container!TypeOK
<1>2. Container!TypeOK /\ [Next]_vars => Container!TypeOK'
  <2> SUFFICES ASSUME Container!TypeOK, [Next]_vars
               PROVE  Container!TypeOK'
    OBVIOUS
  <2>1. made \in BOOLEAN
    BY DEF Container!TypeOK
  <2>2. QED
    BY <2>1, StepsOfContainers, TypeInductive
<1>3. QED
  BY <1>1, <1>2, PTL DEF Spec

(* ContainerInv holds in every behaviour of undisturbed calls.              *)
LEMMA ContainerInvariant ==
  ASSUME Undisturbed
  PROVE  Spec => []ContainerInv
<1>1. Init => ContainerInv
  <2> SUFFICES ASSUME Init
               PROVE  ContainerInv
    OBVIOUS
  <2>1. /\ cidfile = Container!NoFile /\ Container!NoFile \notin Call
        /\ \A c \in Call :
             /\ calls[c] = "look" /\ client[c] = "off" /\ ids[c] = <<>>
             /\ request[c] = "none" /\ container[c] = "none"
    BY CidfileNamesNoCall DEF Init, Container!Init
  <2>2. OwnerInv
    BY <2>1 DEF OwnerInv, IsStaged, HasClient
  <2>3. ClientInv
    BY <2>1 DEF ClientInv, HasClient, Container!Alive
  <2>4. CleanupInv
    BY <2>1, EmptyRange DEF CleanupInv
  <2>5. QED
    BY <2>2, <2>3, <2>4 DEF ContainerInv
<1>2. Container!TypeOK /\ ContainerInv /\ [Next]_vars => ContainerInv'
  <2> SUFFICES ASSUME Container!TypeOK, ContainerInv, [Next]_vars
               PROVE  ContainerInv'
    OBVIOUS
  <2>1. Container!Next \/ UNCHANGED containerVars
    BY StepsOfContainers DEF Container!TypeOK
  <2>2. QED
    BY <2>1, OwnerInductive, ClientInductive, CleanupInductive DEF ContainerInv
<1>3. QED
  BY <1>1, <1>2, ContainerTypeCorrect, PTL DEF Spec

(* A call that returns leaves no container behind, none that is yet to be  *)
(* created either, and returns all its importer will ever have written,    *)
(* unless the daemon did not list the container or failed when asked.      *)
THEOREM ReturnedCallsAreClean ==
  ASSUME Undisturbed
  PROVE  Spec => []ReturnedIsClean
<1>1. ContainerInv => ReturnedIsClean
  BY DEF ContainerInv, CleanupInv, ReturnedIsClean, Container!ReturnedIsClean
<1>2. QED
  BY <1>1, ContainerInvariant, PTL

(* docker kill and docker rm of a cleanup never touch the container of     *)
(* another call, whatever the cidfile and the label say.                   *)
THEOREM CleanupTouchesItsOwn ==
  ASSUME Undisturbed
  PROVE  Spec => KillsOnlyItsOwn
<1> DEFINE OwnOnly ==
      \A c, d \in Call :
        calls[c] \in {"kill", "rm"} /\ calls'[c] # calls[c]
          /\ container'[d] # container[d] => c = d
<1>1. ASSUME Container!TypeOK, ContainerInv, [Next]_vars
      PROVE  [OwnOnly]_Container!vars
  <2> SUFFICES ASSUME NEW c \in Call, NEW d \in Call,
                      calls[c] \in {"kill", "rm"}, calls'[c] # calls[c],
                      container'[d] # container[d]
               PROVE  c = d
    BY <1>1
  <2>1. PICK e \in Call : Container!Step(e) \/ Container!Docker(e)
    <3>1. Container!Next \/ UNCHANGED containerVars
      BY <1>1, StepsOfContainers DEF Container!TypeOK
    <3>2. QED
      BY <3>1 DEF Container!Next, containerVars
  <2>2. Container!Kill(c) \/ Container!RemoveContainer(c)
    <3>1. ASSUME Container!Docker(e)
          PROVE  FALSE
      BY <3>1 DEF Container!Docker, Container!OpenCidfile,
         Container!WriteCidfile, Container!AskForStart, Container!ClientEnds,
         Container!Create, Container!Begin, Container!Work,
         Container!AutoRemove
    <3>2. ASSUME e # c, Container!Step(e)
          PROVE  FALSE
      BY <1>1, <3>2 DEF Container!Step, Container!Look,
         Container!MakeDirectory, Container!Stage, Container!Build,
         Container!StartClient, Container!ClientCannotStart,
         Container!ClientReturns, Container!KillClient,
         Container!ReadCidfile, Container!List, Container!Kill,
         Container!RemoveContainer, Container!Inspect, Container!ReadOutput,
         Container!Goto, Container!Refuse, Container!Clean,
         Container!NoIdentifier, Container!TypeOK
    <3>3. Container!Step(c)
      BY <2>1, <3>1, <3>2
    <3>4. QED
      BY <3>3 DEF Container!Step, Container!Look, Container!MakeDirectory,
         Container!Stage, Container!Build, Container!StartClient,
         Container!ClientCannotStart, Container!ClientReturns,
         Container!KillClient, Container!ReadCidfile, Container!List,
         Container!Inspect, Container!ReadOutput
  <2>3. ids[c] \in Seq(Call) /\ ids[c] # <<>>
    BY <1>1 DEF Container!TypeOK
  <2>4. Head(ids[c]) \in Range(ids[c]) /\ Head(ids[c]) \in Call
    BY <2>3, TailRange
  <2>5. d = Head(ids[c])
    BY <1>1, <2>2, <2>4
       DEF Container!Kill, Container!RemoveContainer, Container!TypeOK
  <2>6. HasClient(d)
    BY <1>1, <2>4, <2>5 DEF ContainerInv, CleanupInv
  <2>7. IsStaged(c) /\ IsStaged(d)
    BY <2>6 DEF IsStaged
  <2>8. QED
    BY <1>1, <2>7 DEF ContainerInv, OwnerInv
<1>2. QED
  BY <1>1, ContainerTypeCorrect, ContainerInvariant, PTL
     DEF Spec, KillsOnlyItsOwn, Container!KillsOnlyItsOwn

-----------------------------------------------------------------------------
(* Part two: local calls. *)

(* The steps of a local call, in their order.                              *)
LocalPlace == {"look", "stage", "hash", "copy", "staged", "baseline", "poll",
          "sample", "wait", "final", "read", "returned", "refused"}
Staging == {"look", "stage", "hash", "copy", "staged"}
Scanning == {"baseline", "sample", "final"}
Kind == {"file", "dir", "sealed", "link"}
Content == [1..Chunks -> Nat]

LocalTypes ==
  /\ pc \in LocalPlace /\ child \in {"off", "running", "survived", "ended"}
  /\ escaped \in BOOLEAN /\ baseline \in Nat
  /\ tree \in [Name -> Kind \cup {"new", "gone"}]
  /\ outcome \in {"off", "walking", "counted", "overflow"}
  /\ count \in Nat /\ limit \in Nat /\ attempt \in Nat /\ races \in Nat
  /\ pending \in Seq(Name \cup {Root})
  /\ listing \subseteq Name \X Kind /\ ever \subseteq Name \X Kind
  /\ throughout \subseteq Name

-----------------------------------------------------------------------------
(* What was read is behind what the file is now; what the copy is compared *)
(* with is behind a content the file had since, and so is what was read.   *)
StageInv ==
  /\ pc \in Staging => source \in Content
  /\ pc \in {"look", "stage"} => got = <<>>
  /\ pc \in {"hash", "copy"} =>
       /\ source \in whole /\ whole \subseteq Content
       /\ got \in Seq(Nat) /\ Len(got) <= Chunks
  /\ pc = "hash" => \A i \in 1..Len(got) : got[i] <= source[i]
  /\ pc = "copy" =>
       \E content \in whole :
         /\ expected \in Content
         /\ \A i \in 1..Chunks :
              expected[i] <= content[i] /\ content[i] <= source[i]
         /\ \A i \in 1..Len(got) : content[i] <= got[i]
  /\ pc = "staged" => got \in whole

(* Nobody but the call itself works in the directory before the start, and *)
(* it is only measured in three places.                                    *)
QuietInv ==
  /\ pc \in {"look", "stage"} => \A p \in Name : tree[p] = "new"
  /\ pc \in {"hash", "copy"} =>
       tree[Files] = "dir" /\ \A p \in Name \ {Files} : tree[p] = "new"
  /\ pc = "staged" =>
       /\ tree[Files] = "dir" /\ tree[Copy] = "file"
       /\ \A p \in Name \ {Files, Copy} : tree[p] = "new"
  /\ pc \in Staging \cup {"baseline"} => child = "off"
  /\ pc \notin Scanning => outcome = "off"

(* What is there is in a directory that is there.                          *)
TreeInv ==
  \A p \in Name :
    Local!Present(p) => Under[p] = Root \/ tree[Under[p]] = "dir"

-----------------------------------------------------------------------------
(* A walk: the entries in seen were counted, those in a listing wait for   *)
(* it.  What was there all the time is among them as soon as its directory *)
(* was listed; a directory that cannot be listed is not passed over.       *)
Waiting == {entry[1] : entry \in listing}
Listed(p, seen) == Under[p] \in {Root} \cup seen /\ Under[p] \notin Range(pending)

Walked(seen) ==
  /\ Cardinality(seen) = count
  /\ pending \in Seq({Root} \cup seen) /\ IsInjective(pending)
  /\ Waiting \cap seen = {}
  /\ \A p \in seen \cup Waiting : Listed(p, seen)
  /\ \A p \in throughout : Listed(p, seen) => p \in seen \cup Waiting
  /\ \A p \in seen :
       /\ \E what \in Kind : <<p, what>> \in ever
       /\ tree[p] \notin {"link", "new"}
       /\ tree[p] = "sealed" => p \in Range(pending)

WalkInv ==
  outcome = "walking" =>
    /\ races + 1 = attempt /\ attempt <= Local!Attempts
    /\ Local!Met(Local!Entries) \subseteq ever
    /\ throughout \subseteq Local!Entries
    /\ \A p \in throughout : Under[p] \in {Root} \cup throughout
    /\ listing \subseteq ever
    /\ \A p \in Name, what \in Kind :
         <<p, what>> \in listing => tree[p] \in {what, "gone"}
    /\ \E seen \in SUBSET Name : Walked(seen)

(* A walk that came to its end.                                            *)
Covered(seen) ==
  /\ Cardinality(seen) = count
  /\ throughout \subseteq seen
  /\ \A p \in seen :
       /\ \E what \in Kind : <<p, what>> \in ever
       /\ tree[p] \notin Local!Bad \cup {"new"}

ResultInv ==
  /\ outcome = "counted" => \E seen \in SUBSET Name : Covered(seen)
  /\ outcome = "overflow" =>
       \/ races = Local!Attempts \/ Cardinality(ever) > limit
       \/ \E entry \in ever : entry[2] \in Local!Bad

-----------------------------------------------------------------------------
(* Once the child has ended and left nobody behind, the directory is what  *)
(* the last walk saw all the time, and what it was found to be.            *)
RunInv ==
  /\ pc \in {"poll", "sample"} => termination = "exited"
  /\ pc = "wait" /\ termination = "exited" => child # "running"
  /\ pc \in {"final", "read", "returned"} => child # "running"
  /\ child = "survived" => escaped
  /\ pc = "final" => termination = "exited"
  /\ pc = "final" /\ ~escaped /\ outcome \in {"walking", "counted"} =>
       throughout = Local!Entries
  /\ Local!ExitedWithinBudget

LocalInv ==
  LocalTypes /\ StageInv /\ QuietInv /\ TreeInv /\ WalkInv /\ ResultInv /\ RunInv

-----------------------------------------------------------------------------
(* A step of Targets is one of LocalTarget, or none of its.                 *)
LEMMA StepsOfLocal ==
  ASSUME [Next]_vars
  PROVE  Local!Next \/ UNCHANGED localVars
<1>1. ASSUME NEW c \in Call, ContainerCall(c) \/ DockerActs(c)
      PROVE  UNCHANGED localVars
  BY <1>1 DEF ContainerCall, DockerActs
<1>2. CASE LocalCall \/ LocalClock \/ ImporterActs
  BY <1>2 DEF LocalCall, LocalClock, ImporterActs, Local!Next
<1>3. CASE UNCHANGED vars
  BY <1>3 DEF vars
<1>4. QED
  BY <1>1, <1>2, <1>3 DEF Next

(* What the importer does in the directory.                                *)
LEMMA ChangeTyped ==
  ASSUME LocalTypes, Local!Change
  PROVE  /\ tree' \in [Name -> Kind \cup {"new", "gone"}]
         /\ ever' \subseteq Name \X Kind
         /\ throughout' \subseteq Name
         /\ UNCHANGED <<outcome, attempt, pending, count, limit, listing, races>>
<1>1. ASSUME NEW p \in Name, Local!Create(p)
      PROVE  /\ tree' \in [Name -> Kind \cup {"new", "gone"}]
             /\ ever' \subseteq Name \X Kind
  <2>1. PICK kd \in Kinds[p] :
          /\ tree' = [tree EXCEPT ![p] = kd]
          /\ ever' = IF outcome = "walking" THEN ever \cup {<<p, kd>>} ELSE ever
    BY <1>1 DEF Local!Create
  <2>2. kd \in Kind
    BY NameAssumption DEF Kind
  <2>3. QED
    BY <2>1, <2>2 DEF LocalTypes
<1>2. ASSUME NEW p \in Name, Local!Delete(p)
      PROVE  /\ tree' \in [Name -> Kind \cup {"new", "gone"}]
             /\ throughout' \subseteq Name
  BY <1>2 DEF Local!Delete, LocalTypes
<1>3. QED
  BY <1>1, <1>2 DEF Local!Change, Local!Create, Local!Delete, LocalTypes

(* The walk itself.                                                        *)
LEMMA MetTyped ==
  ASSUME LocalTypes
  PROVE  /\ Local!Entries \subseteq Name
         /\ \A entries \in SUBSET Local!Entries :
              Local!Met(entries) \subseteq Name \X Kind
BY DEF LocalTypes, Local!Entries, Local!Met, Local!Present

ScanTypes ==
  /\ outcome \in {"off", "walking", "counted", "overflow"}
  /\ count \in Nat /\ limit \in Nat /\ attempt \in Nat /\ races \in Nat
  /\ pending \in Seq(Name \cup {Root})
  /\ listing \subseteq Name \X Kind /\ ever \subseteq Name \X Kind
  /\ throughout \subseteq Name

(* The types after an attempt that lost an entry.                           *)
LEMMA RetryTyped ==
  ASSUME LocalTypes, Local!Retry
  PROVE  ScanTypes'
<1>1. <<Root>> \in Seq(Name \cup {Root})
  OBVIOUS
<1>2. Local!Entries \subseteq Name /\ Local!Met(Local!Entries) \subseteq Name \X Kind
  BY MetTyped
<1>3. CASE attempt = Local!Attempts
  BY <1>3 DEF LocalTypes, ScanTypes, Local!Retry
<1>4. CASE attempt # Local!Attempts
  <2>1. /\ pending' = <<Root>> /\ listing' = {} /\ count' = 0
        /\ throughout' = Local!Entries /\ ever' = Local!Met(Local!Entries)
        /\ attempt' = attempt + 1 /\ races' = races + 1
        /\ outcome' = outcome /\ limit' = limit
    BY <1>4 DEF Local!Retry, Local!NewAttempt
  <2>2. attempt' \in Nat /\ races' \in Nat /\ count' \in Nat /\ limit' \in Nat
    BY <2>1 DEF LocalTypes
  <2>3. listing' \subseteq Name \X Kind /\ ever' \subseteq Name \X Kind
    BY <1>2, <2>1
  <2>4. QED
    BY <1>1, <1>2, <2>1, <2>2, <2>3 DEF LocalTypes, ScanTypes
<1>5. QED
  BY <1>3, <1>4

(* The types after a step of the walk.                                      *)
LEMMA ScanTyped ==
  ASSUME LocalTypes,
         Local!Scan \/ \E bound \in Nat : Local!BeginScan(bound)
  PROVE  ScanTypes'
<1> USE DEF LocalTypes, ScanTypes
<1>1. ASSUME NEW bound \in Nat, Local!BeginScan(bound)
      PROVE  ScanTypes'
  <2>1. <<Root>> \in Seq(Name \cup {Root})
    OBVIOUS
  <2>2. /\ Local!Entries \subseteq Name
        /\ Local!Met(Local!Entries) \subseteq Name \X Kind
    BY MetTyped
  <2>3. QED
    BY <1>1, <2>1, <2>2 DEF Local!BeginScan, Local!NewAttempt
<1>2. CASE Local!ListDirectory
  <2>1. CASE Local!Retry
    BY <2>1, RetryTyped
  <2>2. CASE Local!Overflow
    BY <2>2 DEF Local!Overflow
  <2>3. CASE ~Local!Retry /\ ~Local!Overflow
    <3> DEFINE directory == Local!Last(pending)
    <3>1. /\ pending # <<>>
          /\ pending' = Local!Front(pending)
          /\ listing' = Local!Met({p \in Local!Entries : Under[p] = directory})
          /\ UNCHANGED <<outcome, attempt, count, limit, throughout, ever, races>>
      BY <1>2, <2>3 DEF Local!ListDirectory
    <3>2. pending' \in Seq(Name \cup {Root})
      BY <3>1, FrontRange DEF Local!Front
    <3>3. listing' \subseteq Name \X Kind
      BY <3>1, MetTyped
    <3>4. QED
      BY <3>1, <3>2, <3>3
  <2>4. QED
    BY <2>1, <2>2, <2>3
<1>3. CASE Local!CountEntry
  <2>1. CASE Local!Retry
    BY <2>1, RetryTyped
  <2>2. CASE Local!Overflow
    BY <2>2 DEF Local!Overflow
  <2>3. CASE ~Local!Retry /\ ~Local!Overflow
    <3>1. PICK entry \in listing : Local!LookAt(entry[1], entry[2])
      BY <1>3, <2>3 DEF Local!CountEntry
    <3>2. entry[1] \in Name
      OBVIOUS
    <3>3. Append(pending, entry[1]) \in Seq(Name \cup {Root})
      BY <3>2, AppendRange
    <3>4. QED
      BY <3>1, <3>3 DEF Local!LookAt
  <2>4. QED
    BY <2>1, <2>2, <2>3
<1>4. CASE Local!EndScan
  BY <1>4 DEF Local!EndScan
<1>5. QED
  BY <1>1, <1>2, <1>3, <1>4 DEF Local!Scan

-----------------------------------------------------------------------------
(* What a step does to the directory and its measurement: a walk begins,   *)
(* goes on or is read; the importer works; or it is not walked at all.     *)
Begins ==
  /\ outcome = "off" /\ pc \in Scanning
  /\ \E bound \in Nat : Local!BeginScan(bound)
  /\ UNCHANGED <<tree, Local!local>>
GoesOn ==
  /\ outcome = "walking" /\ pc \in Scanning
  /\ Local!Scan /\ UNCHANGED <<tree, Local!local>>
IsRead == Local!TakeResult /\ UNCHANGED tree
Importer ==
  /\ child \in {"running", "survived"}
  /\ Local!Change /\ UNCHANGED Local!local
Builds ==
  /\ outcome = "off" /\ UNCHANGED Local!scan
  /\ \/ /\ pc = "stage" /\ pc' = "hash"
        /\ tree' = [tree EXCEPT ![Files] = "dir"]
     \/ /\ pc = "copy" /\ pc' \in {"staged", "refused"}
        /\ tree' = [tree EXCEPT ![Copy] = "file"]
     \/ /\ pc = "staged" /\ pc' = "baseline"
        /\ tree' \in {tree, [tree EXCEPT ![Input] = "file"]}
Elsewhere == UNCHANGED <<tree, Local!scan>>

(* These are all the cases.                                                 *)
LEMMA ScanCases ==
  ASSUME LocalTypes, QuietInv, Local!Next \/ UNCHANGED localVars
  PROVE  Begins \/ GoesOn \/ IsRead \/ Importer \/ Builds \/ Elsewhere
<1>1. CASE Local!BeginAScan
  <2>1. Local!Unlimited \in Nat
    <3>1. Local!Cardinality(Name) = Cardinality(Name)
      BY DEF Cardinality, Local!Cardinality
    <3>2. QED
      BY <3>1, NameAssumption, FS_CardinalityType DEF Local!Unlimited
  <2>2. Local!ScanLimit \in Nat
    BY LocalAssumption DEF Local!ScanLimit, LocalTypes
  <2>3. \E bound \in Nat : Local!BeginScan(bound)
    BY <1>1, <2>1, <2>2 DEF Local!BeginAScan
  <2>4. outcome = "off" /\ pc \in Scanning /\ UNCHANGED <<tree, Local!local>>
    BY <1>1 DEF Local!BeginAScan, Scanning
  <2>5. QED
    BY <2>3, <2>4 DEF Begins
<1>2. CASE Local!Walk
  <2>1. pc \in Scanning /\ Local!Scan /\ UNCHANGED Local!local
    BY <1>2 DEF Local!Walk, Scanning
  <2>2. outcome = "walking" /\ UNCHANGED tree
    BY <2>1 DEF Local!Scan, Local!ListDirectory, Local!CountEntry, Local!EndScan
  <2>3. QED
    BY <2>1, <2>2 DEF GoesOn
<1>3. CASE Local!TakeBaseline \/ Local!TakeSample \/ Local!TakeFinal
  BY <1>3 DEF Local!TakeBaseline, Local!TakeSample, Local!TakeFinal, IsRead
<1>4. CASE Local!Works
  BY <1>4 DEF Local!Works, Importer
<1>5. CASE Local!MakeFiles \/ Local!CompareCopy \/ Local!WriteInput
  <2>1. outcome = "off"
    BY <1>5 DEF Local!MakeFiles, Local!CompareCopy, Local!WriteInput, QuietInv,
       Scanning
  <2>2. QED
    BY <1>5, <2>1 DEF Local!MakeFiles, Local!CompareCopy, Local!WriteInput,
       Local!Goto, Builds
<1>6. CASE \/ Local!Prepare \/ Local!Read \/ Local!Hashed \/ Local!Poll
           \/ Local!Wait \/ Local!ReadOutput
  BY <1>6 DEF Local!Prepare, Local!Read, Local!Hashed, Local!Poll, Local!Wait,
     Local!ReadOutput, Elsewhere
<1>7. CASE Local!Expire \/ Local!Edit \/ Local!Ends
  BY <1>7 DEF Local!Expire, Local!Edit, Local!Ends, Elsewhere
<1>8. CASE UNCHANGED localVars
  BY <1>8 DEF localVars, Local!scan, Elsewhere
<1>9. QED
  BY <1>1, <1>2, <1>3, <1>4, <1>5, <1>6, <1>7, <1>8
     DEF Local!Next, Local!Step

(* Each step of a local call keeps the types.                               *)
LEMMA TypesInductive ==
  ASSUME LocalTypes, QuietInv, Local!Next \/ UNCHANGED localVars
  PROVE  LocalTypes'
<1>1. tree' \in [Name -> Kind \cup {"new", "gone"}] /\ ScanTypes'
  <2>1. CASE Begins
    BY <2>1, ScanTyped DEF Begins, LocalTypes
  <2>2. CASE GoesOn
    BY <2>2, ScanTyped DEF GoesOn, LocalTypes
  <2>3. CASE IsRead
    <3>1. <<>> \in Seq(Name \cup {Root})
      OBVIOUS
    <3>2. QED
      BY <2>3, <3>1 DEF IsRead, Local!TakeResult, LocalTypes, ScanTypes
  <2>4. CASE Importer
    BY <2>4, ChangeTyped DEF Importer, LocalTypes, ScanTypes
  <2>5. CASE Builds
    <3>1. tree' \in [Name -> Kind \cup {"new", "gone"}]
      BY <2>5, LocalAssumption DEF Builds, LocalTypes, Kind
    <3>2. QED
      BY <2>5, <3>1 DEF Builds, Local!scan, LocalTypes, ScanTypes
  <2>6. CASE Elsewhere
    BY <2>6 DEF Elsewhere, Local!scan, LocalTypes, ScanTypes
  <2>7. QED
    BY <2>1, <2>2, <2>3, <2>4, <2>5, <2>6, ScanCases
<1>2. /\ pc' \in LocalPlace /\ child' \in {"off", "running", "survived", "ended"}
      /\ escaped' \in BOOLEAN /\ baseline' \in Nat
  <2> USE DEF LocalTypes, LocalPlace, Local!Goto
  <2>1. CASE \/ Local!Prepare \/ Local!Read \/ Local!Hashed \/ Local!MakeFiles
             \/ Local!CompareCopy \/ Local!WriteInput
    BY <2>1 DEF Local!Prepare, Local!Read, Local!Hashed, Local!MakeFiles,
       Local!CompareCopy, Local!WriteInput
  <2>2. CASE Local!BeginAScan \/ Local!Walk \/ Local!Works
    BY <2>2 DEF Local!BeginAScan, Local!Walk, Local!Works, Local!local
  <2>3. CASE Local!TakeBaseline \/ Local!TakeSample \/ Local!TakeFinal
    BY <2>3 DEF Local!TakeBaseline, Local!TakeSample, Local!TakeFinal
  <2>4. CASE Local!Poll \/ Local!ReadOutput \/ Local!Expire \/ Local!Edit
    BY <2>4 DEF Local!Poll, Local!ReadOutput, Local!Expire, Local!Edit
  <2>5. CASE Local!Wait \/ Local!Ends
    <3>1. pc' \in LocalPlace /\ child' \in {"off", "running", "survived", "ended"}
      BY <2>5 DEF Local!Wait, Local!Ends, Local!AfterWait
    <3>2. escaped' = escaped \/ escaped' \in BOOLEAN
      BY <2>5 DEF Local!Wait, Local!Ends
    <3>3. QED
      BY <2>5, <3>1, <3>2 DEF Local!Wait, Local!Ends
  <2>6. CASE UNCHANGED localVars
    BY <2>6 DEF localVars
  <2>7. QED
    BY <2>1, <2>2, <2>3, <2>4, <2>5, <2>6 DEF Local!Next, Local!Step
<1>3. QED
  BY <1>1, <1>2 DEF LocalTypes, ScanTypes

-----------------------------------------------------------------------------
(* The importer only works, and scans are only made, after the start.       *)
LEMMA QuietInductive ==
  ASSUME LocalTypes, QuietInv, Local!Next \/ UNCHANGED localVars
  PROVE  QuietInv'
<1> USE DEF QuietInv, Staging, Scanning, LocalTypes, Local!Goto
<1>1. CASE Local!Prepare \/ Local!Read \/ Local!Hashed
  BY <1>1 DEF Local!Prepare, Local!Read, Local!Hashed, Local!scan
<1>2. CASE Local!MakeFiles
  BY <1>2, LocalAssumption DEF Local!MakeFiles, Local!scan
<1>3. CASE Local!CompareCopy
  <2>1. Files # Copy
    BY LocalAssumption, NameAssumption
  <2>2. QED
    BY <1>3, <2>1, LocalAssumption DEF Local!CompareCopy, Local!scan
<1>4. CASE Local!WriteInput
  BY <1>4 DEF Local!WriteInput, Local!scan
<1>5. CASE Local!BeginAScan \/ Local!Walk
  BY <1>5 DEF Local!BeginAScan, Local!Walk, Local!local
<1>6. CASE Local!TakeBaseline \/ Local!TakeSample \/ Local!TakeFinal
  BY <1>6 DEF Local!TakeBaseline, Local!TakeSample, Local!TakeFinal,
     Local!TakeResult
<1>7. CASE Local!Poll \/ Local!Wait \/ Local!ReadOutput
  BY <1>7 DEF Local!Poll, Local!Wait, Local!ReadOutput, Local!scan,
     Local!AfterWait
<1>8. CASE Local!Expire \/ Local!Edit
  BY <1>8 DEF Local!Expire, Local!Edit, Local!scan
<1>9. CASE Local!Works
  <2>1. UNCHANGED outcome
    BY <1>9, ChangeTyped DEF Local!Works
  <2>2. QED
    BY <1>9, <2>1 DEF Local!Works, Local!local
<1>10. CASE Local!Ends
  BY <1>10 DEF Local!Ends, Local!scan
<1>11. CASE UNCHANGED localVars
  BY <1>11 DEF localVars
<1>12. QED
  BY <1>1, <1>2, <1>3, <1>4, <1>5, <1>6, <1>7, <1>8, <1>9, <1>10, <1>11
     DEF Local!Next, Local!Step

(* An entry is made in a directory and only removed when it is empty.       *)
LEMMA TreeInductive ==
  ASSUME LocalTypes, QuietInv, TreeInv, Local!Next \/ UNCHANGED localVars
  PROVE  TreeInv'
<1> USE DEF LocalTypes, TreeInv, Local!Present
<1>1. CASE UNCHANGED tree
  BY <1>1
<1>2. ASSUME NEW p \in Name, Local!Create(p)
      PROVE  TreeInv'
  <2>1. PICK kd \in Kinds[p] : tree' = [tree EXCEPT ![p] = kd]
    BY <1>2 DEF Local!Create
  <2>2. tree[p] = "new" /\ (Under[p] = Root \/ tree[Under[p]] = "dir")
    BY <1>2 DEF Local!Create, Local!Entries
  <2>3. Under \in [Name -> Name \cup {Root}]
    BY NameAssumption
  <2>4. ASSUME NEW q \in Name, Local!Present(q)', Under[q] # Root
        PROVE  tree'[Under[q]] = "dir"
    <3>1. Under[q] \in Name /\ tree[Under[q]] = "dir"
      BY <2>1, <2>2, <2>3, <2>4
    <3>2. QED
      BY <2>1, <2>2, <3>1
  <2>5. QED
    BY <2>4
<1>3. ASSUME NEW p \in Name, Local!Delete(p)
      PROVE  TreeInv'
  <2>1. /\ tree' = [tree EXCEPT ![p] = "gone"]
        /\ \A q \in Name : tree[q] \notin {"new", "gone"} => Under[q] # p
    BY <1>3 DEF Local!Delete, Local!Entries
  <2>2. Under \in [Name -> Name \cup {Root}]
    BY NameAssumption
  <2>3. QED
    BY <2>1, <2>2
<1>4. CASE Builds
  <2>1. /\ {Files, Copy, Input} \subseteq Name /\ Input # Files
        /\ Under[Files] = Root /\ Under[Copy] = Files /\ Under[Input] = Root
        /\ Root \notin Name
    BY LocalAssumption, NameAssumption
  <2>2. CASE pc = "stage" /\ tree' = [tree EXCEPT ![Files] = "dir"]
    BY <2>1, <2>2 DEF QuietInv
  <2>3. CASE pc = "copy" /\ tree' = [tree EXCEPT ![Copy] = "file"]
    BY <2>1, <2>3 DEF QuietInv
  <2>4. CASE pc = "staged" /\ tree' = [tree EXCEPT ![Input] = "file"]
    BY <2>1, <2>4 DEF QuietInv
  <2>5. QED
    BY <1>1, <1>4, <2>2, <2>3, <2>4 DEF Builds
<1>5. QED
  BY <1>1, <1>2, <1>3, <1>4, ScanCases
     DEF Begins, GoesOn, IsRead, Importer, Elsewhere, Local!Change

(* A reading falls behind the file, never ahead of it.                      *)
LEMMA StageInductive ==
  ASSUME LocalTypes, StageInv, Local!Next \/ UNCHANGED localVars
  PROVE  StageInv'
<1> USE DEF LocalTypes, Staging, Local!Goto
<1> Chunks \in Nat \ {0}
  BY LocalAssumption
<1>1. CASE Local!Prepare
  BY <1>1 DEF Local!Prepare, StageInv
<1>2. CASE Local!Read
  <2> DEFINE next == Len(got) + 1
  <2>1. /\ pc \in {"hash", "copy"} /\ Len(got) < Chunks
        /\ got' = Append(got, source[next])
        /\ UNCHANGED <<pc, source, whole, expected>>
    BY <1>2 DEF Local!Read
  <2>2. /\ got \in Seq(Nat) /\ source \in Content /\ Len(got) \in Nat
        /\ source[next] \in Nat /\ next \in 1..Chunks
    <3>1. got \in Seq(Nat) /\ source \in Content
      BY <2>1 DEF StageInv
    <3>2. Len(got) \in Nat /\ next \in 1..Chunks
      BY <2>1, <3>1
    <3>3. QED
      BY <3>1, <3>2 DEF Content
  <2>3. /\ got' \in Seq(Nat) /\ Len(got') = next
        /\ \A i \in 1..Len(got) : got'[i] = got[i]
        /\ got'[next] = source[next]
    BY <2>1, <2>2
  <2>4. pc = "hash" => \A i \in 1..Len(got') : got'[i] <= source'[i]
    <3> SUFFICES ASSUME pc = "hash", NEW i \in 1..Len(got')
                 PROVE  got'[i] <= source'[i]
      OBVIOUS
    <3>1. CASE i = next
      BY <2>1, <2>2, <2>3, <3>1
    <3>2. CASE i # next
      <4>1. i \in 1..Len(got)
        BY <2>2, <2>3, <3>2
      <4>2. QED
        BY <2>1, <2>3, <4>1 DEF StageInv
    <3>3. QED
      BY <3>1, <3>2
  <2>5. pc = "copy" =>
          \E content \in whole :
            /\ expected \in Content
            /\ \A i \in 1..Chunks :
                 expected[i] <= content[i] /\ content[i] <= source[i]
            /\ \A i \in 1..Len(got') : content[i] <= got'[i]
    <3> SUFFICES ASSUME pc = "copy"
                 PROVE  \E content \in whole :
                          /\ expected \in Content
                          /\ \A i \in 1..Chunks :
                               expected[i] <= content[i] /\ content[i] <= source[i]
                          /\ \A i \in 1..Len(got') : content[i] <= got'[i]
      OBVIOUS
    <3>1. PICK content \in whole :
            /\ expected \in Content
            /\ \A i \in 1..Chunks :
                 expected[i] <= content[i] /\ content[i] <= source[i]
            /\ \A i \in 1..Len(got) : content[i] <= got[i]
      BY DEF StageInv
    <3>2. ASSUME NEW i \in 1..Len(got')
          PROVE  content[i] <= got'[i]
      <4>1. CASE i = next
        BY <2>2, <2>3, <3>1, <4>1
      <4>2. CASE i # next
        <5>1. i \in 1..Len(got)
          BY <2>2, <2>3, <4>2
        <5>2. QED
          BY <2>3, <3>1, <5>1
      <4>3. QED
        BY <4>1, <4>2
    <3>3. QED
      BY <3>1, <3>2
  <2>6. /\ source' \in whole' /\ whole' \subseteq Content
        /\ got' \in Seq(Nat) /\ Len(got') <= Chunks
    BY <2>1, <2>2, <2>3 DEF StageInv
  <2> HIDE DEF next
  <2>7. QED
    BY <2>1, <2>2, <2>4, <2>5, <2>6 DEF StageInv
<1>3. CASE Local!Hashed
  <2>1. /\ pc = "hash" /\ Len(got) = Chunks /\ pc' = "copy"
        /\ expected' = got /\ got' = <<>> /\ UNCHANGED <<source, whole>>
    BY <1>3 DEF Local!Hashed
  <2>2. /\ source \in whole /\ whole \subseteq Content /\ source \in Content
        /\ got \in Seq(Nat)
        /\ \A i \in 1..Chunks : got[i] <= source[i]
    BY <2>1 DEF StageInv
  <2>3. expected' \in Content
    <3>1. got \in [1..Len(got) -> Nat]
      BY <2>2
    <3>2. QED
      BY ONLY <2>1, <3>1 DEF Content
  <2>4. got' \in Seq(Nat) /\ Len(got') = 0 /\ Len(got') <= Chunks
    BY <2>1
  <2>5. /\ \A i \in 1..Chunks : expected'[i] <= source[i] /\ source[i] <= source'[i]
        /\ \A i \in 1..Len(got') : source[i] <= got'[i]
    BY <2>1, <2>2, <2>4 DEF Content
  <2>6. QED
    BY <2>1, <2>2, <2>3, <2>4, <2>5 DEF StageInv
<1>4. CASE Local!MakeFiles
  <2>1. /\ pc = "stage" /\ pc' = "hash" /\ whole' = {source}
        /\ UNCHANGED <<source, got>>
    BY <1>4 DEF Local!MakeFiles
  <2>2. source \in Content /\ got = <<>>
    BY <2>1 DEF StageInv
  <2>3. got' \in Seq(Nat) /\ Len(got') = 0 /\ Len(got') <= Chunks
    BY <2>1, <2>2
  <2>4. QED
    BY <2>1, <2>2, <2>3 DEF StageInv
<1>5. CASE Local!CompareCopy
  <2>1. /\ pc = "copy" /\ Len(got) = Chunks
        /\ (pc' = "staged" /\ got = expected) \/ pc' = "refused"
        /\ UNCHANGED <<source, got, whole>>
    BY <1>5 DEF Local!CompareCopy, Local!CopyIsExpected
  <2>2. source \in Content /\ whole \subseteq Content
    BY <2>1 DEF StageInv
  <2>3. ASSUME got = expected
        PROVE  got \in whole
    <3>1. PICK content \in whole :
            /\ expected \in Content
            /\ \A i \in 1..Chunks :
                 expected[i] <= content[i] /\ content[i] <= source[i]
            /\ \A i \in 1..Len(got) : content[i] <= got[i]
      BY <2>1 DEF StageInv
    <3>2. content \in Content
      BY <2>2
    <3>3. \A i \in 1..Chunks : got[i] = content[i]
      BY <2>1, <2>3, <3>1, <3>2 DEF Content
    <3>4. got = content
      BY <2>3, <3>1, <3>2, <3>3 DEF Content
    <3>5. QED
      BY <3>4
  <2>4. QED
    BY <2>1, <2>2, <2>3 DEF StageInv
<1>6. CASE Local!Edit
  <2>1. PICK k \in 1..Chunks, n \in 1..MaxEdits :
          /\ \A j \in 1..Chunks : source[j] < n
          /\ source' = [source EXCEPT ![k] = n]
    BY <1>6 DEF Local!Edit
  <2>2. /\ whole' = IF pc \in {"hash", "copy"} THEN whole \cup {source'} ELSE whole
        /\ UNCHANGED <<pc, got, expected>>
    BY <1>6 DEF Local!Edit
  <2>3. n \in Nat
    BY LocalAssumption
  <2>4. ASSUME pc \in Staging
        PROVE  /\ source' \in Content
               /\ \A i \in 1..Chunks : source[i] <= source'[i]
    <3>1. source \in [1..Chunks -> Nat]
      BY <2>4 DEF StageInv, Content
    <3>2. QED
      BY <2>1, <2>3, <3>1 DEF Content
  <2>5. pc = "hash" => \A i \in 1..Len(got) : got[i] <= source'[i]
    <3> SUFFICES ASSUME pc = "hash", NEW i \in 1..Len(got)
                 PROVE  got[i] <= source'[i]
      OBVIOUS
    <3>1. got[i] <= source[i] /\ got[i] \in Nat /\ i \in 1..Chunks
      BY DEF StageInv
    <3>2. /\ source[i] <= source'[i] /\ source[i] \in Nat /\ source'[i] \in Nat
      BY <2>4, <3>1 DEF StageInv, Content
    <3>3. QED
      BY <3>1, <3>2
  <2>6. pc = "copy" =>
          \E content \in whole :
            /\ expected \in Content
            /\ \A i \in 1..Chunks :
                 expected[i] <= content[i] /\ content[i] <= source'[i]
            /\ \A i \in 1..Len(got) : content[i] <= got[i]
    <3> SUFFICES ASSUME pc = "copy"
                 PROVE  \E content \in whole :
                          /\ expected \in Content
                          /\ \A i \in 1..Chunks :
                               expected[i] <= content[i] /\ content[i] <= source'[i]
                          /\ \A i \in 1..Len(got) : content[i] <= got[i]
      OBVIOUS
    <3>1. PICK content \in whole :
            /\ expected \in Content
            /\ \A i \in 1..Chunks :
                 expected[i] <= content[i] /\ content[i] <= source[i]
            /\ \A i \in 1..Len(got) : content[i] <= got[i]
      BY DEF StageInv
    <3>2. source \in Content /\ source' \in Content /\ content \in Content
      BY <2>4 DEF StageInv
    <3>3. ASSUME NEW i \in 1..Chunks
          PROVE  content[i] <= source'[i]
      <4>1. content[i] \in Nat /\ source[i] \in Nat /\ source'[i] \in Nat
        BY ONLY <3>2 DEF Content
      <4>2. content[i] <= source[i] /\ source[i] <= source'[i]
        BY <2>4, <3>1
      <4>3. QED
        BY ONLY <4>1, <4>2
    <3>4. QED
      BY <3>1, <3>3
  <2>7. QED
    BY <2>2, <2>4, <2>5, <2>6 DEF StageInv
<1>7. CASE \/ pc' \notin Staging
           \/ UNCHANGED <<pc, source, got, expected, whole>>
  BY <1>7 DEF StageInv
<1>8. ASSUME Local!WriteInput \/ Local!TakeBaseline
      PROVE  pc' \notin Staging
  BY <1>8 DEF Local!WriteInput, Local!TakeBaseline
<1>9. ASSUME \/ Local!Poll \/ Local!TakeSample
             \/ Local!Wait \/ Local!TakeFinal \/ Local!ReadOutput
      PROVE  pc' \notin Staging
  BY <1>9 DEF Local!Poll, Local!TakeSample, Local!Wait, Local!TakeFinal,
     Local!ReadOutput, Local!AfterWait
<1>10. ASSUME \/ Local!BeginAScan \/ Local!Walk \/ Local!Expire \/ Local!Works
              \/ Local!Ends \/ UNCHANGED localVars
       PROVE  UNCHANGED <<pc, source, got, expected, whole>>
  BY <1>10 DEF Local!BeginAScan, Local!Walk, Local!Expire, Local!Works,
     Local!Ends, Local!local, localVars
<1>11. QED
  BY <1>1, <1>2, <1>3, <1>4, <1>5, <1>6, <1>7, <1>8, <1>9, <1>10
     DEF Local!Next, Local!Step

-----------------------------------------------------------------------------
(* A new attempt starts at the workspace itself.                           *)
LEMMA NewAttemptWalks ==
  ASSUME LocalTypes, TreeInv, Local!NewAttempt, UNCHANGED tree,
         outcome' = "walking", races' + 1 = attempt', attempt' <= Local!Attempts
  PROVE  WalkInv' /\ ResultInv'
<1>1. /\ pending' = <<Root>> /\ listing' = {} /\ count' = 0
      /\ throughout' = Local!Entries /\ ever' = Local!Met(Local!Entries)
      /\ tree' = tree
  BY DEF Local!NewAttempt
<1>2. /\ Local!Entries' = Local!Entries
      /\ Local!Met(Local!Entries)' = Local!Met(Local!Entries)
  BY DEF Local!Entries, Local!Met, Local!Present
<1>3. \A p \in Local!Entries : Under[p] \in {Root} \cup Local!Entries
  BY NameAssumption DEF TreeInv, Local!Entries, Local!Present
<1>4. Walked({})'
  <2>1. Cardinality({}) = 0
    BY FS_EmptySet
  <2>2. <<Root>> \in Seq({Root}) /\ Range(<<Root>>) = {Root}
    <3>1. /\ <<Root>> \in Seq({Root}) /\ DOMAIN <<Root>> = {1}
          /\ <<Root>>[1] = Root
      OBVIOUS
    <3>2. QED
      BY <3>1 DEF Range
  <2>3. IsInjective(<<Root>>)
    <3>1. DOMAIN <<Root>> = {1}
      OBVIOUS
    <3>2. QED
      BY <3>1 DEF IsInjective
  <2>4. Waiting' = {}
    BY <1>1 DEF Waiting
  <2>5. \A p \in throughout' : ~Listed(p, {})'
    BY <1>1, <2>2 DEF Listed
  <2>6. QED
    BY <1>1, <2>1, <2>2, <2>3, <2>4, <2>5 DEF Walked
<1>5. \E seen \in SUBSET Name : Walked(seen)'
  BY <1>4
<1>6. WalkInv'
  <2>1. /\ races' + 1 = attempt' /\ attempt' <= Local!Attempts
        /\ Local!Met(Local!Entries)' \subseteq ever'
        /\ throughout' \subseteq Local!Entries'
        /\ \A p \in throughout' : Under[p] \in {Root} \cup throughout'
        /\ listing' = {}
    BY <1>1, <1>2, <1>3
  <2>2. QED
    BY <1>5, <2>1 DEF WalkInv
<1>7. QED
  BY <1>6 DEF ResultInv

(* An entry that was lost is a lost attempt.                               *)
LEMMA RetryWalks ==
  ASSUME LocalTypes, TreeInv, WalkInv, outcome = "walking",
         Local!Retry, UNCHANGED tree
  PROVE  WalkInv' /\ ResultInv'
<1>1. races + 1 = attempt /\ attempt <= Local!Attempts
  BY DEF WalkInv
<1>2. attempt \in Nat /\ races \in Nat /\ Local!Attempts = 3
  BY DEF LocalTypes, Local!Attempts
<1>3. CASE attempt = Local!Attempts
  <2>1. outcome' = "overflow" /\ races' = races + 1
    BY <1>3 DEF Local!Retry
  <2>2. races' = Local!Attempts
    BY <1>1, <1>2, <1>3, <2>1
  <2>3. QED
    BY <2>1, <2>2 DEF WalkInv, ResultInv
<1>4. CASE attempt # Local!Attempts
  <2>1. /\ Local!NewAttempt /\ attempt' = attempt + 1 /\ races' = races + 1
        /\ outcome' = "walking"
    BY <1>4 DEF Local!Retry
  <2>2. races' + 1 = attempt' /\ attempt' <= Local!Attempts
    BY <1>1, <1>2, <1>4, <2>1
  <2>3. QED
    BY <2>1, <2>2, NewAttemptWalks
<1>5. QED
  BY <1>3, <1>4

(* What was counted was there at some time.                                *)
LEMMA SeenWereThere ==
  ASSUME LocalTypes, NEW seen \in SUBSET Name,
         \A p \in seen : \E what \in Kind : <<p, what>> \in ever
  PROVE  /\ IsFiniteSet(seen) /\ Cardinality(seen) \in Nat
         /\ Cardinality(ever) \in Nat
         /\ Cardinality(seen) <= Cardinality(ever)
<1>1. IsFiniteSet(Name)
  BY NameAssumption
<1>2. IsFiniteSet(ever)
  <2>1. IsFiniteSet({"file"})
    BY FS_Singleton
  <2>2. IsFiniteSet(Kind)
    <3>1. IsFiniteSet({"file"} \cup {"dir"})
      BY <2>1, FS_AddElement
    <3>2. IsFiniteSet(({"file"} \cup {"dir"}) \cup {"sealed"})
      BY <3>1, FS_AddElement
    <3>3. IsFiniteSet((({"file"} \cup {"dir"}) \cup {"sealed"}) \cup {"link"})
      BY <3>2, FS_AddElement
    <3>4. Kind = (({"file"} \cup {"dir"}) \cup {"sealed"}) \cup {"link"}
      BY DEF Kind
    <3>5. QED
      BY <3>3, <3>4
  <2>3. IsFiniteSet(Name \X Kind)
    BY <1>1, <2>2, FS_Product
  <2>4. QED
    BY <2>3, FS_Subset DEF LocalTypes
<1>3. DEFINE f == [p \in seen |-> <<p, CHOOSE what \in Kind : <<p, what>> \in ever>>]
<1>4. \A p \in seen : f[p] \in ever /\ f[p][1] = p
  OBVIOUS
<1>5. f \in [seen -> ever] /\ DOMAIN f = seen
  BY <1>4
<1> HIDE DEF f
<1>6. f \in Injection(seen, ever)
  BY <1>4, <1>5 DEF Injection, IsInjective
<1>7. QED
  BY <1>2, <1>6, FS_Injection, FS_CardinalityType

(* A directory is taken from the end of those that are left and listed.    *)
LEMMA ListingWalks ==
  ASSUME LocalTypes, TreeInv, WalkInv, Local!ListDirectory
  PROVE  WalkInv' /\ ResultInv'
<1> DEFINE directory == Local!Last(pending)
<1>1. /\ outcome = "walking" /\ listing = {} /\ pending # <<>>
      /\ UNCHANGED tree
  BY DEF Local!ListDirectory
<1>2. CASE ~Local!StillThere(directory)
  <2>1. Local!Retry
    BY <1>2 DEF Local!ListDirectory
  <2>2. QED
    BY <1>1, <2>1, RetryWalks
<1>3. CASE Local!StillThere(directory) /\ ~Local!Open(directory)
  <2>1. outcome' = "overflow" /\ UNCHANGED ever
    BY <1>3 DEF Local!ListDirectory, Local!Overflow
  <2>2. directory \in Name \cup {Root}
    BY <1>1, FrontRange DEF LocalTypes, Local!Last, Local!Front
  <2>3. <<directory, "sealed">> \in Local!Met(Local!Entries)
    BY <1>3, <2>2 DEF Local!StillThere, Local!Open, Local!Met, Local!Entries
  <2>4. <<directory, "sealed">> \in ever
    BY <1>1, <2>3 DEF WalkInv
  <2>5. \E entry \in ever' : entry[2] \in Local!Bad
    BY <2>1, <2>4 DEF Local!Bad
  <2>6. QED
    BY <2>1, <2>5 DEF WalkInv, ResultInv
<1>4. CASE Local!StillThere(directory) /\ Local!Open(directory)
  <2>1. /\ pending' = Local!Front(pending)
        /\ listing' = Local!Met({p \in Local!Entries : Under[p] = directory})
        /\ UNCHANGED <<tree, outcome, attempt, count, limit, throughout, ever, races>>
    BY <1>4 DEF Local!ListDirectory
  <2>2. PICK seen \in SUBSET Name : Walked(seen)
    BY <1>1 DEF WalkInv
  <2>3. /\ directory \in {Root} \cup seen
        /\ directory \in Range(pending)
        /\ pending' \in Seq({Root} \cup seen)
        /\ IsInjective(pending')
        /\ Range(pending) = {directory} \cup Range(pending')
        /\ directory \notin Range(pending')
    <3>1. pending \in Seq({Root} \cup seen) /\ IsInjective(pending)
      BY <2>2 DEF Walked
    <3>2. /\ pending[Len(pending)] \in {Root} \cup seen
          /\ pending[Len(pending)] \in Range(pending)
          /\ pending' \in Seq({Root} \cup seen)
          /\ Range(pending) = {pending[Len(pending)]} \cup Range(pending')
          /\ IsInjective(pending')
          /\ pending[Len(pending)] \notin Range(pending')
      <4> DEFINE S == {Root} \cup seen
      <4>1. pending' = SubSeq(pending, 1, Len(pending) - 1) /\ pending # <<>>
        BY <1>1, <2>1 DEF Local!Front
      <4>2. pending \in Seq(S) /\ IsInjective(pending)
        BY <3>1
      <4> HIDE DEF S
      <4>3. /\ pending[Len(pending)] \in S
            /\ pending[Len(pending)] \in Range(pending)
            /\ pending' \in Seq(S)
            /\ Range(pending) = {pending[Len(pending)]} \cup Range(pending')
            /\ IsInjective(pending')
            /\ pending[Len(pending)] \notin Range(pending')
        BY <4>1, <4>2, FrontRange
      <4>4. QED
        BY <4>3 DEF S
    <3>3. directory = pending[Len(pending)]
      BY DEF Local!Last
    <3>4. QED
      BY <3>2, <3>3
  <2> HIDE DEF directory
  <2>4. Waiting = {} /\ Waiting' = {p \in Local!Entries : Under[p] = directory}
    <3> DEFINE inside == {p \in Local!Entries : Under[p] = directory}
    <3>1. listing' = {<<p, tree[p]>> : p \in inside}
      BY <2>1 DEF Local!Met, directory
    <3>2. Waiting' = {entry[1] : entry \in listing'}
      BY DEF Waiting
    <3>3. Waiting' = inside
      <4>1. \A entry \in listing' : entry[1] \in inside
        BY <3>1
      <4>2. \A p \in inside : <<p, tree[p]>> \in listing'
        BY <3>1
      <4>3. \A p \in inside : p \in Waiting'
        <5> SUFFICES ASSUME NEW p \in inside
                     PROVE  p \in Waiting'
          OBVIOUS
        <5>1. <<p, tree[p]>> \in listing' /\ <<p, tree[p]>>[1] = p
          BY <4>2
        <5>2. QED
          BY <3>2, <5>1
      <4>4. QED
        BY <3>2, <4>1, <4>3
    <3>4. Waiting = {}
      BY <1>1 DEF Waiting
    <3>5. QED
      BY <3>3, <3>4 DEF inside
  <2>5. \A p \in seen : Listed(p, seen)
    BY <2>2 DEF Walked
  <2>6. Waiting' \cap seen = {}
    BY <2>3, <2>4, <2>5 DEF Listed
  <2>7. \A p \in seen \cup Waiting' : Listed(p, seen)'
    BY <2>3, <2>4, <2>5 DEF Listed
  <2>8. ASSUME NEW p \in throughout', Listed(p, seen)'
        PROVE  p \in seen \cup Waiting'
    <3>1. p \in throughout /\ p \in Local!Entries
      BY <1>1, <2>1 DEF WalkInv
    <3>2. CASE Under[p] = directory
      BY <2>4, <3>1, <3>2
    <3>3. CASE Under[p] # directory
      <4>1. Listed(p, seen)
        BY <2>3, <2>8, <3>3 DEF Listed
      <4>2. QED
        BY <2>2, <2>4, <3>1, <4>1 DEF Walked
    <3>4. QED
      BY <3>2, <3>3
  <2>9. \A p \in seen :
          /\ \E what \in Kind : <<p, what>> \in ever'
          /\ tree'[p] \notin {"link", "new"}
          /\ tree'[p] = "sealed" => p \in Range(pending')
    <3>1. directory = Root \/ tree[directory] # "sealed"
      BY <1>4 DEF Local!Open
    <3>2. Root \notin seen
      BY NameAssumption
    <3>3. QED
      BY <2>1, <2>2, <2>3, <3>1, <3>2 DEF Walked
  <2>10. Walked(seen)'
    BY <2>1, <2>2, <2>3, <2>6, <2>7, <2>8, <2>9 DEF Walked
  <2>11. \E kept \in SUBSET Name : Walked(kept)'
    BY <2>10
  <2>12. /\ Local!Entries' = Local!Entries
         /\ Local!Met(Local!Entries)' = Local!Met(Local!Entries)
    BY <2>1 DEF Local!Entries, Local!Met, Local!Present
  <2>13. listing' \subseteq ever
    BY <1>1, <2>1 DEF WalkInv, Local!Met
  <2>14. \A p \in Name, what \in Kind :
           <<p, what>> \in listing' => tree'[p] \in {what, "gone"}
    BY <2>1 DEF Local!Met
  <2>15. WalkInv'
    BY <1>1, <2>1, <2>11, <2>12, <2>13, <2>14 DEF WalkInv
  <2>16. QED
    BY <1>1, <2>1, <2>15 DEF ResultInv
<1>5. QED
  BY <1>2, <1>3, <1>4

(* An entry of the listing is looked at.                                   *)
LEMMA LookingWalks ==
  ASSUME LocalTypes, TreeInv, WalkInv, outcome = "walking", UNCHANGED tree,
         NEW p \in Name, NEW what \in Kind, <<p, what>> \in listing,
         Local!Present(p), what # "link", Local!LookAt(p, what)
  PROVE  WalkInv' /\ ResultInv'
<1>1. /\ count' = count + 1 /\ listing' = listing \ {<<p, what>>}
      /\ pending' = IF what \in {"dir", "sealed"} THEN Append(pending, p) ELSE pending
      /\ UNCHANGED <<tree, outcome, attempt, limit, throughout, ever, races>>
  BY DEF Local!LookAt
<1>2. PICK seen \in SUBSET Name : Walked(seen)
  BY DEF WalkInv
<1>3. tree[p] = what
  BY DEF WalkInv, Local!Present
<1>4. p \in Waiting /\ p \notin seen /\ p # Root
  <2>1. p \in Waiting
    BY DEF Waiting
  <2>2. QED
    BY <1>2, <2>1, NameAssumption DEF Walked
<1>5. Waiting' = Waiting \ {p}
  <2>1. \A kd \in Kind : <<p, kd>> \in listing => kd = what
    BY <1>3 DEF WalkInv, Local!Present
  <2>2. listing \subseteq Name \X Kind
    BY DEF LocalTypes
  <2>3. \A entry \in listing : entry = <<entry[1], entry[2]>>
    BY <2>2
  <2>4. Waiting' \subseteq Waiting \ {p}
    BY <1>1, <2>1, <2>2, <2>3 DEF Waiting
  <2>5. Waiting \ {p} \subseteq Waiting'
    BY <1>1 DEF Waiting
  <2>6. QED
    BY <2>4, <2>5
<1> DEFINE now == seen \cup {p}
<1>6. pending \in Seq({Root} \cup now) /\ p \notin Range(pending)
  <2>1. pending \in Seq({Root} \cup seen)
    BY <1>2 DEF Walked
  <2>2. Range(pending) \subseteq {Root} \cup seen
    BY <2>1, SeqRange
  <2>3. QED
    BY <1>4, <2>1, <2>2
<1>7. /\ pending' \in Seq({Root} \cup now) /\ IsInjective(pending')
      /\ Range(pending') = IF what \in {"dir", "sealed"} THEN Range(pending) \cup {p}
                                                        ELSE Range(pending)
  <2>1. IsInjective(pending)
    BY <1>2 DEF Walked
  <2>2. /\ Append(pending, p) \in Seq({Root} \cup now)
        /\ Range(Append(pending, p)) = Range(pending) \cup {p}
    BY <1>6, AppendRange
  <2>3. IsInjective(Append(pending, p))
    BY <1>6, <2>1, AppendNewInjective
  <2>4. CASE what \in {"dir", "sealed"}
    BY <1>1, <2>2, <2>3, <2>4
  <2>5. CASE what \notin {"dir", "sealed"}
    BY <1>1, <1>6, <2>1, <2>5
  <2>6. QED
    BY <2>4, <2>5
<1>8. Cardinality(now) = count'
  <2>1. IsFiniteSet(seen)
    BY NameAssumption, FS_Subset
  <2>2. Cardinality(seen) = count
    BY <1>2 DEF Walked
  <2>3. QED
    BY <1>1, <1>4, <2>1, <2>2, FS_AddElement
<1>9. \A q \in now \cup Waiting' : Listed(q, now)'
  <2>1. now \cup Waiting' = seen \cup Waiting
    BY <1>4, <1>5
  <2>2. \A q \in seen \cup Waiting : Listed(q, seen)
    BY <1>2 DEF Walked
  <2>3. QED
    BY <1>4, <1>7, <2>1, <2>2 DEF Listed
<1>10. ASSUME NEW q \in throughout', Listed(q, now)'
       PROVE  q \in now \cup Waiting'
  <2>1. q \in throughout /\ q \in Name /\ Local!Present(q)
    BY <1>1 DEF WalkInv, LocalTypes, Local!Entries
  <2>2. CASE Under[q] = p
    <3>1. tree[p] = "dir"
      BY <1>4, <2>1, <2>2 DEF TreeInv
    <3>2. QED
      BY <1>3, <1>7, <1>10, <2>2, <3>1 DEF Listed
  <2>3. CASE Under[q] # p
    <3>1. Listed(q, seen)
      BY <1>7, <1>10, <2>3 DEF Listed
    <3>2. q \in seen \cup Waiting
      BY <1>2, <2>1, <3>1 DEF Walked
    <3>3. QED
      BY <1>5, <3>2
  <2>4. QED
    BY <2>2, <2>3
<1>11. \A q \in now :
         /\ \E kd \in Kind : <<q, kd>> \in ever'
         /\ tree'[q] \notin {"link", "new"}
         /\ tree'[q] = "sealed" => q \in Range(pending')
  <2>1. \A q \in seen :
          /\ \E kd \in Kind : <<q, kd>> \in ever
          /\ tree[q] \notin {"link", "new"}
          /\ tree[q] = "sealed" => q \in Range(pending)
    BY <1>2 DEF Walked
  <2>2. <<p, what>> \in ever /\ tree[p] \notin {"link", "new"}
    BY <1>3 DEF WalkInv, Local!Present
  <2>3. tree[p] = "sealed" => p \in Range(pending')
    BY <1>3, <1>7
  <2>4. QED
    BY <1>1, <1>7, <2>1, <2>2, <2>3
<1>12. Walked(now)'
  <2>1. Waiting' \cap now = {}
    BY <1>2, <1>5 DEF Walked
  <2> HIDE DEF now
  <2>2. QED
    BY <1>7, <1>8, <1>9, <1>10, <1>11, <2>1 DEF Walked
<1>13. \E kept \in SUBSET Name : Walked(kept)'
  BY <1>12
<1>14. /\ Local!Entries' = Local!Entries
       /\ Local!Met(Local!Entries)' = Local!Met(Local!Entries)
  BY <1>1 DEF Local!Entries, Local!Met, Local!Present
<1>15. WalkInv'
  BY <1>1, <1>13, <1>14 DEF WalkInv
<1>16. QED
  BY <1>1, <1>15 DEF ResultInv

(* One entry of the listing: counted, or the walk is given up for a reason.*)
LEMMA CountingWalks ==
  ASSUME LocalTypes, TreeInv, WalkInv, Local!CountEntry
  PROVE  WalkInv' /\ ResultInv'
<1>1. outcome = "walking" /\ UNCHANGED tree
  BY DEF Local!CountEntry
<1>2. PICK entry \in listing :
        IF count + 1 > limit THEN Local!Overflow
        ELSE IF ~Local!Present(entry[1]) THEN Local!Retry
        ELSE IF entry[2] = "link" THEN Local!Overflow
        ELSE Local!LookAt(entry[1], entry[2])
  BY DEF Local!CountEntry
<1>3. PICK p \in Name, what \in Kind : entry = <<p, what>>
  BY DEF LocalTypes
<1>4. <<p, what>> \in listing /\ <<p, what>> \in ever
  BY <1>1, <1>3 DEF WalkInv
<1>5. CASE count + 1 > limit
  <2>1. outcome' = "overflow" /\ UNCHANGED <<ever, limit>>
    BY <1>2, <1>5 DEF Local!Overflow
  <2>2. PICK seen \in SUBSET Name : Walked(seen)
    BY <1>1 DEF WalkInv
  <2>3. p \notin seen
    <3>1. p \in Waiting
      BY <1>4 DEF Waiting
    <3>2. QED
      BY <2>2, <3>1 DEF Walked
  <2>4. Cardinality(seen \cup {p}) = count + 1
    <3>1. IsFiniteSet(seen)
      BY NameAssumption, FS_Subset
    <3>2. Cardinality(seen) = count
      BY <2>2 DEF Walked
    <3>3. QED
      BY <2>3, <3>1, <3>2, FS_AddElement
  <2>5. \A q \in seen \cup {p} : \E kd \in Kind : <<q, kd>> \in ever
    BY <1>4, <2>2 DEF Walked
  <2>6. count + 1 <= Cardinality(ever) /\ Cardinality(ever) \in Nat
    <3>1. seen \cup {p} \in SUBSET Name
      OBVIOUS
    <3>2. QED
      BY <2>4, <2>5, <3>1, SeenWereThere
  <2>7. Cardinality(ever') > limit'
    BY <1>5, <2>1, <2>6 DEF LocalTypes
  <2>8. QED
    BY <2>1, <2>7 DEF WalkInv, ResultInv
<1>6. CASE ~(count + 1 > limit) /\ ~Local!Present(p)
  <2>1. Local!Retry
    BY <1>2, <1>3, <1>6
  <2>2. QED
    BY <1>1, <2>1, RetryWalks
<1>7. CASE ~(count + 1 > limit) /\ Local!Present(p) /\ what = "link"
  <2>1. outcome' = "overflow" /\ UNCHANGED ever
    BY <1>2, <1>3, <1>7 DEF Local!Overflow
  <2>2. \E found \in ever' : found[2] \in Local!Bad
    BY <1>4, <1>7, <2>1 DEF Local!Bad
  <2>3. QED
    BY <2>1, <2>2 DEF WalkInv, ResultInv
<1>8. CASE ~(count + 1 > limit) /\ Local!Present(p) /\ what # "link"
  <2>1. Local!LookAt(p, what)
    BY <1>2, <1>3, <1>8
  <2>2. QED
    BY <1>1, <1>4, <1>8, <2>1, LookingWalks
<1>9. QED
  BY <1>5, <1>6, <1>7, <1>8

(* When nothing is left to list, all that was there all the time was seen: *)
(* of the entries that were not, one would be in a directory that was.     *)
LEMMA EndingWalks ==
  ASSUME LocalTypes, WalkInv, Local!EndScan
  PROVE  WalkInv' /\ ResultInv'
<1>1. /\ outcome = "walking" /\ listing = {} /\ pending = <<>>
      /\ outcome' = "counted"
      /\ UNCHANGED <<tree, count, throughout, ever>>
  BY DEF Local!EndScan
<1>2. PICK seen \in SUBSET Name : Walked(seen)
  BY <1>1 DEF WalkInv
<1>3. Waiting = {} /\ Range(pending) = {}
  BY <1>1, EmptyRange DEF Waiting
<1>4. throughout \subseteq seen
  <2> SUFFICES ASSUME throughout \ seen # {}
               PROVE  FALSE
    OBVIOUS
  <2>1. throughout \ seen \in SUBSET Name
    BY DEF LocalTypes
  <2>2. PICK p \in throughout \ seen : Under[p] \notin throughout \ seen
    BY <2>1, NameAssumption
  <2>3. Under[p] \in {Root} \cup throughout
    BY <1>1 DEF WalkInv
  <2>4. Listed(p, seen)
    BY <1>3, <2>2, <2>3 DEF Listed
  <2>5. QED
    BY <1>2, <1>3, <2>2, <2>4 DEF Walked
<1>5. Covered(seen)'
  <2>1. \A p \in seen : tree[p] # "sealed"
    BY <1>2, <1>3 DEF Walked
  <2>2. QED
    BY <1>1, <1>2, <1>4, <2>1 DEF Covered, Walked, Local!Bad
<1>6. \E kept \in SUBSET Name : Covered(kept)'
  BY <1>5
<1>7. QED
  BY <1>1, <1>6 DEF WalkInv, ResultInv

(* Whatever the importer does in the directory meanwhile.                  *)
LEMMA CreationWalks ==
  ASSUME LocalTypes, TreeInv, WalkInv, ResultInv, NEW p \in Name, Local!Create(p)
  PROVE  WalkInv' /\ ResultInv'
<1>1. PICK kd \in Kinds[p] :
        /\ tree' = [tree EXCEPT ![p] = kd]
        /\ ever' = IF outcome = "walking" THEN ever \cup {<<p, kd>>} ELSE ever
  BY DEF Local!Create
<1>2. kd \in Kind /\ tree[p] = "new"
  BY NameAssumption DEF Kind, Local!Create
<1>3. UNCHANGED <<outcome, attempt, pending, count, limit, listing, throughout, races>>
  BY DEF Local!Create
<1>4. ever \subseteq ever'
  BY <1>1
<1>5. ASSUME outcome = "walking"
      PROVE  WalkInv'
  <2>1. PICK seen \in SUBSET Name : Walked(seen)
    BY <1>5 DEF WalkInv
  <2>2. Local!Entries' = Local!Entries \cup {p}
    BY <1>1, <1>2 DEF Local!Entries, Local!Present, LocalTypes, Kind
  <2>3. Local!Met(Local!Entries)' \subseteq ever'
    <3> SUFFICES ASSUME NEW q \in Local!Entries'
                 PROVE  <<q, tree'[q]>> \in ever'
      BY DEF Local!Met
    <3>1. CASE q = p
      BY <1>1, <1>5, <3>1 DEF LocalTypes
    <3>2. CASE q # p
      <4>1. q \in Local!Entries /\ tree'[q] = tree[q]
        BY <1>1, <2>2, <3>2 DEF LocalTypes, Local!Entries
      <4>2. <<q, tree[q]>> \in ever
        BY <1>5, <4>1 DEF WalkInv, Local!Met
      <4>3. QED
        BY <1>4, <4>1, <4>2
    <3>3. QED
      BY <3>1, <3>2
  <2>4. \A q \in Name : tree[q] # "new" => tree'[q] = tree[q]
    BY <1>1, <1>2 DEF LocalTypes
  <2>5. \A q \in Name, what \in Kind :
          <<q, what>> \in listing' => tree'[q] \in {what, "gone"}
    <3> SUFFICES ASSUME NEW q \in Name, NEW what \in Kind, <<q, what>> \in listing'
                 PROVE  tree'[q] \in {what, "gone"}
      OBVIOUS
    <3>1. tree[q] \in {what, "gone"} /\ what # "new"
      BY <1>3, <1>5 DEF WalkInv, Kind
    <3>2. QED
      BY <2>4, <3>1
  <2>6. Waiting' = Waiting /\ \A q : Listed(q, seen)' = Listed(q, seen)
    BY <1>3 DEF Waiting, Listed
  <2>7. \A q \in seen :
          /\ \E what \in Kind : <<q, what>> \in ever'
          /\ tree'[q] \notin {"link", "new"}
          /\ tree'[q] = "sealed" => q \in Range(pending')
    BY <1>3, <1>4, <2>1, <2>4 DEF Walked
  <2>8. Walked(seen)'
    BY <1>3, <2>1, <2>6, <2>7 DEF Walked
  <2>9. \E kept \in SUBSET Name : Walked(kept)'
    BY <2>8
  <2>10. /\ races' + 1 = attempt' /\ attempt' <= Local!Attempts
         /\ throughout' \subseteq Local!Entries'
         /\ \A q \in throughout' : Under[q] \in {Root} \cup throughout'
         /\ listing' \subseteq ever'
    BY <1>3, <1>4, <1>5, <2>2 DEF WalkInv
  <2>11. QED
    BY <2>3, <2>5, <2>9, <2>10 DEF WalkInv
<1>6. ResultInv'
  <2>1. ASSUME outcome = "counted"
        PROVE  \E seen \in SUBSET Name : Covered(seen)'
    <3>1. PICK seen \in SUBSET Name : Covered(seen)
      BY <2>1 DEF ResultInv
    <3>2. \A q \in seen : tree'[q] = tree[q]
      BY <1>1, <1>2, <3>1 DEF Covered, LocalTypes
    <3>3. Covered(seen)'
      BY <1>3, <1>4, <3>1, <3>2 DEF Covered
    <3>4. QED
      BY <3>3
  <2>2. ASSUME outcome = "overflow"
        PROVE  UNCHANGED <<ever, limit, races>>
    BY <1>1, <1>3, <2>2
  <2>3. QED
    BY <1>3, <2>1, <2>2 DEF ResultInv
<1>7. QED
  BY <1>3, <1>5, <1>6 DEF WalkInv

(* Removing an entry; its directory had to be empty.                        *)
LEMMA DeletionWalks ==
  ASSUME LocalTypes, WalkInv, ResultInv, NEW p \in Name, Local!Delete(p)
  PROVE  WalkInv' /\ ResultInv'
<1>1. /\ tree' = [tree EXCEPT ![p] = "gone"]
      /\ throughout' = IF outcome = "walking" THEN throughout \ {p} ELSE throughout
      /\ UNCHANGED <<outcome, attempt, pending, count, limit, listing, ever, races>>
      /\ \A q \in Local!Entries : Under[q] # p
  BY DEF Local!Delete
<1>2. /\ \A q \in Name : tree'[q] = tree[q] \/ tree'[q] = "gone"
      /\ Local!Entries' = Local!Entries \ {p}
  BY <1>1 DEF LocalTypes, Local!Entries, Local!Present
<1>3. ASSUME outcome = "walking"
      PROVE  WalkInv'
  <2>1. PICK seen \in SUBSET Name : Walked(seen)
    BY <1>3 DEF WalkInv
  <2>2. Local!Met(Local!Entries)' \subseteq ever'
    <3> SUFFICES ASSUME NEW q \in Local!Entries'
                 PROVE  <<q, tree'[q]>> \in ever'
      BY DEF Local!Met
    <3>1. q \in Local!Entries /\ tree'[q] = tree[q]
      BY <1>1, <1>2 DEF LocalTypes, Local!Entries
    <3>2. QED
      BY <1>1, <1>3, <3>1 DEF WalkInv, Local!Met
  <2>3. throughout' \subseteq Local!Entries'
    BY <1>1, <1>2, <1>3 DEF WalkInv
  <2>4. \A q \in throughout' : Under[q] \in {Root} \cup throughout'
    BY <1>1, <1>3 DEF WalkInv
  <2>5. \A q \in Name, what \in Kind :
          <<q, what>> \in listing' => tree'[q] \in {what, "gone"}
    BY <1>1, <1>2, <1>3 DEF WalkInv
  <2>6. Waiting' = Waiting /\ \A q : Listed(q, seen)' = Listed(q, seen)
    BY <1>1 DEF Waiting, Listed
  <2>7. \A q \in seen :
          /\ \E what \in Kind : <<q, what>> \in ever'
          /\ tree'[q] \notin {"link", "new"}
          /\ tree'[q] = "sealed" => q \in Range(pending')
    BY <1>1, <1>2, <2>1 DEF Walked
  <2>8. throughout' \subseteq throughout
    BY <1>1
  <2>9. Walked(seen)'
    BY <1>1, <2>1, <2>6, <2>7, <2>8 DEF Walked
  <2>10. \E kept \in SUBSET Name : Walked(kept)'
    BY <2>9
  <2>11. /\ races' + 1 = attempt' /\ attempt' <= Local!Attempts
         /\ listing' \subseteq ever'
    BY <1>1, <1>3 DEF WalkInv
  <2>12. QED
    BY <2>2, <2>3, <2>4, <2>5, <2>10, <2>11 DEF WalkInv
<1>4. ResultInv'
  <2>1. ASSUME outcome = "counted"
        PROVE  \E seen \in SUBSET Name : Covered(seen)'
    <3>1. PICK seen \in SUBSET Name : Covered(seen)
      BY <2>1 DEF ResultInv
    <3>2. Covered(seen)'
      BY <1>1, <1>2, <2>1, <3>1 DEF Covered, Local!Bad
    <3>3. QED
      BY <3>2
  <2>2. QED
    BY <1>1, <2>1 DEF ResultInv
<1>5. QED
  BY <1>1, <1>3, <1>4 DEF WalkInv

(* The walk in every kind of step.                                          *)
LEMMA WalkInductive ==
  ASSUME LocalTypes, QuietInv, TreeInv, WalkInv, ResultInv,
         Local!Next \/ UNCHANGED localVars
  PROVE  WalkInv' /\ ResultInv'
<1>1. CASE Begins
  <2>1. /\ Local!NewAttempt /\ UNCHANGED tree /\ outcome' = "walking"
        /\ attempt' = 1 /\ races' = 0
    BY <1>1 DEF Begins, Local!BeginScan
  <2>2. races' + 1 = attempt' /\ attempt' <= Local!Attempts
    BY <2>1 DEF Local!Attempts
  <2>3. QED
    BY <2>1, <2>2, NewAttemptWalks
<1>2. CASE GoesOn
  BY <1>2, ListingWalks, CountingWalks, EndingWalks DEF GoesOn, Local!Scan
<1>3. CASE IsRead
  BY <1>3 DEF IsRead, Local!TakeResult, WalkInv, ResultInv
<1>4. CASE Importer
  BY <1>4, CreationWalks, DeletionWalks DEF Importer, Local!Change
<1>5. CASE Builds
  BY <1>5 DEF Builds, Local!scan, WalkInv, ResultInv
<1>6. CASE Elsewhere
  <2>1. UNCHANGED <<tree, outcome, attempt, pending, count, limit, listing,
                    throughout, ever, races>>
    BY <1>6 DEF Elsewhere, Local!scan
  <2>2. /\ Local!Entries' = Local!Entries
        /\ Local!Met(Local!Entries)' = Local!Met(Local!Entries)
    BY <2>1 DEF Local!Entries, Local!Met, Local!Present
  <2>3. /\ \A seen : Walked(seen)' = Walked(seen)
        /\ \A seen : Covered(seen)' = Covered(seen)
    BY <2>1 DEF Walked, Covered, Waiting, Listed
  <2>4. QED
    BY <2>1, <2>2, <2>3 DEF WalkInv, ResultInv
<1>7. QED
  BY <1>1, <1>2, <1>3, <1>4, <1>5, <1>6, ScanCases

-----------------------------------------------------------------------------
(* A directory that the last walk passed is within its budget.             *)
LEMMA FinalWithinBudget ==
  ASSUME LocalTypes, ResultInv, outcome = "counted", count <= baseline + MaxCreated,
         throughout = Local!Entries
  PROVE  /\ Local!Cardinality(Local!Entries) <= baseline + MaxCreated
         /\ \A p \in Name : tree[p] \notin Local!Bad
<1>1. PICK seen \in SUBSET Name : Covered(seen)
  BY DEF ResultInv
<1>2. IsFiniteSet(seen) /\ Cardinality(seen) \in Nat /\ Cardinality(seen) = count
  BY <1>1, NameAssumption, FS_Subset, FS_CardinalityType DEF Covered
<1>3. Local!Entries \in SUBSET seen
  BY <1>1 DEF Covered
<1>4. /\ Cardinality(Local!Entries) <= Cardinality(seen)
      /\ Cardinality(Local!Entries) \in Nat
  BY <1>2, <1>3, FS_Subset, FS_CardinalityType
<1>5. Local!Cardinality(Local!Entries) = Cardinality(Local!Entries)
  BY DEF Cardinality, Local!Cardinality
<1>6. baseline + MaxCreated \in Nat
  BY LocalAssumption DEF LocalTypes
<1>7. Local!Cardinality(Local!Entries) <= baseline + MaxCreated
  BY <1>2, <1>4, <1>5, <1>6
<1>8. \A p \in Name : tree[p] \notin Local!Bad
  <2>1. ASSUME NEW p \in Name, tree[p] \in Local!Bad
        PROVE  FALSE
    <3>1. p \in Local!Entries
      BY <2>1 DEF Local!Bad, Local!Entries, Local!Present
    <3>2. QED
      BY <1>1, <1>3, <2>1, <3>1 DEF Covered
  <2>2. QED
    BY <2>1
<1>9. QED
  BY <1>7, <1>8

(* Each step of the call from the start of the importer on.                 *)
LEMMA RunInductive ==
  ASSUME LocalTypes, QuietInv, ResultInv, RunInv, Local!Next \/ UNCHANGED localVars
  PROVE  RunInv'
<1> USE DEF LocalTypes, Local!Goto
<1> DEFINE Loop ==
      /\ pc \in {"poll", "sample"} => termination = "exited"
      /\ pc = "wait" /\ termination = "exited" => child # "running"
      /\ pc \in {"final", "read", "returned"} => child # "running"
      /\ child = "survived" => escaped
      /\ pc = "final" => termination = "exited"
<1> DEFINE LastWalk ==
      pc = "final" /\ ~escaped /\ outcome \in {"walking", "counted"} =>
        throughout = Local!Entries
<1>1. RunInv = (Loop /\ LastWalk /\ Local!ExitedWithinBudget)
  BY DEF RunInv
<1>2. RunInv' = (Loop' /\ LastWalk' /\ Local!ExitedWithinBudget')
  BY DEF RunInv
<1>3. UNCHANGED tree =>
        /\ Local!Entries' = Local!Entries
        /\ UNCHANGED baseline =>
             (Local!Cardinality(Local!Entries) <= baseline + MaxCreated)'
               = (Local!Cardinality(Local!Entries) <= baseline + MaxCreated)
  BY DEF Local!Entries, Local!Present
\* before the start
<1>4. CASE \/ Local!Prepare \/ Local!Read \/ Local!Hashed \/ Local!MakeFiles
           \/ Local!CompareCopy \/ Local!WriteInput
  <2>1. /\ pc' \in Staging \cup {"baseline", "refused"}
        /\ pc \in Staging /\ UNCHANGED child
    BY <1>4 DEF Local!Prepare, Local!Read, Local!Hashed, Local!MakeFiles,
       Local!CompareCopy, Local!WriteInput, Staging
  <2>2. child' = "off"
    BY <2>1 DEF QuietInv
  <2>3. QED
    BY <1>2, <2>1, <2>2 DEF Staging, Local!ExitedWithinBudget
\* the measurements
<1>5. CASE Local!BeginAScan \/ Local!Walk
  <2>1. UNCHANGED Local!local /\ UNCHANGED tree /\ pc \in Scanning
    BY <1>5 DEF Local!BeginAScan, Local!Walk, Scanning, Local!Scan,
       Local!ListDirectory, Local!CountEntry, Local!EndScan
  <2>2. UNCHANGED <<pc, child, escaped, termination, baseline>>
    BY <2>1 DEF Local!local
  <2>3. Loop'
    BY <1>1, <2>2
  <2>4. \/ throughout' = Local!Entries
        \/ /\ throughout' = throughout /\ outcome = "walking"
        \/ outcome' \notin {"walking", "counted"}
    <3>1. CASE Local!BeginAScan
      BY <3>1 DEF Local!BeginAScan, Local!BeginScan, Local!NewAttempt
    <3>2. CASE Local!Walk
      <4>1. outcome = "walking"
        BY <3>2 DEF Local!Walk, Local!Scan, Local!ListDirectory,
           Local!CountEntry, Local!EndScan
      <4>2. CASE Local!Retry
        BY <4>1, <4>2 DEF Local!Retry, Local!NewAttempt
      <4>3. CASE ~Local!Retry
        BY <3>2, <4>1, <4>3 DEF Local!Walk, Local!Scan, Local!ListDirectory,
           Local!CountEntry, Local!EndScan, Local!Overflow, Local!LookAt
      <4>4. QED
        BY <4>2, <4>3
    <3>3. QED
      BY <1>5, <3>1, <3>2
  <2>5. LastWalk'
    BY <1>1, <1>3, <2>1, <2>2, <2>4
  <2>6. Local!ExitedWithinBudget'
    BY <2>1, <2>2 DEF Scanning, Local!ExitedWithinBudget
  <2>7. QED
    BY <1>2, <2>3, <2>5, <2>6
<1>6. CASE Local!TakeBaseline \/ Local!TakeSample
  <2>1. /\ pc \in {"baseline", "sample"} /\ pc' \in {"refused", "poll", "wait"}
        /\ pc' = "poll" => termination' = "exited"
        /\ pc' = "wait" => termination' = "file_limit"
        /\ child' \in {child, "running"} /\ UNCHANGED escaped
    BY <1>1, <1>6 DEF Local!TakeBaseline, Local!TakeSample
  <2>2. QED
    BY <1>1, <1>2, <2>1 DEF Local!ExitedWithinBudget
<1>7. CASE Local!TakeFinal
  <2>1. /\ pc = "final" /\ pc' = "read" /\ Local!Scanned
        /\ termination' = IF Local!TooMuch THEN "file_limit" ELSE termination
        /\ UNCHANGED <<tree, child, escaped, baseline>>
    BY <1>7 DEF Local!TakeFinal
  <2>2. ASSUME termination' = "exited", ~escaped
        PROVE  /\ Local!Cardinality(Local!Entries) <= baseline + MaxCreated
               /\ \A p \in Name : tree[p] \notin Local!Bad
    <3>1. outcome = "counted" /\ ~(count > baseline + MaxCreated)
      BY <2>1, <2>2 DEF Local!Scanned, Local!TooMuch
    <3>2. count <= baseline + MaxCreated
      BY <3>1, LocalAssumption
    <3>3. throughout = Local!Entries
      BY <1>1, <2>1, <2>2, <3>1
    <3>4. QED
      BY <3>1, <3>2, <3>3, FinalWithinBudget
  <2>3. Local!ExitedWithinBudget'
    BY <1>3, <2>1, <2>2 DEF Local!ExitedWithinBudget
  <2>4. QED
    BY <1>1, <1>2, <2>1, <2>3
\* the loop and the end
<1>8. CASE Local!Poll
  BY <1>1, <1>2, <1>8 DEF Local!Poll, Local!ExitedWithinBudget
<1>9. CASE Local!Wait
  <2>1. /\ pc = "wait"
        /\ pc' = IF termination = "exited" THEN "final" ELSE "read"
        /\ UNCHANGED <<tree, termination, outcome>>
    BY <1>9 DEF Local!Wait, Local!AfterWait, Local!scan
  <2>2. /\ child' # "running"
        /\ child' = "survived" => escaped'
    BY <1>1, <1>9 DEF Local!Wait
  <2>3. outcome' = "off"
    BY <2>1 DEF QuietInv, Scanning
  <2>4. QED
    BY <1>1, <1>2, <2>1, <2>2, <2>3 DEF Local!ExitedWithinBudget
<1>10. CASE Local!ReadOutput
  <2>1. /\ pc = "read" /\ pc' \in {"returned", "refused"}
        /\ UNCHANGED <<tree, baseline, termination, child, escaped>>
    BY <1>10 DEF Local!ReadOutput
  <2>2. Local!ExitedWithinBudget'
    BY <1>1, <1>3, <2>1 DEF Local!ExitedWithinBudget
  <2>3. QED
    BY <1>1, <1>2, <2>1, <2>2
\* the others
<1>11. CASE Local!Works
  <2>1. /\ UNCHANGED Local!local /\ UNCHANGED outcome
        /\ child \in {"running", "survived"}
    BY <1>11, ChangeTyped DEF Local!Works
  <2>2. UNCHANGED <<pc, child, escaped, termination>>
    BY <2>1 DEF Local!local
  <2>3. QED
    BY <1>1, <1>2, <2>1, <2>2 DEF Local!ExitedWithinBudget
<1>12. CASE Local!Ends
  <2>1. /\ child \in {"running", "survived"} /\ child' \in {"survived", "ended"}
        /\ child' = "survived" => escaped'
        /\ child = "survived" => UNCHANGED escaped
        /\ UNCHANGED <<tree, pc, termination, outcome, throughout>>
    BY <1>12 DEF Local!Ends, Local!scan
  <2>2. QED
    BY <1>1, <1>2, <2>1 DEF Local!ExitedWithinBudget
<1>13. CASE Local!Expire \/ Local!Edit \/ UNCHANGED localVars
  <2>1. UNCHANGED <<tree, pc, termination, outcome, throughout, child, escaped,
                    baseline>>
    BY <1>13 DEF Local!Expire, Local!Edit, Local!scan, localVars
  <2>2. Local!ExitedWithinBudget'
    BY <1>1, <1>3, <2>1 DEF Local!ExitedWithinBudget
  <2>3. QED
    BY <1>1, <1>2, <1>3, <2>1, <2>2
<1>14. QED
  BY <1>4, <1>5, <1>6, <1>7, <1>8, <1>9, <1>10, <1>11, <1>12, <1>13
     DEF Local!Next, Local!Step

-----------------------------------------------------------------------------
(* An empty workspace, nothing read and nothing walked.                     *)
LEMMA LocalInit ==
  ASSUME Init
  PROVE  LocalInv
<1>1. /\ tree = [p \in Name |-> "new"] /\ Local!ScanInit
      /\ pc = "look" /\ source = Local!First /\ got = <<>>
      /\ baseline = 0 /\ child = "off" /\ escaped = FALSE
  BY DEF Init, Local!Init
<1>2. LocalTypes
  <2>1. <<>> \in Seq(Name \cup {Root})
    OBVIOUS
  <2>2. QED
    BY <1>1, <2>1 DEF LocalTypes, LocalPlace, Local!ScanInit
<1>3. StageInv
  BY <1>1, LocalAssumption DEF StageInv, Staging, Content, Local!First
<1>4. QuietInv
  BY <1>1 DEF QuietInv, Staging, Scanning, Local!ScanInit
<1>5. TreeInv
  BY <1>1 DEF TreeInv, Local!Present
<1>6. WalkInv /\ ResultInv
  BY <1>1 DEF WalkInv, ResultInv, Local!ScanInit
<1>7. RunInv
  BY <1>1 DEF RunInv, Local!ExitedWithinBudget
<1>8. QED
  BY <1>2, <1>3, <1>4, <1>5, <1>6, <1>7 DEF LocalInv

(* The seven parts are inductive together.                                  *)
LEMMA LocalInvariant == Spec => []LocalInv
<1>1. Init => LocalInv
  BY LocalInit
<1>2. LocalInv /\ [Next]_vars => LocalInv'
  <2> SUFFICES ASSUME LocalInv, [Next]_vars
               PROVE  LocalInv'
    OBVIOUS
  <2>1. Local!Next \/ UNCHANGED localVars
    BY StepsOfLocal
  <2>2. LocalTypes' /\ StageInv' /\ QuietInv'
    BY <2>1, TypesInductive, StageInductive, QuietInductive DEF LocalInv
  <2>3. TreeInv' /\ RunInv'
    BY <2>1, TreeInductive, RunInductive DEF LocalInv
  <2>4. WalkInv' /\ ResultInv'
    BY <2>1, WalkInductive DEF LocalInv
  <2>5. QED
    BY <2>2, <2>3, <2>4 DEF LocalInv
<1>3. QED
  BY <1>1, <1>2, PTL DEF Spec

(* The staged file is the argument file as it was as a whole at one moment *)
(* of the staging, although it is hashed and copied in chunks while it may *)
(* be edited (_stage_local_command).                                       *)
THEOREM StagedCopyIsASnapshot == Spec => []StagedIsASnapshot
<1>1. LocalInv => StagedIsASnapshot
  BY DEF LocalInv, StageInv, StagedIsASnapshot, Local!StagedIsASnapshot
<1>2. QED
  BY <1>1, LocalInvariant, PTL

(* A scan that succeeds counted what was there throughout its last attempt *)
(* and nothing that was not there during it, each entry once; one that is  *)
(* given up was for a reason in the directory, or lost an entry in each of *)
(* its attempts (_directory_usage).                                        *)
THEOREM ScansTellTheTruth == Spec => []ScanTellsTheTruth
<1>1. LocalInv => ScanTellsTheTruth
  <2> SUFFICES ASSUME LocalInv
               PROVE  ScanTellsTheTruth
    OBVIOUS
  <2>1. ASSUME outcome = "counted"
        PROVE  /\ Local!Cardinality(throughout) <= count
               /\ count <= Local!Cardinality(ever)
    <3>1. PICK seen \in SUBSET Name : Covered(seen)
      BY <2>1 DEF LocalInv, ResultInv
    <3>2. /\ IsFiniteSet(seen) /\ Cardinality(seen) = count
          /\ Cardinality(seen) <= Cardinality(ever)
      BY <3>1, SeenWereThere DEF LocalInv, Covered
    <3>3. throughout \in SUBSET seen
      BY <3>1 DEF Covered
    <3>4. Cardinality(throughout) <= count
      BY <3>2, <3>3, FS_Subset
    <3>5. /\ Local!Cardinality(throughout) = Cardinality(throughout)
          /\ Local!Cardinality(ever) = Cardinality(ever)
      BY DEF Cardinality, Local!Cardinality
    <3>6. QED
      BY <3>2, <3>4, <3>5
  <2>2. ASSUME outcome = "overflow"
        PROVE  \/ races = Local!Attempts \/ Local!Cardinality(ever) > limit
               \/ \E entry \in ever : entry[2] \in Local!Bad
    <3>1. Local!Cardinality(ever) = Cardinality(ever)
      BY DEF Cardinality, Local!Cardinality
    <3>2. QED
      BY <2>2, <3>1 DEF LocalInv, ResultInv
  <2>3. QED
    BY <2>1, <2>2 DEF ScanTellsTheTruth, Local!ScanTellsTheTruth
<1>2. QED
  BY <1>1, LocalInvariant, PTL

(* A run that is reported as exited, and left no process behind, left no   *)
(* more entries than it may create, none of them a link or closed to the   *)
(* walk, whatever it did between two samples (run_bounded_process).        *)
THEOREM ExitedRunsAreWithinBudget == Spec => []ExitedWithinBudget
<1>1. LocalInv => ExitedWithinBudget
  BY DEF LocalInv, RunInv, ExitedWithinBudget
<1>2. QED
  BY <1>1, LocalInvariant, PTL

===============================================================================
