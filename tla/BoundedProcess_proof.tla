------------------------- MODULE BoundedProcess_proof -------------------------
(***************************************************************************)
(* Theorems about BoundedProcess, for every output budget, every amount of *)
(* output and size of pipes, all limits, and descendants that may or may   *)
(* not leave the process group of the child.                               *)
(***************************************************************************)
EXTENDS BoundedProcess, TLAPS

(* The shared budget: what is counted is what is kept, only the reader that*)
(* holds the lock has read what is left, and as long as nothing was cut    *)
(* every unit written is in the pipe, in a chunk or kept.                  *)
BudgetInv ==
  /\ total = kept["stdout"] + kept["stderr"] /\ total <= MaxOutput
  /\ \A s \in Streams :
       /\ reader[s] = "counting" <=> lock = s
       /\ reader[s] = "counting" => room[s] = MaxOutput - total
       /\ reader[s] \in {"reading", "ended"} => chunk[s] = 0
       /\ pipe[s] + chunk[s] + kept[s] <= written[s]
       /\ ~flag => pipe[s] + chunk[s] + kept[s] = written[s]
  /\ flag => total = MaxOutput /\ written["stdout"] + written["stderr"] > MaxOutput

Monitoring == {"poll", "checkFlag", "checkClock", "sample", "scan"}
AfterContainment == {"joinOut", "joinErr", "joinIn", "closeOut", "closeErr",
                     "lateFlag", "lateScan", "returned"}

(* The caller: where a child it did not kill has ended, and what the       *)
(* termination says.                                                       *)
CallerInv ==
  /\ pc = "start" => child = "none"
  /\ pc \in {"start"} \cup Monitoring => term = "exited" /\ ~killed
  /\ pc \in {"list", "kill", "listAgain", "killAgain", "waitAgain"} =>
       term # "exited"
  /\ pc = "wait" /\ term = "exited" => child = "dead" /\ ~killed
  /\ pc \in {"contain"} \cup AfterContainment =>
       child = "dead" /\ (term = "exited" => returncode = "exit")
  /\ pc \in AfterContainment => ~(helper = "running" /\ inGroup)
  /\ term = "output_limit" => flag

(* A reader whose thread was joined has read everything, unless it cut or  *)
(* a process that left the group keeps its pipe open.                      *)
Joined(s) ==
  \/ s = "stdout" /\ pc \in AfterContainment \ {"joinOut"}
  \/ s = "stderr" /\ pc \in AfterContainment \ {"joinOut", "joinErr"}

JoinedInv ==
  /\ helper = "none" => inGroup
  /\ inGroup =>
      /\ \A s \in Streams :
           /\ Joined(s) => reader[s] = "ended"
           /\ reader[s] = "ended" /\ ~flag =>
                pipe[s] = 0 /\ child # "none" /\ ~Writers
      /\ pc \in {"lateScan", "returned"} /\ term = "exited" => ~flag
      /\ pc = "returned" /\ term = "exited" => ~overgrown

-----------------------------------------------------------------------------
(* The type invariant, by the process that a variable belongs to.          *)
CallerType ==
  /\ pc \in {"start", "poll", "checkFlag", "checkClock", "sample", "scan",
             "list", "kill", "wait", "listAgain", "killAgain", "waitAgain",
             "contain", "joinOut", "joinErr", "joinIn", "closeOut", "closeErr",
             "lateFlag", "lateScan", "returned", "raised"}
  /\ term \in Termination
  /\ returncode \in {"none", "exit", "signal"}
  /\ listed \in BOOLEAN

ReaderType ==
  /\ reader \in [Streams -> {"reading", "waiting", "counting", "ended"}]
  /\ chunk \in [Streams -> Nat] /\ room \in [Streams -> Nat]
  /\ kept \in [Streams -> Nat] /\ total \in Nat
  /\ lock \in Streams \cup {"free"}
  /\ flag \in BOOLEAN
  /\ pipe \in [Streams -> Nat] /\ written \in [Streams -> Nat]

FamilyType ==
  /\ feeder \in {"writing", "ended"}
  /\ child \in {"none", "running", "dying", "dead"} /\ killed \in BOOLEAN
  /\ helper \in {"none", "running", "dead"}
  /\ orphan \in BOOLEAN /\ inGroup \in BOOLEAN
  /\ expired \in BOOLEAN /\ overgrown \in BOOLEAN

(* The types by who changes the variables.                                  *)
LEMMA TypeParts == TypeOK <=> CallerType /\ ReaderType /\ FamilyType
BY DEF TypeOK, CallerType, ReaderType, FamilyType

(* Steps of the calling thread leave the readers and the pipes alone.       *)
LEMMA CallerTyped ==
  ASSUME CallerType, FamilyType, Refuse \/ Caller \/ SampleExceeded
  PROVE  CallerType' /\ FamilyType' /\ UNCHANGED <<readers, pipes>>
<1> USE DEF CallerType, FamilyType, Goto, Continue, Break, elsewhere, family,
        Termination
<1>1. CASE Refuse \/ Start \/ Poll \/ CheckFlag \/ CheckClock
  BY <1>1 DEF Refuse, Start, Poll, CheckFlag, CheckClock
<1>2. CASE SampleExceeded \/ SampleWithin \/ Scan
  BY <1>2 DEF SampleExceeded, SampleWithin, Scan
<1>3. CASE ListTree \/ KillTree
  <2>1. CASE ListTree
    BY <2>1 DEF ListTree
  <2>2. CASE KillTree
    <3>1. /\ pc' \in {"wait", "waitAgain"}
          /\ helper' \in {helper, "dead"} /\ child' \in {child, "dying"}
          /\ UNCHANGED <<term, returncode, listed, orphan, inGroup, readers,
                         feeder, pipes, expired, overgrown>>
      BY <2>2 DEF KillTree
    <3>2. killed' \in BOOLEAN
      BY <2>2 DEF KillTree
    <3>3. QED
      BY <3>1, <3>2
  <2>3. QED
    BY <1>3, <2>1, <2>2
<1>4. CASE Wait \/ WaitTimesOut \/ Contain
  BY <1>4 DEF Wait, WaitTimesOut, Contain, Contained
<1>5. CASE JoinAndClose
  BY <1>5 DEF JoinAndClose, Join, Close
<1>6. CASE LateFlag \/ LateScan
  BY <1>6 DEF LateFlag, LateScan
<1>7. QED
  BY <1>1, <1>2, <1>3, <1>4, <1>5, <1>6 DEF Caller

(* Steps of the child, its descendant and the clock.                        *)
LEMMA FamilyTyped ==
  ASSUME FamilyType, Fed \/ Resize \/ Spawn \/ Exit \/ Die \/ EndHelper
                       \/ Expire
  PROVE  FamilyType' /\ UNCHANGED <<caller, readers, pipes>>
<1> USE DEF FamilyType, family
<1>1. CASE Fed \/ Resize \/ EndHelper \/ Expire
  BY <1>1 DEF Fed, Resize, EndHelper, Expire
<1>2. CASE Spawn \/ Exit \/ Die
  BY <1>2 DEF Spawn, Exit, Die, EndChild
<1>3. QED
  BY <1>1, <1>2

(* Steps at one stream; what a reader keeps is what room there was.         *)
LEMMA StreamTyped ==
  ASSUME ReaderType, BudgetInv, NEW s \in Streams, Reader(s) \/ Write(s)
  PROVE  /\ ReaderType'
         /\ UNCHANGED <<caller, feeder, family, expired, overgrown>>
<1> USE DEF ReaderType, unread, pipes, readers
<1>1. CASE Read(s) \/ EndReader(s)
  BY <1>1 DEF Read, EndReader
<1>2. CASE Acquire(s)
  <2>1. MaxOutput - total \in Nat
    BY ProcessAssumption DEF BudgetInv
  <2>2. QED
    BY <1>2, <2>1 DEF Acquire
<1>3. CASE Count(s)
  BY <1>3 DEF Count
<1>4. CASE Write(s)
  BY <1>4 DEF Write
<1>5. QED
  BY <1>1, <1>2, <1>3, <1>4 DEF Reader

(* Every step is of one of these three kinds.                               *)
LEMMA StepKinds ==
  ASSUME [Next]_vars
  PROVE  \/ Refuse \/ Caller \/ SampleExceeded
         \/ Fed \/ Resize \/ Spawn \/ Exit \/ Die \/ EndHelper \/ Expire
         \/ \E s \in Streams : Reader(s) \/ Write(s)
         \/ UNCHANGED vars
BY DEF Next

(* Each kind of step keeps the types of all three.                          *)
LEMMA TypeInductive ==
  ASSUME TypeOK, BudgetInv, [Next]_vars
  PROVE  TypeOK'
<1> SUFFICES CallerType' /\ ReaderType' /\ FamilyType'
  BY DEF TypeOK, CallerType, ReaderType, FamilyType
<1>0. CallerType /\ ReaderType /\ FamilyType
  BY TypeParts
<1>1. CASE Refuse \/ Caller \/ SampleExceeded
  BY <1>0, <1>1, CallerTyped DEF ReaderType, readers, pipes
<1>2. CASE Fed \/ Resize \/ Spawn \/ Exit \/ Die \/ EndHelper \/ Expire
  BY <1>0, <1>2, FamilyTyped DEF ReaderType, CallerType, readers, pipes, caller
<1>3. ASSUME NEW s \in Streams, Reader(s) \/ Write(s)
      PROVE  CallerType' /\ ReaderType' /\ FamilyType'
  BY <1>0, <1>3, StreamTyped DEF CallerType, FamilyType, caller, family
<1>4. CASE UNCHANGED vars
  BY <1>0, <1>4
     DEF vars, caller, readers, family, pipes, CallerType, ReaderType,
     FamilyType
<1>5. QED
  BY <1>1, <1>2, <1>3, <1>4, StepKinds

-----------------------------------------------------------------------------
(* The budget.                                                             *)

(* The lock is what makes the budget hold: only its holder counts.          *)
LEMMA BudgetInductive ==
  ASSUME TypeOK, BudgetInv, [Next]_vars
  PROVE  BudgetInv'
<1> USE DEF pipes, readers
<1>1. CASE Refuse \/ Caller \/ SampleExceeded
  BY <1>1, TypeParts, CallerTyped DEF BudgetInv
<1>2. CASE Fed \/ Resize \/ Spawn \/ Exit \/ Die \/ EndHelper \/ Expire
  BY <1>2, TypeParts, FamilyTyped DEF BudgetInv
<1>3. ASSUME NEW s \in Streams, Read(s) \/ EndReader(s)
      PROVE  BudgetInv'
  BY <1>3 DEF Read, EndReader, unread, TypeOK, BudgetInv
<1>4. ASSUME NEW s \in Streams, Acquire(s)
      PROVE  BudgetInv'
  BY <1>4 DEF Acquire, LockFree, unread, TypeOK, BudgetInv, Streams
<1>5. ASSUME NEW s \in Streams, Count(s)
      PROVE  BudgetInv'
  <2> DEFINE accepted == IF chunk[s] > room[s] THEN room[s] ELSE chunk[s]
  <2>1. /\ accepted \in Nat /\ accepted <= chunk[s]
        /\ total + accepted <= MaxOutput
        /\ Cuts(s) => total + accepted = MaxOutput /\ accepted < chunk[s]
        /\ ~Cuts(s) => accepted = chunk[s]
    BY <1>5, ProcessAssumption DEF Count, Cuts, TypeOK, BudgetInv
  <2>2. /\ reader[s] = "counting"
        /\ kept' = [kept EXCEPT ![s] = @ + accepted]
        /\ total' = total + accepted
        /\ lock' = "free"
        /\ chunk' = [chunk EXCEPT ![s] = 0]
        /\ flag' = (flag \/ Cuts(s))
        /\ reader' = [reader EXCEPT ![s] = IF Cuts(s) THEN "ended" ELSE "reading"]
        /\ UNCHANGED <<pipe, room, written>>
    BY <1>5 DEF Count, unread
  <2> HIDE DEF accepted
  <2>3. \A t \in Streams \ {s} : reader[t] # "counting"
    BY <2>2 DEF BudgetInv, Streams
  <2>4. total' = kept'["stdout"] + kept'["stderr"] /\ total' <= MaxOutput
    BY <2>1, <2>2 DEF BudgetInv, TypeOK, Streams
  <2>5. ASSUME NEW t \in Streams
        PROVE  /\ reader'[t] = "counting" <=> lock' = t
               /\ reader'[t] = "counting" => room'[t] = MaxOutput - total'
               /\ reader'[t] \in {"reading", "ended"} => chunk'[t] = 0
               /\ pipe'[t] + chunk'[t] + kept'[t] <= written'[t]
               /\ ~flag' => pipe'[t] + chunk'[t] + kept'[t] = written'[t]
    <3>1. CASE t = s
      <4>1. /\ pipe[s] \in Nat /\ chunk[s] \in Nat /\ kept[s] \in Nat
            /\ written[s] \in Nat
            /\ pipe[s] + chunk[s] + kept[s] <= written[s]
            /\ ~flag => pipe[s] + chunk[s] + kept[s] = written[s]
        BY DEF TypeOK, BudgetInv
      <4>2. /\ reader'[s] # "counting" /\ lock' = "free" /\ s # "free"
            /\ chunk'[s] = 0 /\ kept'[s] = kept[s] + accepted
            /\ pipe'[s] = pipe[s] /\ written'[s] = written[s]
        BY <2>2 DEF TypeOK, Streams
      <4>3. ~flag' => ~flag /\ accepted = chunk[s]
        BY <2>1, <2>2
      <4>4. accepted \in Nat /\ accepted <= chunk[s]
        BY <2>1
      <4>5. /\ pipe'[s] + chunk'[s] + kept'[s] <= written'[s]
            /\ ~flag' => pipe'[s] + chunk'[s] + kept'[s] = written'[s]
        BY ONLY <4>1, <4>2, <4>3, <4>4
      <4>6. QED
        BY <3>1, <4>2, <4>5
    <3>2. CASE t # s
      BY <2>2, <2>3, <3>2 DEF BudgetInv, TypeOK, Streams
    <3>3. QED
      BY <3>1, <3>2
  <2>6. flag' => /\ total' = MaxOutput
                 /\ written'["stdout"] + written'["stderr"] > MaxOutput
    <3>1. CASE flag
      BY <2>1, <2>2, <3>1, ProcessAssumption DEF BudgetInv, TypeOK
    <3>2. CASE ~flag /\ Cuts(s)
      <4>1. /\ pipe["stdout"] + chunk["stdout"] + kept["stdout"] = written["stdout"]
            /\ pipe["stderr"] + chunk["stderr"] + kept["stderr"] = written["stderr"]
        BY <3>2 DEF BudgetInv, Streams
      <4>2. chunk["stdout"] + chunk["stderr"] >= chunk[s]
        BY DEF TypeOK, Streams
      <4>3. /\ pipe["stdout"] \in Nat /\ pipe["stderr"] \in Nat
            /\ kept["stdout"] \in Nat /\ kept["stderr"] \in Nat
            /\ chunk["stdout"] \in Nat /\ chunk["stderr"] \in Nat
            /\ chunk[s] \in Nat
        BY DEF TypeOK, Streams
      <4>4. total = kept["stdout"] + kept["stderr"]
        BY DEF BudgetInv
      <4>5. /\ total + accepted = MaxOutput /\ accepted < chunk[s]
            /\ accepted \in Nat /\ total' = total + accepted
            /\ UNCHANGED written
        BY <2>1, <2>2, <3>2
      <4>6. QED
        BY ONLY <4>1, <4>2, <4>3, <4>4, <4>5
    <3>3. QED
      BY <2>2, <3>1, <3>2
  <2>7. QED
    BY <2>4, <2>5, <2>6 DEF BudgetInv
<1>6. ASSUME NEW s \in Streams, Write(s)
      PROVE  BudgetInv'
  BY <1>6 DEF Write, TypeOK, BudgetInv, Streams
<1>7. CASE UNCHANGED vars
  BY <1>7 DEF vars, BudgetInv
<1>8. QED
  BY <1>1, <1>2, <1>3, <1>4, <1>5, <1>6, <1>7, StepKinds DEF Reader

(* Types and budget are inductive together.                                 *)
LEMMA BudgetInvariant == Spec => [](TypeOK /\ BudgetInv)
<1>1. Init => TypeOK
  <2> SUFFICES ASSUME Init
               PROVE  CallerType /\ ReaderType /\ FamilyType
    BY TypeParts
  <2>1. CallerType /\ FamilyType
    BY DEF Init, CallerType, FamilyType, Termination
  <2>2. ReaderType
    BY DEF Init, ReaderType
  <2>3. QED
    BY <2>1, <2>2
<1>2. Init => BudgetInv
  BY ProcessAssumption DEF Init, BudgetInv, Streams
<1>3. (TypeOK /\ BudgetInv) /\ [Next]_vars => (TypeOK /\ BudgetInv)'
  BY TypeInductive, BudgetInductive
<1>4. QED
  BY <1>1, <1>2, <1>3, PTL DEF Spec

(* The variables only take values of their types; in particular no reader  *)
(* ever finds less than nothing left of the budget (read_stream).          *)
THEOREM TypeCorrect == Spec => []TypeOK
BY BudgetInvariant, PTL

(* The two readers together never keep more than max_output_bytes.         *)
THEOREM OutputIsBounded == Spec => []OutputBounded
<1>1. BudgetInv => OutputBounded
  BY DEF BudgetInv, OutputBounded
<1>2. QED
  BY <1>1, BudgetInvariant, PTL

-----------------------------------------------------------------------------
(* The caller. *)

(* What the caller does to the processes, and where it goes.               *)
LEMMA CallerSteps ==
  ASSUME TypeOK, CallerInv, Refuse \/ Caller \/ SampleExceeded
  PROVE  /\ CallerInv'
         /\ UNCHANGED <<elsewhere, orphan, inGroup>>
         /\ child = "dead" => child' = "dead"
         /\ helper' = helper \/ helper' = "dead"
         /\ child' = child \/ (pc = "start" /\ child' = "running")
              \/ child' = "dying"
<1> USE DEF Goto, Continue, Break, elsewhere, readers, family, CallerInv,
        Monitoring, AfterContainment
<1>1. CASE Refuse \/ Start \/ Poll
  BY <1>1 DEF Refuse, Start, Poll, HasEnded
<1>2. CASE CheckFlag \/ CheckClock \/ Scan \/ SampleWithin
  BY <1>2 DEF CheckFlag, CheckClock, Scan, SampleWithin
<1>3. CASE SampleExceeded
  BY <1>3, LimitsAssumption DEF SampleExceeded
<1>4. CASE ListTree \/ KillTree
  BY <1>4 DEF ListTree, KillTree
<1>5. CASE Wait \/ WaitTimesOut \/ Contain
  BY <1>5 DEF Wait, WaitTimesOut, Contain, Contained
<1>6. CASE JoinAndClose
  BY <1>6 DEF JoinAndClose, Join, Close
<1>7. CASE LateFlag \/ LateScan
  BY <1>7 DEF LateFlag, LateScan
<1>8. QED
  BY <1>1, <1>2, <1>3, <1>4, <1>5, <1>6, <1>7 DEF Caller

(* What the environment can do to the child and its group.                  *)
LEMMA FamilySteps ==
  ASSUME TypeOK, Fed \/ Resize \/ Spawn \/ Exit \/ Die \/ EndHelper
                   \/ Expire
  PROVE  /\ UNCHANGED <<caller, readers, pipes, killed>>
         /\ child' = child \/ (child # "none" /\ child' = "dead")
         /\ helper' = helper \/ helper' = "dead" \/ child = "running"
         /\ \/ inGroup' = inGroup
            \/ helper = "none" /\ child = "running" /\ helper' = "running"
         /\ overgrown' = overgrown \/ Writers
BY DEF Fed, Resize, Spawn, Exit, Die, EndHelper, Expire, EndChild, family,
   Writers

(* A reader never takes the limit flag back.                                *)
LEMMA StreamSteps ==
  ASSUME NEW s \in Streams, Reader(s) \/ Write(s)
  PROVE  /\ UNCHANGED <<caller, feeder, family, expired, overgrown>>
         /\ flag => flag'
<1> USE DEF unread, readers, pipes
<1>1. CASE Read(s) \/ EndReader(s) \/ Acquire(s) \/ Write(s)
  BY <1>1 DEF Read, EndReader, Acquire, Write
<1>2. CASE Count(s)
  BY <1>2 DEF Count
<1>3. QED
  BY <1>1, <1>2 DEF Reader

(* The calling thread's knowledge survives every other step.                *)
LEMMA CallerInductive ==
  ASSUME TypeOK, CallerInv, [Next]_vars
  PROVE  CallerInv'
<1>1. CASE Refuse \/ Caller \/ SampleExceeded
  BY <1>1, CallerSteps
<1>2. CASE Fed \/ Resize \/ Spawn \/ Exit \/ Die \/ EndHelper \/ Expire
  BY <1>2, FamilySteps
     DEF CallerInv, caller, readers, Monitoring, AfterContainment
<1>3. ASSUME NEW s \in Streams, Reader(s) \/ Write(s)
      PROVE  CallerInv'
  BY <1>3, StreamSteps
     DEF CallerInv, caller, family, Monitoring, AfterContainment
<1>4. CASE UNCHANGED vars
  BY <1>4 DEF vars, caller, readers, family, CallerInv
<1>5. QED
  BY <1>1, <1>2, <1>3, <1>4, StepKinds

(* CallerInv holds in every behaviour.                                      *)
LEMMA CallerInvariant == Spec => []CallerInv
<1>1. Init => CallerInv
  BY DEF Init, CallerInv, Monitoring, AfterContainment
<1>2. TypeOK /\ CallerInv /\ [Next]_vars => CallerInv'
  BY CallerInductive
<1>3. QED
  BY <1>1, <1>2, BudgetInvariant, PTL DEF Spec

(* A result "output_limit" carries exactly the budget, and more was written*)
(* (run_bounded_process looks at the flag of the readers twice).           *)
THEOREM LimitIsJustified == Spec => []LimitIsExact
<1>1. BudgetInv /\ CallerInv => LimitIsExact
  BY DEF BudgetInv, CallerInv, LimitIsExact
<1>2. QED
  BY <1>1, BudgetInvariant, CallerInvariant, PTL

(* The caller never reports the status of a child that it killed as its    *)
(* own exit.                                                               *)
THEOREM ExitStatusIsTheChilds == Spec => []ExitIsTheChilds
<1>1. CallerInv => ExitIsTheChilds
  BY DEF CallerInv, AfterContainment, ExitIsTheChilds
<1>2. QED
  BY <1>1, CallerInvariant, PTL

(* No process of the child's group outlives the call, whichever of them    *)
(* ended first.                                                            *)
THEOREM GroupIsGone == Spec => []NoGroupMemberLeft
<1>1. CallerInv => NoGroupMemberLeft
  BY DEF CallerInv, AfterContainment, NoGroupMemberLeft
<1>2. QED
  BY <1>1, CallerInvariant, PTL

-----------------------------------------------------------------------------
(* Nothing that was written before the readers were joined is missed.      *)

(* What a joined reader has seen stays all there is to see.                 *)
LEMMA JoinedInductive ==
  ASSUME TypeOK, CallerInv, JoinedInv, [Next]_vars
  PROVE  JoinedInv'
<1>1. CASE Refuse \/ Caller \/ SampleExceeded
  <2>1. /\ UNCHANGED <<reader, flag, pipe, overgrown, inGroup>>
        /\ child # "none" /\ ~Writers => child' # "none" /\ ~Writers'
        /\ helper' = helper \/ helper' = "dead"
    BY <1>1, CallerSteps DEF elsewhere, readers, pipes, Writers, CallerInv
  <2>2. /\ pc' \in AfterContainment \ {"joinOut"} => pc \in AfterContainment
        /\ pc' \in AfterContainment \ {"joinOut", "joinErr"} =>
             pc \in AfterContainment \ {"joinOut"}
    BY <1>1
       DEF AfterContainment, Refuse, Caller, Start, Poll, CheckFlag, CheckClock,
       SampleExceeded, SampleWithin, Scan, ListTree, KillTree, Wait,
       WaitTimesOut, Contain, JoinAndClose, Join, Close, LateFlag, LateScan,
       Goto, Continue, Break
  <2>3. ASSUME inGroup, NEW s \in Streams, Joined(s)'
        PROVE  reader[s] = "ended"
    <3>1. CASE Joined(s)
      BY <2>3, <3>1 DEF JoinedInv
    <3>2. CASE ~Joined(s)
      <4>1. \/ s = "stdout" /\ pc = "joinOut"
            \/ s = "stderr" /\ pc = "joinErr"
        BY <2>2, <2>3, <3>2 DEF Joined, AfterContainment
      <4>2. helper # "running"
        BY <2>3, <4>1 DEF CallerInv, AfterContainment
      <4>3. QED
        BY <1>1, <2>3, <3>2, <4>1, <4>2
           DEF Joined, AfterContainment, Streams, Refuse, Caller, Start, Poll,
           CheckFlag, CheckClock, SampleExceeded, SampleWithin, Scan, ListTree,
           KillTree, Wait, WaitTimesOut, Contain, JoinAndClose, Join, Close,
           LateFlag, LateScan, Goto, Continue, Break
    <3>3. QED
      BY <3>1, <3>2
  <2>4. /\ pc' \in {"lateScan", "returned"} /\ term' = "exited" =>
             (pc \in {"lateScan", "returned"} /\ term = "exited") \/ ~flag
        /\ pc' = "returned" /\ term' = "exited" =>
             (pc = "returned" /\ term = "exited") \/ ~overgrown
    BY <1>1
       DEF Refuse, Caller, Start, Poll, CheckFlag, CheckClock, SampleExceeded,
       SampleWithin, Scan, ListTree, KillTree, Wait, WaitTimesOut, Contain,
       JoinAndClose, Join, Close, LateFlag, LateScan, Goto, Continue, Break
  <2>5. QED
    BY <2>1, <2>3, <2>4 DEF JoinedInv
<1>2. CASE Fed \/ Resize \/ Spawn \/ Exit \/ Die \/ EndHelper \/ Expire
  <2>1. /\ UNCHANGED <<pc, term, reader, flag, pipe>>
        /\ child' = child \/ (child # "none" /\ child' = "dead")
        /\ helper' = helper \/ helper' = "dead" \/ child = "running"
        /\ \/ inGroup' = inGroup
           \/ helper = "none" /\ child = "running" /\ helper' = "running"
        /\ overgrown' = overgrown \/ Writers
    BY <1>2, FamilySteps DEF caller, readers, pipes
  <2>2. inGroup' => inGroup
    BY <2>1 DEF JoinedInv
  <2>3. helper' = "none" => inGroup'
    BY <1>2 DEF JoinedInv, Fed, Resize, Spawn, Exit, Die, EndHelper, Expire,
       EndChild, family
  <2>4. child # "none" /\ ~Writers => child' # "none" /\ ~Writers'
    BY <2>1 DEF Writers
  <2>5. inGroup /\ pc = "returned" => ~Writers
    BY DEF CallerInv, AfterContainment, Writers
  <2>6. QED
    BY <2>1, <2>2, <2>3, <2>4, <2>5 DEF JoinedInv, Joined
<1>3. ASSUME NEW s \in Streams, Reader(s) \/ Write(s)
      PROVE  JoinedInv'
  <2>1. /\ UNCHANGED <<pc, term, child, helper, inGroup, overgrown>>
        /\ Writers' = Writers
        /\ flag => flag'
    BY <1>3, StreamSteps DEF caller, family, Writers
  <2> SUFFICES ASSUME inGroup
               PROVE  JoinedInv'
    BY <2>1 DEF JoinedInv
  <2>2. \A t \in Streams : Joined(t)' = Joined(t)
    BY <2>1 DEF Joined
  <2>3. Joined(s) => reader[s] = "ended"
    BY DEF JoinedInv
  <2>4. CASE Read(s) \/ Acquire(s)
    BY <2>1, <2>2, <2>3, <2>4
       DEF Read, Acquire, JoinedInv, TypeOK
  <2>5. CASE EndReader(s)
    <3>1. ~Joined(s)
      BY <2>3, <2>5 DEF EndReader
    <3>2. AtEOF(s)
      BY <2>5, <3>1 DEF EndReader, Closed, Joined, AfterContainment
    <3>3. QED
      BY <2>1, <2>2, <2>5, <3>2 DEF EndReader, AtEOF, JoinedInv, TypeOK
  <2>6. CASE Count(s)
    <3>1. ~Joined(s) /\ pc \notin {"lateScan", "returned"}
      BY <2>3, <2>6 DEF Count, Joined, AfterContainment, Streams
    <3>2. /\ \A t \in Streams \ {s} : reader'[t] = reader[t]
          /\ reader'[s] = "ended" => flag'
          /\ UNCHANGED pipe
      BY <2>6 DEF Count, TypeOK
    <3>3. QED
      BY <2>1, <2>2, <3>1, <3>2 DEF JoinedInv
  <2>7. CASE Write(s)
    <3>1. Writers /\ UNCHANGED <<reader, flag>>
      BY <2>7 DEF Write, readers
    <3>2. QED
      BY <2>1, <2>2, <3>1 DEF JoinedInv
  <2>8. QED
    BY <1>3, <2>4, <2>5, <2>6, <2>7 DEF Reader
<1>4. CASE UNCHANGED vars
  BY <1>4 DEF vars, caller, readers, family, pipes, JoinedInv, Joined, Writers
<1>5. QED
  BY <1>1, <1>2, <1>3, <1>4, StepKinds

(* JoinedInv holds in every behaviour.                                      *)
LEMMA JoinedInvariant == Spec => []JoinedInv
<1>1. Init => JoinedInv
  BY DEF Init, JoinedInv, Joined, AfterContainment
<1>2. TypeOK /\ CallerInv /\ JoinedInv /\ [Next]_vars => JoinedInv'
  BY JoinedInductive
<1>3. QED
  BY <1>1, <1>2, BudgetInvariant, CallerInvariant, PTL DEF Spec

(* As long as no descendant left the process group, a result "exited"      *)
(* hides nothing that was written, and no growth of the workspace.         *)
THEOREM GroupHidesNothing == Spec => [](inGroup => NothingHidden)
<1>1. TypeOK /\ BudgetInv /\ CallerInv /\ JoinedInv /\ inGroup
        => NothingHidden
  <2> SUFFICES ASSUME TypeOK, BudgetInv, CallerInv, JoinedInv, inGroup,
                      pc = "returned", term = "exited"
               PROVE  /\ \A s \in Streams : kept[s] = written[s]
                      /\ ~overgrown
    BY DEF NothingHidden
  <2>1. /\ ~flag /\ ~overgrown
        /\ \A s \in Streams : reader[s] = "ended"
    BY DEF JoinedInv, Joined, AfterContainment, Streams
  <2>2. \A s \in Streams : pipe[s] = 0 /\ chunk[s] = 0
    BY <2>1 DEF JoinedInv, BudgetInv
  <2>3. QED
    BY <2>1, <2>2 DEF BudgetInv, TypeOK
<1>2. QED
  BY <1>1, BudgetInvariant, CallerInvariant, JoinedInvariant, PTL

(* In particular, when none can leave it.                                  *)
THEOREM ExitedHidesNothing ==
  ASSUME ~LeavesGroup
  PROVE  Spec => []NothingHidden
<1>1. Init => inGroup
  BY DEF Init
<1>2. inGroup /\ [Next]_vars => inGroup'
  <2> SUFFICES ASSUME inGroup, [Next]_vars
               PROVE  inGroup'
    OBVIOUS
  <2>1. CASE Spawn
    BY <2>1, LeavesGroupAssumption DEF Spawn
  <2>2. CASE ~Spawn
    BY <2>2
       DEF Next, vars, family, Refuse, Caller, Start, Poll, CheckFlag,
       CheckClock, SampleExceeded, SampleWithin, Scan, ListTree, KillTree,
       Wait, WaitTimesOut, Contain, JoinAndClose, Join, Close, LateFlag,
       LateScan, Goto, Continue, Break, Reader, Read, EndReader, Acquire,
       Count, unread, Fed, Write, Resize, Exit, Die, EndChild, EndHelper,
       Expire
  <2>3. QED
    BY <2>1, <2>2
<1>3. QED
  BY <1>1, <1>2, GroupHidesNothing, PTL DEF Spec

=============================================================================
