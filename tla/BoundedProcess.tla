---------------------------- MODULE BoundedProcess ----------------------------
(***************************************************************************)
(* run_bounded_process (src/rechnungsprobe/process.py) on POSIX: the       *)
(* calling thread, which monitors the child and then collects the result,  *)
(* two reader threads that share one output budget behind a lock, the      *)
(* thread that feeds stdin, the child, and one descendant of it.           *)
(*                                                                         *)
(* Output is counted in units.  The clock is one bit: the timeout has or   *)
(* has not passed.  The budgets sampled while the child runs (processes,   *)
(* memory, CPU) may be found exceeded at any sample; the growth of the     *)
(* workspace is state, because it is inspected once more at the end.       *)
(***************************************************************************)
EXTENDS Naturals

CONSTANTS
  MaxOutput,      \* policy.max_output_bytes
  MaxWritten,     \* bound: units written to one stream
  PipeSize,       \* units a pipe holds
  SampledLimits,  \* the terminations of _resource_termination
  LeavesGroup     \* may a descendant leave the child's process group?

ASSUME ProcessAssumption ==
  MaxOutput \in Nat /\ MaxWritten \in Nat /\ PipeSize \in Nat
ASSUME LimitsAssumption ==
  SampledLimits \subseteq {"process_limit", "memory_limit", "cpu_limit"}
ASSUME LeavesGroupAssumption == LeavesGroup \in BOOLEAN

Streams == {"stdout", "stderr"}
Termination ==
  {"exited", "timeout", "output_limit", "file_limit"} \cup SampledLimits

VARIABLES
  \* the calling thread
  pc,           \* the next thing it does
  term,         \* termination
  returncode,   \* "none", "exit" (the child's own) or "signal"
  \* the reader threads and what they share
  reader,       \* per stream: "reading", "waiting", "counting", "ended"
  chunk,        \* per stream: what the last read1 returned
  room,         \* per stream: remaining, as read under the lock
  kept,         \* per stream: len(stdout), len(stderr)
  total,        \* total_output
  lock,         \* output_lock: "free" or the stream whose reader holds it
  flag,         \* output_limit_reached
  feeder,       \* the stdin thread: "writing" or "ended"
  \* the environment
  child,        \* "none", "running", "dying" (SIGKILL sent) or "dead"
  killed,       \* the child was sent SIGKILL before it ended by itself
  helper,       \* the descendant: "none", "running" or "dead"
  orphan,       \* the descendant is no longer a child of the child
  inGroup,      \* the descendant is in the child's process group
  listed,       \* _kill_process_tree found the descendant
  pipe,         \* per stream: units written and not read
  written,      \* per stream: units ever written
  expired,      \* the timeout has passed
  overgrown     \* the workspace exceeds its file budget

caller == <<pc, term, returncode, listed>>
readers == <<reader, chunk, room, kept, total, lock, flag>>
family == <<child, killed, helper, orphan, inGroup>>
pipes == <<pipe, written>>
vars == <<caller, readers, feeder, family, pipes, expired, overgrown>>

\* what a step of the calling thread leaves alone, but for the processes
elsewhere == <<readers, feeder, pipes, expired, overgrown>>

Writers == child = "running" \/ helper = "running"
AtEOF(s) == child # "none" /\ pipe[s] = 0 /\ ~Writers

Init ==
  /\ pc = "start" /\ term = "exited" /\ returncode = "none"
  /\ reader = [s \in Streams |-> "reading"]
  /\ chunk = [s \in Streams |-> 0]
  /\ room = [s \in Streams |-> 0]
  /\ kept = [s \in Streams |-> 0]
  /\ total = 0 /\ lock = "free" /\ flag = FALSE
  /\ feeder = "writing"
  /\ child = "none" /\ killed = FALSE
  /\ helper = "none" /\ orphan = FALSE /\ inGroup = TRUE /\ listed = FALSE
  /\ pipe = [s \in Streams |-> 0]
  /\ written = [s \in Streams |-> 0]
  /\ expired = FALSE /\ overgrown = FALSE

-----------------------------------------------------------------------------
(* The calling thread, up to the end of the monitoring loop.               *)

Goto(from, to) ==
  /\ pc = from
  /\ pc' = to
  /\ UNCHANGED <<returncode, listed, family, elsewhere>>

Continue(from, to) == Goto(from, to) /\ UNCHANGED term
Break(from, limit) == Goto(from, "list") /\ term' = limit

(* The input, the policy or the baseline scan of the workspace is refused  *)
(* before any process exists (SecurityError).                              *)
Refuse == Continue("start", "raised")

(* Popen; the readers and the stdin thread are started. *)
Start ==
  /\ pc = "start"
  /\ pc' = "poll"
  /\ child' = "running"
  /\ UNCHANGED <<term, returncode, listed, killed, helper, orphan, inGroup,
                 elsewhere>>

HasEndedSoon == TRUE
HasEnded == child = "dead"

(* while process.poll() is None *)
Poll ==
  \/ HasEnded /\ Continue("poll", "wait")
  \/ ~HasEnded /\ Continue("poll", "checkFlag")

CheckFlag ==
  \/ flag /\ Break("checkFlag", "output_limit")
  \/ ~flag /\ Continue("checkFlag", "checkClock")

ClockIgnored == Continue("checkClock", "sample")
CheckClock ==
  \/ expired /\ Break("checkClock", "timeout")
  \/ ~expired /\ Continue("checkClock", "sample")

(* _resource_termination: a child that is gone yields no sample. *)
SampleExceeded ==
  /\ child = "running"
  /\ \E limit \in SampledLimits : Break("sample", limit)
SampleWithin == Continue("sample", "scan")

(* _directory_usage against the baseline; the loop then sleeps. *)
Scan ==
  \/ overgrown /\ Break("scan", "file_limit")
  \/ ~overgrown /\ Continue("scan", "poll")

-----------------------------------------------------------------------------
(* The calling thread: killing, collecting, joining.                       *)

(* _kill_process_tree lists the descendants while their root still exists  *)
(* ... *)
ListTree ==
  /\ \/ pc = "list" /\ pc' = "kill"
     \/ pc = "listAgain" /\ pc' = "killAgain"
  /\ listed' = (child # "dead" /\ helper = "running" /\ ~orphan)
  /\ UNCHANGED <<term, returncode, family, elsewhere>>

(* ... and kills those it listed, then the root. *)
KillTree ==
  /\ \/ pc = "kill" /\ pc' = "wait"
     \/ pc = "killAgain" /\ pc' = "waitAgain"
  /\ helper' = IF listed /\ helper = "running" THEN "dead" ELSE helper
  /\ child' = IF child = "running" THEN "dying" ELSE child
  /\ killed' = (killed \/ child = "running")
  /\ UNCHANGED <<term, returncode, listed, orphan, inGroup, elsewhere>>

(* process.wait(timeout=2) *)
Wait ==
  /\ pc \in {"wait", "waitAgain"}
  /\ pc' = "contain"
  /\ child = "dead"
  /\ returncode' = IF killed THEN "signal" ELSE "exit"
  /\ UNCHANGED <<term, listed, family, elsewhere>>

(* A child that does not end within two seconds is killed once more; the   *)
(* second TimeoutExpired leaves the function.                              *)
WaitTimesOut ==
  /\ child # "dead"
  /\ \/ Continue("wait", "listAgain")
     \/ Continue("waitAgain", "raised")

(* containment.close(): SIGKILL to the process group of the child. *)
ContainAfterLimit == term # "exited" /\ inGroup
Contained == inGroup

Contain ==
  /\ pc = "contain"
  /\ pc' = "joinOut"
  /\ helper' = IF helper = "running" /\ Contained THEN "dead" ELSE helper
  /\ UNCHANGED <<term, returncode, listed, child, killed, orphan, inGroup,
                 elsewhere>>

(* thread.join(timeout=2).  Two seconds are enough for a thread that is    *)
(* not blocked: a join only times out while something still holds the      *)
(* other end of its pipe.                                                  *)
Join(thread, from, to) ==
  /\ thread = "ended" \/ helper = "running"
  /\ Continue(from, to)

(* stream.close() needs the stream's own lock, which read1 holds while it  *)
(* waits for data.                                                         *)
Close(s, from, to) == reader[s] # "reading" /\ Continue(from, to)

JoinAndClose ==
  \/ Join(reader["stdout"], "joinOut", "joinErr")
  \/ Join(reader["stderr"], "joinErr", "joinIn")
  \/ Join(feeder, "joinIn", "closeOut")
  \/ Close("stdout", "closeOut", "closeErr")
  \/ Close("stderr", "closeErr", "lateFlag")

(* The child may have ended before the loop saw the flag, or the growth of *)
(* the workspace: both are looked at again.                                *)
NoLateFlag == Continue("lateFlag", "lateScan")
LateFlag ==
  /\ Goto("lateFlag", "lateScan")
  /\ term' = IF term = "exited" /\ flag THEN "output_limit" ELSE term

LateScan ==
  /\ Goto("lateScan", "returned")
  /\ term' = IF term = "exited" /\ overgrown THEN "file_limit" ELSE term

Caller ==
  \/ Start \/ Poll \/ CheckFlag \/ CheckClock \/ SampleWithin \/ Scan
  \/ ListTree \/ KillTree \/ Wait \/ WaitTimesOut
  \/ Contain \/ JoinAndClose \/ LateFlag \/ LateScan

-----------------------------------------------------------------------------
(* The reader of stream s (read_stream).                                   *)

Closed(s) ==
  \/ s = "stdout" /\ pc \in {"closeErr", "lateFlag", "lateScan", "returned"}
  \/ s = "stderr" /\ pc \in {"lateFlag", "lateScan", "returned"}

unread == <<caller, feeder, family, written, expired, overgrown>>

(* read1 returns what the pipe holds; the lock is not held yet. *)
Read(s) ==
  /\ reader[s] = "reading" /\ ~Closed(s)
  /\ pipe[s] > 0
  /\ reader' = [reader EXCEPT ![s] = "waiting"]
  /\ chunk' = [chunk EXCEPT ![s] = pipe[s]]
  /\ pipe' = [pipe EXCEPT ![s] = 0]
  /\ UNCHANGED <<unread, room, kept, total, lock, flag>>

(* End of file, or the stream was closed under the thread. *)
EndReader(s) ==
  /\ reader[s] = "reading"
  /\ AtEOF(s) \/ Closed(s)
  /\ reader' = [reader EXCEPT ![s] = "ended"]
  /\ UNCHANGED <<unread, pipe, chunk, room, kept, total, lock, flag>>

(* with output_lock: what is left of the shared budget. *)
LockIgnored == TRUE
LockFree == lock = "free"

Acquire(s) ==
  /\ reader[s] = "waiting"
  /\ LockFree
  /\ lock' = s
  /\ room' = [room EXCEPT ![s] = MaxOutput - total]
  /\ reader' = [reader EXCEPT ![s] = "counting"]
  /\ UNCHANGED <<unread, pipe, chunk, kept, total, flag>>

(* The part of the chunk within the budget is kept; the reader stops when  *)
(* it had to cut.                                                          *)
CutsWhenFull(s) == chunk[s] >= room[s]
Cuts(s) == chunk[s] > room[s]

Count(s) ==
  LET accepted == IF chunk[s] > room[s] THEN room[s] ELSE chunk[s]
  IN  /\ reader[s] = "counting"
      /\ kept' = [kept EXCEPT ![s] = @ + accepted]
      /\ total' = total + accepted
      /\ lock' = "free"
      /\ chunk' = [chunk EXCEPT ![s] = 0]
      /\ flag' = (flag \/ Cuts(s))
      /\ reader' = [reader EXCEPT ![s] = IF Cuts(s) THEN "ended" ELSE "reading"]
      /\ UNCHANGED <<unread, pipe, room>>

Reader(s) == Read(s) \/ EndReader(s) \/ Acquire(s) \/ Count(s)

-----------------------------------------------------------------------------
(* The stdin thread, the processes and the clock.                          *)

(* The input was consumed, or nobody is left to read it (BrokenPipeError). *)
Fed ==
  /\ feeder = "writing" /\ child # "none"
  /\ feeder' = "ended"
  /\ UNCHANGED <<caller, readers, family, pipes, expired, overgrown>>
BrokenPipe == ~Writers /\ Fed

Write(s) ==
  /\ Writers
  /\ written[s] < MaxWritten
  /\ pipe[s] < PipeSize
  /\ pipe' = [pipe EXCEPT ![s] = @ + 1]
  /\ written' = [written EXCEPT ![s] = @ + 1]
  /\ UNCHANGED <<caller, readers, feeder, family, expired, overgrown>>

(* The workspace outgrows its budget, or shrinks below it again: an excess *)
(* may come and go between two scans.                                      *)
Resize ==
  /\ Writers
  /\ overgrown' = ~overgrown
  /\ UNCHANGED <<caller, readers, feeder, family, pipes, expired>>

Spawn ==
  /\ child = "running" /\ helper = "none"
  /\ helper' = "running"
  /\ orphan' \in BOOLEAN
  /\ inGroup' \in {TRUE, ~LeavesGroup}
  /\ UNCHANGED <<caller, readers, feeder, child, killed, pipes, expired,
                 overgrown>>

(* By itself or after SIGKILL; a descendant it leaves is reparented. *)
EndChild(from) ==
  /\ child = from
  /\ child' = "dead"
  /\ orphan' = (orphan \/ helper = "running")
  /\ UNCHANGED <<caller, readers, feeder, killed, helper, inGroup, pipes,
                 expired, overgrown>>
Exit == EndChild("running")
Die == EndChild("dying")

EndHelper ==
  /\ helper = "running"
  /\ helper' = "dead"
  /\ UNCHANGED <<caller, readers, feeder, child, killed, orphan, inGroup,
                 pipes, expired, overgrown>>

Expire ==
  /\ pc \in {"poll", "checkFlag", "checkClock", "sample", "scan"}
  /\ ~expired
  /\ expired' = TRUE
  /\ UNCHANGED <<caller, readers, feeder, family, pipes, overgrown>>

Next ==
  \/ Refuse \/ Caller \/ SampleExceeded
  \/ \E s \in Streams : Reader(s)
  \/ Fed
  \/ \E s \in Streams : Write(s)
  \/ Resize \/ Spawn \/ Exit \/ Die \/ EndHelper \/ Expire

Spec == Init /\ [][Next]_vars

(* The threads are scheduled, a killed process dies, an abandoned pipe     *)
(* breaks and time passes.  Nothing makes the child or its descendant end. *)
FairSpec ==
  /\ Spec
  /\ WF_vars(Caller)
  /\ \A s \in Streams : WF_vars(Reader(s))
  /\ WF_vars(BrokenPipe) /\ WF_vars(Die) /\ WF_vars(Expire)

-----------------------------------------------------------------------------
TypeOK ==
  /\ pc \in {"start", "poll", "checkFlag", "checkClock", "sample", "scan",
             "list", "kill", "wait", "listAgain", "killAgain", "waitAgain",
             "contain", "joinOut", "joinErr", "joinIn", "closeOut", "closeErr",
             "lateFlag", "lateScan", "returned", "raised"}
  /\ term \in Termination
  /\ returncode \in {"none", "exit", "signal"}
  /\ listed \in BOOLEAN
  /\ reader \in [Streams -> {"reading", "waiting", "counting", "ended"}]
  /\ chunk \in [Streams -> Nat]
  /\ room \in [Streams -> Nat]
  /\ kept \in [Streams -> Nat]
  /\ total \in Nat
  /\ lock \in Streams \cup {"free"}
  /\ flag \in BOOLEAN
  /\ feeder \in {"writing", "ended"}
  /\ child \in {"none", "running", "dying", "dead"}
  /\ killed \in BOOLEAN
  /\ helper \in {"none", "running", "dead"}
  /\ orphan \in BOOLEAN
  /\ inGroup \in BOOLEAN
  /\ pipe \in [Streams -> Nat]
  /\ written \in [Streams -> Nat]
  /\ expired \in BOOLEAN
  /\ overgrown \in BOOLEAN

(* The two readers together never keep more than the policy allows, however*)
(* their chunks interleave (max_output_bytes; read_stream).                *)
OutputBounded == kept["stdout"] + kept["stderr"] <= MaxOutput

(* A result "exited" hides nothing: everything the processes wrote was     *)
(* kept and the workspace stayed within its budget.  (A process that left  *)
(* the group may still be writing.)                                        *)
NothingHidden ==
  pc = "returned" /\ term = "exited" /\ helper # "running" =>
    /\ \A s \in Streams : kept[s] = written[s]
    /\ ~overgrown

(* A result "output_limit" is justified, and carries exactly the budget    *)
(* (tests/test_process.py, test_bounded_process_stops_output_flood).       *)
LimitIsExact ==
  pc = "returned" /\ term = "output_limit" =>
    /\ kept["stdout"] + kept["stderr"] = MaxOutput
    /\ written["stdout"] + written["stderr"] > MaxOutput

(* The exit status of a result "exited" is the child's own: the caller     *)
(* never reports a process it killed as one that exited, which the crash   *)
(* predicate would take for a finding.                                     *)
ExitIsTheChilds ==
  pc = "returned" /\ term = "exited" => returncode = "exit"

(* When the call returns no process of the child's group is left, whether  *)
(* or not the child ended first (tests/test_process.py,                    *)
(* test_bounded_process_kills_descendants_after_the_parent_exits).         *)
NoGroupMemberLeft ==
  pc = "returned" => child = "dead" /\ ~(helper = "running" /\ inGroup)

(* The call returns or raises, whatever the child and its descendant do    *)
(* ("elapsed time ... bounded", docs/security-model.md).                   *)
Returns == <>(pc \in {"returned", "raised"})

=============================================================================
