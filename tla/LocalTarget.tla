------------------------------ MODULE LocalTarget ------------------------------
(***************************************************************************)
(* run_local_target (src/rechnungsprobe/target.py): one call on a          *)
(* workspace, from the staged copy of its file argument to the importer's  *)
(* run and its output.  The digest it reports is Campaign's.               *)
(*                                                                         *)
(* Somebody may edit the argument file in place meanwhile.  The file is    *)
(* read in chunks; each edit of a chunk gives it a content it never had.   *)
(* run_bounded_process is BoundedProcess; what it does with the workspace  *)
(* is here: a scan before the start, samples while the importer runs, and  *)
(* one after it exited.  Every other limit is one way to be killed.        *)
(***************************************************************************)
EXTENDS DirectoryScan

VARIABLES
  made,            \* the workspace exists
  pc,
  source,          \* the chunks of the argument file, while it is still read
  got,             \* the chunks that were read so far
  expected,        \* what the copy is compared with
  baseline,        \* entries before the start
  termination,
  late,            \* the time limit has passed
  child,           \* off, running, survived (a descendant is left) or ended
  output,          \* what was read: nothing, or a file
  \* history
  whole,           \* the contents the file had as a whole since staging began
  escaped          \* a descendant outlived the child

local == <<made, pc, source, got, expected, baseline, termination, late, child,
           output, whole, escaped>>
vars == <<tree, scan, local>>

Unread == <<>>
First == [k \in 1..Chunks |-> 0]
Goto(to) == pc' = to

Init ==
  /\ tree = [p \in Name |-> "new"] /\ ScanInit
  /\ made \in BOOLEAN /\ pc = "look"
  /\ source = First /\ got = <<>> /\ expected = Unread
  /\ baseline = 0 /\ termination = "none" /\ late = FALSE /\ child = "off" /\ output = "nothing"
  /\ whole = {} /\ escaped = FALSE

-----------------------------------------------------------------------------
(* _prepare_workspace; a directory that exists is empty, or refused. *)
Prepare ==
  /\ pc = "look"
  /\ made' = TRUE
  /\ Goto("stage") \/ Goto("refused")
  /\ UNCHANGED <<tree, scan, source, got, expected, baseline, termination, late,
                 child, output, whole, escaped>>

(* Reading the file, to hash or to copy it. *)
Read ==
  /\ pc \in {"hash", "copy"} /\ Len(got) < Chunks
  /\ got' = Append(got, source[Len(got) + 1])
  /\ UNCHANGED <<tree, scan, made, pc, source, expected, baseline,
                 termination, late, child, output, whole, escaped>>

Hashed ==
  /\ pc = "hash" /\ Len(got) = Chunks
  /\ Goto("copy")
  /\ expected' = got /\ got' = <<>>
  /\ UNCHANGED <<tree, scan, made, source, baseline, termination, late, child, output,
                 whole, escaped>>

(* _stage_local_command *)
MakeFiles ==
  /\ pc = "stage"
  /\ Goto("hash")
  /\ tree' = [tree EXCEPT ![Files] = "dir"]
  /\ whole' = {source}
  /\ UNCHANGED <<scan, made, source, got, expected, baseline, termination, late,
                 child, output, escaped>>

AnyCopy == TRUE
CopyIsExpected == got = expected
CompareCopy ==
  /\ pc = "copy" /\ Len(got) = Chunks
  /\ tree' = [tree EXCEPT ![Copy] = "file"]
  /\ IF CopyIsExpected THEN Goto("staged") ELSE Goto("refused")
  /\ UNCHANGED <<scan, made, source, got, expected, baseline, termination, late,
                 child, output, whole, escaped>>

(* input.xml, or standard input; the argument file is not read again, and  *)
(* what was read of it goes out of scope.  Then run_bounded_process looks  *)
(* at the workspace.                                                       *)
WriteInput ==
  /\ pc = "staged"
  /\ tree' \in {tree, [tree EXCEPT ![Input] = "file"]}
  /\ source' = Unread /\ got' = <<>> /\ expected' = Unread
  /\ whole' = {}
  /\ Goto("baseline")
  /\ UNCHANGED <<scan, made, baseline, termination, late, child, output, escaped>>

-----------------------------------------------------------------------------
Unlimited == Cardinality(Name)            \* 100000
ScanLimit == baseline + MaxCreated + 1
TooMuch == outcome = "overflow" \/ count > baseline + MaxCreated

BeginAScan ==
  /\ pc \in {"baseline", "sample", "final"} /\ outcome = "off"
  /\ BeginScan(IF pc = "baseline" THEN Unlimited ELSE ScanLimit)
  /\ UNCHANGED <<tree, local>>

Walk ==
  /\ pc \in {"baseline", "sample", "final"}
  /\ Scan
  /\ UNCHANGED local

TakeBaseline ==
  /\ pc = "baseline" /\ Scanned
  /\ IF outcome = "overflow"
     THEN Goto("refused") /\ UNCHANGED <<baseline, child, termination>>
     ELSE /\ baseline' = count /\ child' = "running" /\ termination' = "exited"
          /\ Goto("poll")
  /\ TakeResult
  /\ UNCHANGED <<tree, made, source, got, expected, late, output, whole, escaped>>

(* The loop: an ended child leaves it, so does any limit that is exceeded. *)
Poll ==
  /\ pc = "poll"
  /\ \/ child # "running" /\ Goto("wait") /\ UNCHANGED termination
     \/ child = "running" /\ ~late /\ Goto("sample") /\ UNCHANGED termination
     \/ child = "running" /\ Goto("wait") /\ termination' = "another limit"
  /\ UNCHANGED <<tree, scan, made, source, got, expected, baseline, late, child,
                 output, whole, escaped>>

TakeSample ==
  /\ pc = "sample" /\ Scanned
  /\ IF TooMuch THEN Goto("wait") /\ termination' = "file_limit"
                ELSE Goto("poll") /\ UNCHANGED termination
  /\ TakeResult
  /\ UNCHANGED <<tree, made, source, got, expected, baseline, late, child, output,
                 whole, escaped>>

(* Killing what is left of the tree and waiting for the child. *)
Unchecked == "read"
AfterWait == IF termination = "exited" THEN "final" ELSE "read"
Wait ==
  /\ pc = "wait"
  /\ Goto(AfterWait)
  /\ IF child = "running"
     THEN \E left \in BOOLEAN :
            /\ child' = IF left THEN "survived" ELSE "ended"
            /\ escaped' = left
     ELSE UNCHANGED <<child, escaped>>
  /\ UNCHANGED <<tree, scan, made, source, got, expected, baseline,
                 termination, late, output, whole>>

TakeFinal ==
  /\ pc = "final" /\ Scanned
  /\ termination' = IF TooMuch THEN "file_limit" ELSE termination
  /\ Goto("read")
  /\ TakeResult
  /\ UNCHANGED <<tree, made, source, got, expected, baseline, late, child, output,
                 whole, escaped>>

(* _read_bounded_output: no output file, a regular one, or a refusal. *)
ReadOutput ==
  /\ pc = "read"
  /\ \/ /\ tree[Output] \in {"new", "gone", "link"}         \* a dangling one
        /\ Goto("returned") /\ UNCHANGED output
     \/ tree[Output] = "file" /\ Goto("returned") /\ output' = "file"
     \/ Present(Output) /\ Goto("refused") /\ UNCHANGED output
  /\ UNCHANGED <<tree, scan, made, source, got, expected, baseline,
                 termination, late, child, whole, escaped>>

Step ==
  \/ Prepare \/ Read \/ Hashed \/ MakeFiles \/ CompareCopy \/ WriteInput
  \/ BeginAScan \/ Walk \/ TakeBaseline \/ Poll \/ TakeSample \/ Wait \/ TakeFinal
  \/ ReadOutput

-----------------------------------------------------------------------------
(* Somebody edits the argument file. *)
Edit ==
  /\ source # Unread
  /\ \E k \in 1..Chunks, n \in 1..MaxEdits :
       /\ \A j \in 1..Chunks : source[j] < n
       /\ \E j \in 1..Chunks : source[j] = n - 1
       /\ source' = [source EXCEPT ![k] = n]
  /\ whole' = IF pc \in {"hash", "copy"} THEN whole \cup {source'} ELSE whole
  /\ UNCHANGED <<tree, scan, made, pc, got, expected, baseline, termination, late,
                 child, output, escaped>>

(* The importer and what it left behind. *)
Works ==
  /\ child \in {"running", "survived"}
  /\ Change
  /\ UNCHANGED local

Ends ==
  /\ \/ /\ child = "running"
        /\ child' = "ended" /\ UNCHANGED escaped
     \/ /\ child = "running"
        /\ child' = "survived" /\ escaped' = TRUE
     \/ /\ child = "survived"
        /\ child' = "ended" /\ UNCHANGED escaped
  /\ UNCHANGED <<tree, scan, made, pc, source, got, expected, baseline,
                 termination, late, output, whole>>

Expire ==
  /\ pc \in {"poll", "sample"} /\ ~late
  /\ late' = TRUE
  /\ UNCHANGED <<tree, scan, made, pc, source, got, expected, baseline, termination,
                 child, output, whole, escaped>>

Next == Step \/ Expire \/ Edit \/ Works \/ Ends

Spec == Init /\ [][Next]_vars
Fairness == WF_vars(Step) /\ WF_vars(Expire)
-----------------------------------------------------------------------------
(* The staged file is the argument file as it was as a whole at one moment *)
(* of the staging, although it is hashed and copied in chunks while it may *)
(* be edited, as long as no edit brings an earlier content back: two mixed *)
(* readings could agree then (target.py:147-162).                          *)
StagedIsASnapshot == pc = "staged" => got \in whole

(* A run that is reported as exited, and left no process behind, left no   *)
(* more entries than it may create, whatever it did between two samples    *)
(* (process.py:442-452, 470-480).                                          *)
ExitedWithinBudget ==
  pc \in {"read", "returned"} /\ termination = "exited" /\ ~escaped =>
    /\ Cardinality(Entries) <= baseline + MaxCreated
    /\ \A p \in Name : tree[p] \notin Bad
=============================================================================
