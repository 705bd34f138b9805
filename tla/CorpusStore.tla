----------------------------- MODULE CorpusStore -----------------------------
(***************************************************************************)
(* materialize_corpus (src/rechnungsprobe/corpus.py) and run_corpus_gate   *)
(* (src/rechnungsprobe/gates.py): corpora written file by file into one    *)
(* output directory, by commands that may be killed, repeated with or      *)
(* without --resume, for different shards, counts or campaign seeds, and   *)
(* run at the same time.                                                   *)
(*                                                                         *)
(* A plan is what generate_candidates returns for the parameters of a      *)
(* command: the cases, in order, and the campaign seed, which with the     *)
(* index determines the text of a case.  A file exists from its exclusive  *)
(* creation on, and is whole once it was written and closed.               *)
(***************************************************************************)
EXTENDS Naturals, Sequences, SequencesExt

CONSTANTS
  Worker,      \* the commands that may run at the same time
  Plan,        \* the parameters in use
  CasesOf,     \* Plan -> the file names of its cases, in order
  SeedOf,      \* Plan -> its campaign seed
  FullPlan,    \* the plans that cover every mutator and interaction bucket
  MaxCommands  \* bound: commands ever started

Manifest == "corpus.json"
Evidence == "validation.json"
CaseName == UNION {Range(CasesOf[p]) : p \in Plan}
FileName == CaseName \cup {Manifest, Evidence}

ASSUME CorpusAssumption ==
  /\ FullPlan \subseteq Plan
  /\ \A p \in Plan : CasesOf[p] \in Seq(CaseName) \ {<<>>}
  /\ {Manifest, Evidence} \cap CaseName = {}
  /\ MaxCommands \in Nat

(* What a command writes under a name. *)
Text(p, name) ==
  IF name \in CaseName THEN <<"case", SeedOf[p]>> ELSE <<"plan", p>>

(* The files of a command, in the order in which it looks at them. *)
ManifestFirst(p, isGate) ==
  <<Manifest>> \o CasesOf[p] \o (IF isGate THEN <<Evidence>> ELSE <<>>)
FilesOf(p, isGate) ==
  CasesOf[p] \o <<Manifest>> \o (IF isGate THEN <<Evidence>> ELSE <<>>)

Absent == [text |-> <<>>, whole |-> FALSE]
Torn(p, name) == [text |-> Text(p, name), whole |-> FALSE]
Whole(p, name) == [text |-> Text(p, name), whole |-> TRUE]

VARIABLES
  \* the output directory
  root,      \* it exists
  caseRoot,  \* its directory cases exists
  file,      \* what is under each name
  \* the commands, per worker
  pc,
  plan,      \* its parameters
  gate,      \* corpus-gate, not corpus
  resume,    \* an existing output is resumed
  left,      \* the files it has still to see
  \* history
  alone,     \* no other command was active during this one
  commands   \* commands started so far

disk == <<root, caseRoot, file>>
command == <<plan, gate, resume>>
history == <<alone, commands>>
vars == <<disk, pc, command, left, history>>

Active(w) == pc[w] \notin {"idle", "done", "refused", "failed", "killed"}

Init ==
  /\ root = FALSE /\ caseRoot = FALSE
  /\ file = [n \in FileName |-> Absent]
  /\ pc = [w \in Worker |-> "idle"]
  /\ plan \in [Worker -> Plan]
  /\ gate = [w \in Worker |-> FALSE]
  /\ resume = [w \in Worker |-> FALSE]
  /\ left = [w \in Worker |-> <<>>]
  /\ alone = [w \in Worker |-> FALSE]
  /\ commands = 0

-----------------------------------------------------------------------------
Goto(w, to) == pc' = [pc EXCEPT ![w] = to]
Refuse(w) == Goto(w, "refused")

(* A command starts.  The gate resumes whatever exists. *)
Start(w) ==
  /\ ~Active(w)
  /\ commands < MaxCommands
  /\ commands' = commands + 1
  /\ \E p \in Plan, isGate, resumed \in BOOLEAN :
       /\ isGate => resumed = root
       /\ plan' = [plan EXCEPT ![w] = p]
       /\ gate' = [gate EXCEPT ![w] = isGate]
       /\ resume' = [resume EXCEPT ![w] = resumed]
       /\ left' = [left EXCEPT ![w] = FilesOf(p, isGate)]
  /\ alone' = [v \in Worker |-> v = w /\ ~\E u \in Worker : Active(u)]
  /\ Goto(w, "open")
  /\ UNCHANGED disk

(* An existing output is only entered to resume it, and only when it holds *)
(* nothing but the cases and the manifest.                                 *)
OnlyCasesExpected == file[Manifest] = Absent /\ file[Evidence] = Absent
NothingUnexpected == file[Evidence] = Absent

OpenOutput(w) ==
  /\ pc[w] = "open"
  /\ \/ ~root /\ Goto(w, "create")
     \/ root /\ resume[w] /\ NothingUnexpected /\ Goto(w, "openCases")
     \/ root /\ ~(resume[w] /\ NothingUnexpected) /\ Refuse(w)
  /\ UNCHANGED <<disk, command, left, history>>

(* mkdir fails when somebody was faster. *)
CreateOutput(w) ==
  /\ pc[w] = "create"
  /\ IF root THEN Refuse(w) ELSE Goto(w, "openCases")
  /\ root' = TRUE
  /\ UNCHANGED <<caseRoot, file, command, left, history>>

OpenCases(w) ==
  /\ pc[w] = "openCases"
  /\ Goto(w, IF caseRoot THEN "next" ELSE "createCases")
  /\ UNCHANGED <<disk, command, left, history>>

CreateCases(w) ==
  /\ pc[w] = "createCases"
  /\ IF caseRoot THEN Refuse(w) ELSE Goto(w, "next")
  /\ caseRoot' = TRUE
  /\ UNCHANGED <<root, file, command, left, history>>

-----------------------------------------------------------------------------
(* The files, one after the other: a file that exists has to be byte-      *)
(* identical; one that does not is created exclusively, then written.      *)
(* Files never disappear, so that a check and the read that follows it are *)
(* one step.                                                               *)
Looking(w) ==
  \/ pc[w] = "next" /\ left[w] # <<>> /\ Head(left[w]) # Evidence
  \/ pc[w] = "record"

AnyFile(w, n) == file[n] # Absent
Identical(w, n) == file[n] = Whole(plan[w], n)

Pass(w) == Goto(w, "next") /\ left' = [left EXCEPT ![w] = Tail(@)]

Compare(w) ==
  /\ Looking(w)
  /\ file[Head(left[w])] # Absent
  /\ IF Identical(w, Head(left[w])) THEN Pass(w) ELSE Refuse(w) /\ UNCHANGED left
  /\ UNCHANGED <<disk, command, history>>

FileIsMissing(w) ==
  /\ Looking(w)
  /\ file[Head(left[w])] = Absent
  /\ Goto(w, "create file")
  /\ UNCHANGED <<disk, command, left, history>>

OpenAnyway(n) == TRUE
OpenExclusively(n) == file[n] = Absent

CreateFile(w) ==
  LET n == Head(left[w]) IN
  /\ pc[w] = "create file"
  /\ IF OpenExclusively(n)
     THEN file' = [file EXCEPT ![n] = Torn(plan[w], n)] /\ Goto(w, "write")
     ELSE Refuse(w) /\ UNCHANGED file
  /\ UNCHANGED <<root, caseRoot, command, left, history>>

Write(w) ==
  LET n == Head(left[w]) IN
  /\ pc[w] = "write"
  /\ file' = [file EXCEPT ![n] = Whole(plan[w], n)]
  /\ Pass(w)
  /\ UNCHANGED <<root, caseRoot, command, history>>

(* The candidates of the gate cover what they should, and every one, as    *)
(* generated, passes the official validator; only then the evidence is     *)
(* looked at.                                                              *)
Validate(w) ==
  /\ pc[w] = "next" /\ left[w] = <<Evidence>>
  /\ plan[w] \in FullPlan
  /\ Goto(w, "record")
  /\ UNCHANGED <<disk, command, left, history>>

Finish(w) ==
  /\ pc[w] = "next" /\ left[w] = <<>>
  /\ Goto(w, "done")
  /\ UNCHANGED <<disk, command, left, history>>

-----------------------------------------------------------------------------
(* The coverage is incomplete, a candidate is invalid or the validator     *)
(* fails; a write fails (the file stays as it is); the process is killed.  *)
ValidationFails(w) ==
  /\ pc[w] = "next" /\ left[w] = <<Evidence>>
  /\ Goto(w, "failed")
  /\ UNCHANGED <<disk, command, left, history>>

WriteFails(w) ==
  /\ pc[w] = "write"
  /\ Goto(w, "failed")
  /\ UNCHANGED <<disk, command, left, history>>

Kill(w) ==
  /\ Active(w)
  /\ Goto(w, "killed")
  /\ UNCHANGED <<disk, command, left, history>>

Next ==
  \E w \in Worker :
    \/ Start(w)
    \/ OpenOutput(w) \/ CreateOutput(w) \/ OpenCases(w) \/ CreateCases(w)
    \/ Compare(w) \/ FileIsMissing(w) \/ CreateFile(w) \/ Write(w)
    \/ Validate(w) \/ Finish(w)
    \/ ValidationFails(w) \/ WriteFails(w) \/ Kill(w)

Spec == Init /\ [][Next]_vars

-----------------------------------------------------------------------------
Content ==
  {Absent} \cup [text : {Text(p, n) : p \in Plan, n \in FileName},
                whole : BOOLEAN]

(* The shape of the state; files are only under an existing directory, and *)
(* a worker about to write is at a file it created.                        *)
TypeOK ==
  /\ root \in BOOLEAN /\ caseRoot \in BOOLEAN
  /\ file \in [FileName -> Content]
  /\ pc \in [Worker -> {"idle", "open", "create", "openCases", "createCases",
                        "next", "create file", "write", "record", "done",
                        "refused", "failed", "killed"}]
  /\ plan \in [Worker -> Plan]
  /\ gate \in [Worker -> BOOLEAN] /\ resume \in [Worker -> BOOLEAN]
  /\ left \in [Worker -> Seq(FileName)]
  /\ alone \in [Worker -> BOOLEAN]
  /\ commands \in 0..MaxCommands
  /\ \A n \in FileName : file[n] # Absent => root /\ caseRoot
  /\ \A w \in Worker : pc[w] = "write" =>
       file[Head(left[w])] = Torn(plan[w], Head(left[w]))

(* A complete corpus.json only ever stands beside all the cases it lists,  *)
(* and complete gate evidence beside the corpus.json of the same plan,     *)
(* whatever was killed, repeated or run concurrently before: the gate      *)
(* validates what it generated, and its evidence is about the directory.   *)
EvidenceRestsOnFiles ==
  /\ \A p \in Plan : file[Manifest] = Whole(p, Manifest) =>
       \A n \in Range(CasesOf[p]) : file[n] = Whole(p, n)
  /\ \A p \in Plan : file[Evidence] = Whole(p, Evidence) =>
       file[Manifest] = Whole(p, Manifest)

(* A command that succeeds leaves every one of its files complete and with *)
(* the bytes of its own parameters, also when it resumed work of another.  *)
DoneMeansOnDisk ==
  \A w \in Worker : pc[w] = "done" =>
    \A n \in Range(FilesOf(plan[w], gate[w])) : file[n] = Whole(plan[w], n)

(* No command changes a file that another one completed or is writing: a   *)
(* file is created once and completed once, with one text.                 *)
NeverRewritten ==
  [][\A n \in FileName : file'[n] # file[n] =>
       \/ file[n] = Absent /\ ~file'[n].whole
       \/ ~file[n].whole /\ file'[n] = [text |-> file[n].text, whole |-> TRUE]]_vars

(* A resuming command that has the directory for itself is only refused    *)
(* over gate evidence, an incomplete file or a file of other parameters:   *)
(* a complete or partial corpus of its own is always accepted.             *)
RefusalHasReason ==
  \A w \in Worker : pc[w] = "refused" /\ resume[w] /\ alone[w] =>
    \/ file[Evidence] # Absent
    \/ \E n \in FileName : file[n] \notin {Absent, Whole(plan[w], n)}

(* Complete work of the same parameters can be resumed ("Corpus generation *)
(* is deterministic, resumable, and shardable", README.md; the gate resumes*)
(* any existing output and compares evidence that is already there,        *)
(* gates.py): a resuming command alone in the directory is only refused    *)
(* over an incomplete file or one of other parameters.                     *)
Resumable ==
  \A w \in Worker : pc[w] = "refused" /\ resume[w] /\ alone[w] =>
    \E n \in FileName : file[n] \notin {Absent, Whole(plan[w], n)}

=============================================================================
