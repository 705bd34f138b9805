-------------------------- MODULE CorpusStore_proof --------------------------
(***************************************************************************)
(* Theorems about CorpusStore, for any number of commands, any plans and   *)
(* any names of cases, in whatever order and how often they occur.         *)
(***************************************************************************)
EXTENDS CorpusStore, SequenceLemmas, TLAPS

AtFile == {"create file", "write", "record"}
PastDirectories == {"next", "done"} \cup AtFile

(* Where a command has to be for what it is about to do: the directories   *)
(* exist, a file is left or none is, and no two commands write the same    *)
(* file.                                                                   *)
PlaceInv ==
  /\ \A w \in Worker :
       /\ pc[w] \in {"openCases", "createCases"} \cup PastDirectories => root
       /\ pc[w] \in PastDirectories => caseRoot
       /\ pc[w] \in AtFile => left[w] # <<>>
       /\ pc[w] = "done" => left[w] = <<>>
  /\ \A v, w \in Worker : pc[v] = "write" /\ pc[w] = "write" /\ v # w =>
       Head(left[v]) # Head(left[w])

(* A file that a command has passed is complete and of its own plan. *)
PassedAreWhole ==
  \A w \in Worker : pc[w] # "idle" =>
    \A n \in Range(FilesOf(plan[w], gate[w])) \ Range(left[w]) :
      file[n] = Whole(plan[w], n)

(* The evidence is only at the end, and the manifest is after the cases. *)
InOrder(s) ==
  \A i, j \in DOMAIN s : i < j =>
    s[i] # Evidence /\ (s[i] = Manifest => s[j] = Evidence)

FilesInOrder ==
  \A w \in Worker : InOrder(left[w])

(* A command that was alone when it started still is, or is so no longer.  *)
AloneMeansAlone ==
  \A v, w \in Worker : alone[w] /\ v # w => ~Active(v)

-----------------------------------------------------------------------------
(* Texts and files. *)

(* Absent, torn and complete contents differ, whoever writes them.          *)
LEMMA Texts ==
  ASSUME NEW p \in Plan, NEW n \in FileName
  PROVE  /\ Absent \in Content /\ Torn(p, n) \in Content
         /\ Whole(p, n) \in Content
         /\ Torn(p, n) # Absent /\ Whole(p, n) # Absent
         /\ \A q \in Plan : Torn(p, n) # Whole(q, n)
         /\ ~Absent.whole /\ ~Torn(p, n).whole /\ Whole(p, n).whole
         /\ Whole(p, n) = [text |-> Torn(p, n).text, whole |-> TRUE]
<1>1. Text(p, n) # <<>>
  BY DEF Text
<1>2. Text(p, n) \in {Text(q, m) : q \in Plan, m \in FileName}
  OBVIOUS
<1>3. QED
  BY <1>1, <1>2 DEF Content, Absent, Torn, Whole

(* The manifest and the evidence say which plan they are of. *)
LEMMA PlanIsInText ==
  ASSUME NEW p \in Plan, NEW q \in Plan, NEW n \in {Manifest, Evidence},
         Whole(p, n) = Whole(q, n)
  PROVE  p = q
BY CorpusAssumption DEF Whole, Text

(* The files of a command are sorted: cases, manifest, evidence.            *)
LEMMA FilesTyped ==
  ASSUME NEW p \in Plan, NEW isGate \in BOOLEAN
  PROVE  /\ FilesOf(p, isGate) \in Seq(FileName)
         /\ InOrder(FilesOf(p, isGate))
         /\ Range(CasesOf[p]) \subseteq Range(FilesOf(p, isGate)) \cap CaseName
         /\ Manifest \in Range(FilesOf(p, isGate))
<1>1. CasesOf[p] \in Seq(CaseName)
  BY CorpusAssumption
<1> DEFINE c == CasesOf[p]
           n == Len(c)
           f == FilesOf(p, isGate)
<1>2. n \in Nat /\ DOMAIN c = 1..n /\ \A i \in 1..n : c[i] \in CaseName
  BY <1>1
<1>3. /\ f \in Seq(FileName)
      /\ \A i \in 1..n : f[i] = c[i]
      /\ f[n + 1] = Manifest
      /\ isGate => DOMAIN f = 1..(n + 2) /\ f[n + 2] = Evidence
      /\ ~isGate => DOMAIN f = 1..(n + 1)
  <2>1. CASE isGate
    BY <1>1, <1>2, <2>1 DEF FilesOf, FileName
  <2>2. CASE ~isGate
    BY <1>1, <1>2, <2>2 DEF FilesOf, FileName
  <2>3. QED
    BY <2>1, <2>2
<1>4. Manifest \notin CaseName /\ Evidence \notin CaseName
  BY CorpusAssumption
<1> HIDE DEF f
<1>5. InOrder(f)
  BY <1>2, <1>3, <1>4 DEF InOrder, Manifest, Evidence
<1>6. Range(c) \subseteq Range(f) \cap CaseName /\ Manifest \in Range(f)
  BY <1>2, <1>3 DEF Range
<1>7. QED
  BY <1>3, <1>5, <1>6 DEF f

(* What follows a file in order. *)
LEMMA OrderOfTail ==
  ASSUME NEW s \in Seq(FileName), s # <<>>, InOrder(s)
  PROVE  /\ InOrder(Tail(s))
         /\ Head(s) = Manifest => Range(s) \subseteq {Manifest, Evidence}
         /\ Head(s) = Evidence => Range(s) = {Evidence}
<1>1. /\ Len(s) \in Nat /\ Len(s) > 0 /\ DOMAIN s = 1..Len(s)
      /\ DOMAIN Tail(s) = 1..(Len(s) - 1)
      /\ \A i \in 1..(Len(s) - 1) : Tail(s)[i] = s[i + 1]
      /\ Head(s) = s[1]
  OBVIOUS
<1>2. InOrder(Tail(s))
  BY <1>1 DEF InOrder
<1>3. Head(s) = Manifest => Range(s) \subseteq {Manifest, Evidence}
  BY <1>1 DEF InOrder, Range
<1>4. Head(s) = Evidence => Range(s) = {Evidence}
  BY <1>1 DEF InOrder, Range
<1>5. QED
  BY <1>2, <1>3, <1>4

-----------------------------------------------------------------------------
(* The invariants of one command. *)

Place == {"idle", "open", "create", "openCases", "createCases", "next",
          "create file", "write", "record", "done", "refused", "failed", "killed"}

(* Where command w goes, and only it; what its next place needs is there.   *)
GoesTo(w) ==
  /\ pc' \in [Worker -> Place] /\ pc'[w] # "write"
  /\ \A v \in Worker \ {w} : pc'[v] = pc[v]

MayBeThere(w) ==
  /\ pc'[w] \in {"openCases", "createCases"} \cup PastDirectories => root'
  /\ pc'[w] \in PastDirectories => caseRoot'
  /\ pc'[w] \in AtFile => left[w] # <<>>
  /\ pc'[w] = "done" => left[w] = <<>>

(* A command may go on where what its next place needs is there.            *)
LEMMA MoveKeepsPlaces ==
  ASSUME TypeOK, PlaceInv, NEW w \in Worker, GoesTo(w), MayBeThere(w),
         UNCHANGED <<file, command, left, history>>,
         root' \in BOOLEAN, caseRoot' \in BOOLEAN,
         root => root', caseRoot => caseRoot'
  PROVE  TypeOK' /\ PlaceInv'
<1>1. \A v \in Worker : pc'[v] = "write" => v # w /\ pc[v] = "write"
  BY DEF GoesTo
<1>2. TypeOK'
  BY <1>1 DEF TypeOK, Place, command, history, GoesTo
<1>3. PlaceInv'
  <2>1. \A v \in Worker \ {w} :
          pc'[v] = pc[v] /\ left'[v] = left[v]
    BY DEF GoesTo
  <2>2. \A v \in Worker :
          /\ pc'[v] \in {"openCases", "createCases"} \cup PastDirectories => root'
          /\ pc'[v] \in PastDirectories => caseRoot'
          /\ pc'[v] \in AtFile => left'[v] # <<>>
          /\ pc'[v] = "done" => left'[v] = <<>>
    BY <2>1 DEF PlaceInv, MayBeThere
  <2>3. QED
    BY <1>1, <2>2 DEF PlaceInv
<1>4. QED
  BY <1>2, <1>3

(* The steps that only go on.                                               *)
Moves(w) ==
  \/ OpenOutput(w) \/ CreateOutput(w) \/ OpenCases(w) \/ CreateCases(w)
  \/ FileIsMissing(w) \/ Validate(w) \/ Finish(w)
  \/ ValidationFails(w) \/ WriteFails(w) \/ Kill(w)

(* They only go where what the next place needs is there.                   *)
LEMMA MovesKeepPlaces ==
  ASSUME TypeOK, PlaceInv, NEW w \in Worker, Moves(w)
  PROVE  TypeOK' /\ PlaceInv'
<1> USE DEF PastDirectories, AtFile
<1>1. UNCHANGED <<file, command, left, history>>
  BY DEF Moves, OpenOutput, CreateOutput, OpenCases, CreateCases,
     FileIsMissing, Validate, Finish, ValidationFails, WriteFails, Kill, disk
<1>2. /\ root' \in BOOLEAN /\ (root => root')
      /\ caseRoot' \in BOOLEAN /\ (caseRoot => caseRoot')
  BY DEF Moves, OpenOutput, CreateOutput, OpenCases, CreateCases, TypeOK,
     FileIsMissing, Validate, Finish, ValidationFails, WriteFails, Kill, disk
<1>3. /\ pc[w] \in {"openCases", "createCases"} \cup PastDirectories => root
      /\ pc[w] \in PastDirectories => caseRoot
      /\ pc[w] \in AtFile => left[w] # <<>>
  BY DEF PlaceInv
<1>4. pc \in [Worker -> Place]
  BY DEF TypeOK, Place
<1>5. GoesTo(w)
  <2> USE <1>4 DEF Place, GoesTo, Goto, Refuse
  <2>1. CASE OpenOutput(w) \/ CreateOutput(w)
    BY <2>1 DEF OpenOutput, CreateOutput
  <2>2. CASE OpenCases(w) \/ CreateCases(w)
    BY <2>2 DEF OpenCases, CreateCases
  <2>3. CASE FileIsMissing(w) \/ Validate(w) \/ Finish(w)
    BY <2>3 DEF FileIsMissing, Validate, Finish
  <2>4. CASE ValidationFails(w) \/ WriteFails(w) \/ Kill(w)
    BY <2>4 DEF ValidationFails, WriteFails, Kill
  <2>5. QED
    BY <2>1, <2>2, <2>3, <2>4 DEF Moves
<1>6. MayBeThere(w)
  <2> USE <1>2, <1>3, <1>4 DEF Goto, Refuse, MayBeThere
  <2>1. CASE OpenOutput(w)
    BY <2>1 DEF OpenOutput
  <2>2. CASE CreateOutput(w)
    BY <2>2 DEF CreateOutput
  <2>3. CASE OpenCases(w)
    BY <2>3 DEF OpenCases, disk
  <2>4. CASE CreateCases(w)
    BY <2>4 DEF CreateCases
  <2>5. CASE FileIsMissing(w)
    BY <2>5 DEF FileIsMissing, Looking
  <2>6. CASE Validate(w)
    <3>1. left[w] = <<Evidence>> /\ Len(<<Evidence>>) = 1 /\ Len(<<>>) = 0
      BY <2>6 DEF Validate
    <3>2. left[w] # <<>>
      BY ONLY <3>1
    <3>3. QED
      BY <2>6, <3>2 DEF Validate
  <2>7. CASE Finish(w)
    BY <2>7 DEF Finish
  <2>8. CASE ValidationFails(w) \/ WriteFails(w) \/ Kill(w)
    BY <2>8 DEF ValidationFails, WriteFails, Kill
  <2>9. QED
    BY <2>1, <2>2, <2>3, <2>4, <2>5, <2>6, <2>7, <2>8 DEF Moves
<1>7. QED
  BY <1>1, <1>2, <1>5, <1>6, MoveKeepsPlaces

(* Each step of a command keeps the types and its place in the files.       *)
LEMMA TypeInductive ==
  ASSUME TypeOK, PlaceInv, [Next]_vars
  PROVE  TypeOK' /\ PlaceInv'
<1> USE DEF TypeOK, PlaceInv, PastDirectories, AtFile, disk, command, history,
        Goto, Refuse
<1>1. ASSUME NEW w \in Worker, Start(w)
      PROVE  TypeOK' /\ PlaceInv'
  <2>1. PICK p \in Plan, isGate \in BOOLEAN, resumed \in BOOLEAN :
          /\ plan' = [plan EXCEPT ![w] = p]
          /\ gate' = [gate EXCEPT ![w] = isGate]
          /\ resume' = [resume EXCEPT ![w] = resumed]
          /\ left' = [left EXCEPT ![w] = FilesOf(p, isGate)]
    BY <1>1 DEF Start
  <2>2. FilesOf(p, isGate) \in Seq(FileName)
    BY <2>1, FilesTyped
  <2>3. plan' \in [Worker -> Plan] /\ left' \in [Worker -> Seq(FileName)]
    BY <2>1, <2>2
  <2>4. gate' \in [Worker -> BOOLEAN] /\ resume' \in [Worker -> BOOLEAN]
    BY <2>1
  <2>5. alone' \in [Worker -> BOOLEAN]
    BY <1>1 DEF Start
  <2>6. commands' \in 0..MaxCommands
    <3>1. /\ commands \in 0..MaxCommands /\ MaxCommands \in Nat
          /\ commands < MaxCommands /\ commands' = commands + 1
      BY <1>1, CorpusAssumption DEF Start
    <3>2. QED
      BY ONLY <3>1
  <2>7. /\ UNCHANGED disk /\ pc' = [pc EXCEPT ![w] = "open"]
        /\ \A v \in Worker : v # w => plan'[v] = plan[v] /\ left'[v] = left[v]
    BY <1>1, <2>1 DEF Start
  <2>8. \A v \in Worker :
          \/ /\ pc'[v] = pc[v] /\ plan'[v] = plan[v] /\ left'[v] = left[v]
          \/ pc'[v] = "open"
    BY <2>7
  <2>9. pc' \in [Worker -> Place]
    BY <2>7 DEF Place
  <2>10. TypeOK'
    <3>1. \A v \in Worker : pc'[v] = "write" =>
            file'[Head(left'[v])] = Torn(plan'[v], Head(left'[v]))
      <4>1. ASSUME NEW v \in Worker, pc'[v] = "write"
            PROVE  /\ pc[v] = "write" /\ plan'[v] = plan[v]
                   /\ left'[v] = left[v]
        BY <2>8, <4>1
      <4>2. ASSUME NEW v \in Worker, pc[v] = "write"
            PROVE  file[Head(left[v])] = Torn(plan[v], Head(left[v]))
        BY <4>2
      <4>3. file' = file
        BY <2>7
      <4>4. QED
        BY ONLY <4>1, <4>2, <4>3
    <3>2. /\ root' \in BOOLEAN /\ caseRoot' \in BOOLEAN
          /\ file' \in [FileName -> Content]
          /\ \A n \in FileName : file'[n] # Absent => root' /\ caseRoot'
      BY <2>7
    <3>3. QED
      BY ONLY <2>3, <2>4, <2>5, <2>6, <2>9, <3>1, <3>2 DEF TypeOK, Place
  <2>11. PlaceInv'
    <3>1. \A v \in Worker :
            pc'[v] # "open" => pc'[v] = pc[v] /\ left'[v] = left[v]
      BY <2>8
    <3>2. \A v \in Worker :
            /\ pc'[v] \in {"openCases", "createCases"} \cup PastDirectories => root
            /\ pc'[v] \in PastDirectories => caseRoot
            /\ pc'[v] \in AtFile => left'[v] # <<>>
            /\ pc'[v] = "done" => left'[v] = <<>>
      BY <3>1
    <3>3. \A u, v \in Worker : pc'[u] = "write" /\ pc'[v] = "write" /\ u # v =>
            Head(left'[u]) # Head(left'[v])
      BY <3>1
    <3>4. QED
      BY <2>7, <3>2, <3>3
  <2>12. QED
    BY <2>10, <2>11
<1>2. ASSUME NEW w \in Worker, Moves(w)
      PROVE  TypeOK' /\ PlaceInv'
  BY <1>2, MovesKeepPlaces
<1>3. ASSUME NEW w \in Worker, Compare(w)
      PROVE  TypeOK' /\ PlaceInv'
  <2>1. left[w] # <<>> /\ Tail(left[w]) \in Seq(FileName)
    BY <1>3, TailRange DEF Compare, Looking
  <2>2. CASE ~Identical(w, Head(left[w]))
    <3>1. Goto(w, "refused") /\ UNCHANGED <<disk, command, left, history>>
      BY <1>3, <2>2 DEF Compare
    <3>2. GoesTo(w) /\ MayBeThere(w)
      BY <3>1 DEF Place, GoesTo, MayBeThere
    <3>3. QED
      BY <3>1, <3>2, MoveKeepsPlaces
  <2>3. CASE Identical(w, Head(left[w]))
    <3>1. /\ pc[w] \in {"next", "record"} /\ pc' = [pc EXCEPT ![w] = "next"]
          /\ left' = [left EXCEPT ![w] = Tail(left[w])]
          /\ UNCHANGED <<root, caseRoot, file, plan, gate, resume, alone, commands>>
      BY <1>3, <2>3 DEF Compare, Looking, Pass
    <3>2. left' \in [Worker -> Seq(FileName)] /\ root /\ caseRoot
      BY <2>1, <3>1
    <3>3. \A v \in Worker :
            pc'[v] # "next" => pc'[v] = pc[v] /\ left'[v] = left[v]
      BY <3>1
    <3>4. TypeOK'
      BY <3>1, <3>2, <3>3
    <3>5. PlaceInv'
      <4>1. \A v \in Worker :
              /\ pc'[v] \in {"openCases", "createCases"} \cup PastDirectories => root
              /\ pc'[v] \in PastDirectories => caseRoot
              /\ pc'[v] \in AtFile => left'[v] # <<>>
              /\ pc'[v] = "done" => left'[v] = <<>>
        BY <3>2, <3>3
      <4>2. \A u, v \in Worker : pc'[u] = "write" /\ pc'[v] = "write" /\ u # v =>
              Head(left'[u]) # Head(left'[v])
        BY <3>3
      <4>3. QED
        BY <3>1, <4>1, <4>2
    <3>6. QED
      BY <3>4, <3>5
  <2>4. QED
    BY <2>2, <2>3
<1>4. ASSUME NEW w \in Worker, CreateFile(w)
      PROVE  TypeOK' /\ PlaceInv'
  <2> DEFINE n == Head(left[w])
  <2>1. n \in FileName
    BY <1>4, TailRange DEF CreateFile
  <2>2. CASE file[n] # Absent
    <3>1. /\ Goto(w, "refused")
          /\ UNCHANGED <<root, caseRoot, file, command, left, history>>
      BY <1>4, <2>2 DEF CreateFile, OpenExclusively
    <3>2. GoesTo(w) /\ MayBeThere(w)
      BY <3>1 DEF Place, GoesTo, MayBeThere
    <3>3. QED
      BY <3>1, <3>2, MoveKeepsPlaces
  <2>3. CASE file[n] = Absent
    <3>1. /\ file' = [file EXCEPT ![n] = Torn(plan[w], n)]
          /\ pc' = [pc EXCEPT ![w] = "write"]
          /\ pc[w] = "create file"
          /\ UNCHANGED <<root, caseRoot, command, left, history>>
      BY <1>4, <2>3 DEF CreateFile, OpenExclusively
    <3>2. Torn(plan[w], n) \in Content /\ Torn(plan[w], n) # Absent
      BY <2>1, Texts
    <3>3. ASSUME NEW v \in Worker, pc[v] = "write"
          PROVE  v # w /\ Head(left[v]) # n
      <4>1. Head(left[v]) \in FileName
        BY <3>3, TailRange
      <4>2. /\ plan[v] \in Plan
            /\ file[Head(left[v])] = Torn(plan[v], Head(left[v]))
        BY <3>3
      <4>3. Torn(plan[v], Head(left[v])) # Absent
        BY ONLY <4>1, <4>2, Texts
      <4>4. QED
        BY <2>3, <3>1, <3>3, <4>2, <4>3
    <3>4. /\ file' \in [FileName -> Content]
          /\ file'[n] = Torn(plan[w], n)
          /\ \A m \in FileName \ {n} : file'[m] = file[m]
      BY <2>1, <3>1, <3>2
    <3>5. root /\ caseRoot
      BY <3>1
    <3>6. ASSUME NEW v \in Worker, pc'[v] = "write"
          PROVE  file'[Head(left[v])] = Torn(plan[v], Head(left[v]))
      <4>1. CASE v = w
        BY <3>4, <4>1
      <4>2. CASE v # w
        <5>1. pc[v] = "write" /\ Head(left[v]) # n
          BY <3>1, <3>3, <3>6, <4>2
        <5>2. Head(left[v]) \in FileName
          BY <5>1, TailRange
        <5>3. QED
          BY <3>4, <5>1, <5>2
      <4>3. QED
        BY <4>1, <4>2
    <3>7. TypeOK'
      BY <3>1, <3>4, <3>5, <3>6
    <3>8. PlaceInv'
      BY <3>1, <3>3, <3>5
    <3>9. QED
      BY <3>7, <3>8
  <2>4. QED
    BY <2>2, <2>3
<1>5. ASSUME NEW w \in Worker, Write(w)
      PROVE  TypeOK' /\ PlaceInv'
  <2> DEFINE n == Head(left[w])
  <2>1. left[w] # <<>> /\ n \in FileName /\ Tail(left[w]) \in Seq(FileName)
    BY <1>5, TailRange DEF Write
  <2>2. /\ file' = [file EXCEPT ![n] = Whole(plan[w], n)]
        /\ pc' = [pc EXCEPT ![w] = "next"]
        /\ left' = [left EXCEPT ![w] = Tail(left[w])]
        /\ pc[w] = "write"
        /\ UNCHANGED <<root, caseRoot, command, history>>
    BY <1>5 DEF Write, Pass
  <2>3. Whole(plan[w], n) \in Content /\ root /\ caseRoot
    BY <2>1, <2>2, Texts
  <2>4. ASSUME NEW v \in Worker, pc'[v] = "write"
        PROVE  /\ v # w /\ pc[v] = "write" /\ left'[v] = left[v]
               /\ file'[Head(left[v])] = Torn(plan[v], Head(left[v]))
    <3>1. v # w /\ pc[v] = "write" /\ left'[v] = left[v]
      BY <2>2, <2>4
    <3>2. Head(left[v]) # n
      BY <2>2, <3>1
    <3>3. Head(left[v]) \in FileName
      BY <3>1, TailRange
    <3>4. QED
      BY <2>2, <3>1, <3>2, <3>3
  <2>5. file' \in [FileName -> Content] /\ left' \in [Worker -> Seq(FileName)]
    BY <2>1, <2>2, <2>3
  <2> HIDE DEF n
  <2>6. TypeOK'
    BY <2>2, <2>3, <2>4, <2>5
  <2>7. PlaceInv'
    BY <2>2, <2>3, <2>4
  <2>8. QED
    BY <2>6, <2>7
<1>6. CASE UNCHANGED vars
  BY <1>6 DEF vars
<1>7. QED
  BY <1>1, <1>2, <1>3, <1>4, <1>5, <1>6 DEF Next, Moves

(* Types and places are inductive together.                                 *)
LEMMA TypeInvariant == Spec => [](TypeOK /\ PlaceInv)
<1>1. Init => TypeOK /\ PlaceInv
  <2> SUFFICES ASSUME Init
               PROVE  TypeOK /\ PlaceInv
    OBVIOUS
  <2>1. <<>> \in Seq(FileName) /\ 0 \in 0..MaxCommands /\ Absent \in Content
    BY CorpusAssumption DEF Content
  <2>2. TypeOK
    BY <2>1 DEF Init, TypeOK
  <2>3. PlaceInv
    BY DEF Init, PlaceInv, PastDirectories, AtFile
  <2>4. QED
    BY <2>2, <2>3
<1>2. (TypeOK /\ PlaceInv) /\ [Next]_vars => (TypeOK /\ PlaceInv)'
  BY TypeInductive
<1>3. QED
  BY <1>1, <1>2, PTL DEF Spec

(* The variables only take values of their types, files are only under     *)
(* existing directories, and a command about to write is at a file that it *)
(* created itself (_write_or_verify).                                      *)
THEOREM TypeCorrect == Spec => []TypeOK
BY TypeInvariant, PTL

-----------------------------------------------------------------------------
(* The files: created once, completed once.                                *)

(* What a step can do to one file: create it, or complete it.               *)
LEMMA FileStep ==
  ASSUME TypeOK, PlaceInv, [Next]_vars, NEW n \in FileName
  PROVE  \/ file'[n] = file[n]
         \/ file[n] = Absent /\ \E p \in Plan : file'[n] = Torn(p, n)
         \/ \E w \in Worker :
              /\ pc[w] = "write" /\ left[w] # <<>> /\ n = Head(left[w])
              /\ file[n] = Torn(plan[w], n)
              /\ file'[n] = Whole(plan[w], n)
<1>1. CASE file' = file
  BY <1>1
<1>2. ASSUME NEW w \in Worker, CreateFile(w)
      PROVE  \/ file'[n] = file[n]
             \/ file[n] = Absent /\ file'[n] = Torn(plan[w], n)
  BY <1>2 DEF CreateFile, OpenExclusively, TypeOK
<1>3. ASSUME NEW w \in Worker, Write(w)
      PROVE  \/ file'[n] = file[n]
             \/ /\ pc[w] = "write" /\ left[w] # <<>> /\ n = Head(left[w])
                /\ file[n] = Torn(plan[w], n)
                /\ file'[n] = Whole(plan[w], n)
  BY <1>3 DEF Write, TypeOK, PlaceInv, AtFile
<1>4. \A w \in Worker : plan[w] \in Plan
  BY DEF TypeOK
<1>5. QED
  BY <1>1, <1>2, <1>3, <1>4 DEF Next, vars, disk, Start, OpenOutput,
     CreateOutput, OpenCases, CreateCases, Compare, FileIsMissing, Validate,
     Finish, ValidationFails, WriteFails, Kill

(* A complete file stays what it is.                                        *)
LEMMA WholeStays ==
  ASSUME TypeOK, PlaceInv, [Next]_vars, NEW n \in FileName, NEW p \in Plan,
         file[n] = Whole(p, n)
  PROVE  file'[n] = Whole(p, n)
<1>1. file[n] # Absent
  BY Texts
<1>2. ASSUME NEW w \in Worker
      PROVE  file[n] # Torn(plan[w], n)
  <2>1. plan[w] \in Plan
    BY DEF TypeOK
  <2>2. QED
    BY <2>1, Texts
<1>3. QED
  BY <1>1, <1>2, FileStep

(* A file is created once and completed once, with the text of the command *)
(* that created it, whoever runs at the same time (_write_or_verify).      *)
THEOREM FilesNeverRewritten == Spec => NeverRewritten
<1>1. TypeOK /\ PlaceInv /\ [Next]_vars =>
        [\A n \in FileName : file'[n] # file[n] =>
           \/ file[n] = Absent /\ ~file'[n].whole
           \/ ~file[n].whole
              /\ file'[n] = [text |-> file[n].text, whole |-> TRUE]]_vars
  <2> SUFFICES ASSUME TypeOK, PlaceInv, [Next]_vars, NEW n \in FileName,
                      file'[n] # file[n]
               PROVE  \/ file[n] = Absent /\ ~file'[n].whole
                      \/ /\ ~file[n].whole
                         /\ file'[n] = [text |-> file[n].text, whole |-> TRUE]
    OBVIOUS
  <2>1. ASSUME NEW p \in Plan, file'[n] = Torn(p, n)
        PROVE  ~file'[n].whole
    BY <2>1, Texts
  <2>2. ASSUME NEW w \in Worker, file[n] = Torn(plan[w], n),
               file'[n] = Whole(plan[w], n)
        PROVE  /\ ~file[n].whole
               /\ file'[n] = [text |-> file[n].text, whole |-> TRUE]
    <3>1. plan[w] \in Plan
      BY DEF TypeOK
    <3>2. QED
      BY <2>2, <3>1, Texts
  <2>3. QED
    BY <2>1, <2>2, FileStep
<1>2. QED
  BY <1>1, TypeInvariant, PTL DEF Spec, NeverRewritten

-----------------------------------------------------------------------------
(* What a command has seen: the files it passed are its own, complete.     *)

Same(v) ==
  /\ plan'[v] = plan[v] /\ gate'[v] = gate[v] /\ left'[v] = left[v]
  /\ pc'[v] # "idle" => pc[v] # "idle"
Starts(v) ==
  /\ plan'[v] \in Plan /\ gate'[v] \in BOOLEAN
  /\ left'[v] = FilesOf(plan'[v], gate'[v])
Passes(v) ==
  /\ plan'[v] = plan[v] /\ gate'[v] = gate[v]
  /\ pc[v] # "idle"
  /\ left[v] # <<>> /\ left'[v] = Tail(left[v])
  /\ file'[Head(left[v])] = Whole(plan[v], Head(left[v]))

(* What a step can do to the place of one command.                          *)
LEMMA CommandStep ==
  ASSUME TypeOK, PlaceInv, [Next]_vars, NEW v \in Worker
  PROVE  Same(v) \/ Starts(v) \/ Passes(v)
<1>1. ASSUME NEW w \in Worker, Start(w)
      PROVE  Same(v) \/ Starts(v)
  BY <1>1 DEF Start, Goto, Same, Starts, TypeOK
<1>2. ASSUME NEW w \in Worker,
             \/ OpenOutput(w) \/ CreateOutput(w) \/ OpenCases(w)
             \/ CreateCases(w) \/ FileIsMissing(w) \/ CreateFile(w)
             \/ Validate(w) \/ Finish(w)
             \/ ValidationFails(w) \/ WriteFails(w) \/ Kill(w)
      PROVE  Same(v)
  <2> USE <1>2 DEF OpenOutput, CreateOutput, OpenCases, CreateCases,
          FileIsMissing, Looking, CreateFile, Validate, Finish,
          ValidationFails, WriteFails, Kill, Active, command, Goto, Refuse
  <2>1. UNCHANGED <<plan, gate, left>>
    OBVIOUS
  <2>2. pc[w] # "idle"
    OBVIOUS
  <2>3. \E to : pc' = [pc EXCEPT ![w] = to]
    OBVIOUS
  <2>4. QED
    BY ONLY TypeOK, <2>1, <2>2, <2>3 DEF TypeOK, Same
<1>3. ASSUME NEW w \in Worker, Compare(w)
      PROVE  Same(v) \/ Passes(v)
  <2>1. /\ pc[w] \in {"next", "record"} /\ left[w] # <<>>
        /\ UNCHANGED <<file, plan, gate>>
    BY <1>3 DEF Compare, Looking, disk, command, PlaceInv, AtFile
  <2>2. CASE Identical(w, Head(left[w]))
    <3>1. /\ pc' = [pc EXCEPT ![w] = "next"]
          /\ left' = [left EXCEPT ![w] = Tail(left[w])]
      BY <1>3, <2>2 DEF Compare, Pass, Goto
    <3>2. QED
      BY <2>1, <2>2, <3>1 DEF Identical, TypeOK, Same, Passes
  <2>3. CASE ~Identical(w, Head(left[w]))
    BY <1>3, <2>1, <2>3 DEF Compare, Refuse, Goto, TypeOK, Same
  <2>4. QED
    BY <2>2, <2>3
<1>4. ASSUME NEW w \in Worker, Write(w)
      PROVE  Same(v) \/ Passes(v)
  <2> USE <1>4 DEF Write, Pass, Goto, command, TypeOK, Same
  <2>1. CASE v = w
    <3>1. left[v] # <<>> /\ Head(left[v]) \in FileName
      BY <2>1, TailRange DEF PlaceInv, AtFile
    <3>2. QED
      BY <2>1, <3>1 DEF Passes
  <2>2. CASE v # w
    BY <2>2
  <2>3. QED
    BY <2>1, <2>2
<1>5. CASE UNCHANGED vars
  BY <1>5 DEF vars, command, Same
<1>6. QED
  BY <1>1, <1>2, <1>3, <1>4, <1>5 DEF Next

(* What a command has passed is complete, and it goes in order.             *)
LEMMA WorkInductive ==
  ASSUME TypeOK, PlaceInv, PassedAreWhole, FilesInOrder, [Next]_vars
  PROVE  PassedAreWhole' /\ FilesInOrder'
<1> DEFINE Files(v) == Range(FilesOf(plan[v], gate[v]))
<1>1. ASSUME NEW v \in Worker
      PROVE  /\ InOrder(left'[v])
             /\ pc'[v] # "idle" =>
                  \A n \in Range(FilesOf(plan'[v], gate'[v]))
                             \ Range(left'[v]) :
                    file'[n] = Whole(plan'[v], n)
  <2>1. /\ left[v] \in Seq(FileName) /\ plan[v] \in Plan
        /\ gate[v] \in BOOLEAN /\ InOrder(left[v])
    BY DEF TypeOK, FilesInOrder
  <2>2. pc[v] # "idle" => \A n \in Files(v) \ Range(left[v]) :
                            n \in FileName /\ file[n] = Whole(plan[v], n)
    BY <2>1, FilesTyped, SeqRange DEF PassedAreWhole
  <2>3. pc[v] # "idle" => \A n \in Files(v) \ Range(left[v]) :
                            file'[n] = Whole(plan[v], n)
    BY <2>1, <2>2, WholeStays
  <2>4. CASE Same(v)
    BY <2>1, <2>3, <2>4 DEF Same
  <2>5. CASE Starts(v)
    BY <2>5, FilesTyped DEF Starts
  <2>6. CASE Passes(v)
    <3>1. /\ InOrder(Tail(left[v]))
          /\ Range(left[v]) = {Head(left[v])} \cup Range(Tail(left[v]))
      BY <2>1, <2>6, OrderOfTail, TailRange DEF Passes
    <3>2. QED
      BY <2>3, <2>6, <3>1 DEF Passes
  <2>7. QED
    BY <2>4, <2>5, <2>6, CommandStep
<1>2. QED
  BY <1>1 DEF PassedAreWhole, FilesInOrder

(* The evidence is written last.                                            *)
LEMMA EvidenceInductive ==
  ASSUME TypeOK, PlaceInv, PassedAreWhole, FilesInOrder, EvidenceRestsOnFiles,
         [Next]_vars
  PROVE  EvidenceRestsOnFiles'
<1>1. ASSUME NEW p \in Plan, NEW n \in {Manifest, Evidence},
             file'[n] = Whole(p, n), file[n] # Whole(p, n)
      PROVE  \E w \in Worker :
               /\ pc[w] # "idle" /\ left[w] # <<>> /\ n = Head(left[w])
               /\ plan[w] = p
  <2>1. n \in FileName
    BY DEF FileName
  <2>2. \A q \in Plan : file'[n] # Torn(q, n)
    BY <1>1, <2>1, Texts
  <2>3. PICK w \in Worker :
          /\ pc[w] = "write" /\ left[w] # <<>> /\ n = Head(left[w])
          /\ file'[n] = Whole(plan[w], n)
    BY <1>1, <2>1, <2>2, FileStep
  <2>4. plan[w] \in Plan
    BY DEF TypeOK
  <2>5. plan[w] = p
    BY <1>1, <2>3, <2>4, PlanIsInText
  <2>6. QED
    BY <2>3, <2>5
<1>2. ASSUME NEW p \in Plan, file'[Manifest] = Whole(p, Manifest),
             NEW n \in Range(CasesOf[p])
      PROVE  file'[n] = Whole(p, n)
  <2>1. n \in CaseName /\ n \in FileName /\ n \notin {Manifest, Evidence}
    BY CorpusAssumption, SeqRange DEF FileName
  <2>2. CASE file[Manifest] = Whole(p, Manifest)
    BY <2>1, <2>2, WholeStays DEF EvidenceRestsOnFiles
  <2>3. CASE file[Manifest] # Whole(p, Manifest)
    <3>1. PICK w \in Worker :
            /\ pc[w] # "idle" /\ left[w] # <<>> /\ Manifest = Head(left[w])
            /\ plan[w] = p
      BY <1>1, <1>2, <2>3
    <3>2. Range(left[w]) \subseteq {Manifest, Evidence}
      BY <3>1, OrderOfTail DEF TypeOK, FilesInOrder
    <3>3. n \in Range(FilesOf(plan[w], gate[w])) \ Range(left[w])
      BY <2>1, <3>1, <3>2, FilesTyped DEF TypeOK
    <3>4. file[n] = Whole(p, n)
      BY <3>1, <3>3 DEF PassedAreWhole
    <3>5. QED
      BY <2>1, <3>4, WholeStays
  <2>4. QED
    BY <2>2, <2>3
<1>3. ASSUME NEW p \in Plan, file'[Evidence] = Whole(p, Evidence)
      PROVE  file'[Manifest] = Whole(p, Manifest)
  <2>1. Manifest \in FileName /\ Manifest # Evidence
    BY DEF FileName, Manifest, Evidence
  <2>2. CASE file[Evidence] = Whole(p, Evidence)
    BY <2>1, <2>2, WholeStays DEF EvidenceRestsOnFiles
  <2>3. CASE file[Evidence] # Whole(p, Evidence)
    <3>1. PICK w \in Worker :
            /\ pc[w] # "idle" /\ left[w] # <<>> /\ Evidence = Head(left[w])
            /\ plan[w] = p
      BY <1>1, <1>3, <2>3
    <3>2. Range(left[w]) = {Evidence}
      BY <3>1, OrderOfTail DEF TypeOK, FilesInOrder
    <3>3. Manifest \in Range(FilesOf(plan[w], gate[w])) \ Range(left[w])
      BY <2>1, <3>1, <3>2, FilesTyped DEF TypeOK
    <3>4. file[Manifest] = Whole(p, Manifest)
      BY <3>1, <3>3 DEF PassedAreWhole
    <3>5. QED
      BY <2>1, <3>4, WholeStays
  <2>4. QED
    BY <2>2, <2>3
<1>4. QED
  BY <1>2, <1>3 DEF EvidenceRestsOnFiles

(* The work of every command, and what its evidence rests on.               *)
LEMMA WorkInvariant ==
  Spec => [](PassedAreWhole /\ FilesInOrder /\ EvidenceRestsOnFiles)
<1>1. Init => PassedAreWhole /\ FilesInOrder /\ EvidenceRestsOnFiles
  <2> SUFFICES ASSUME Init
               PROVE  PassedAreWhole /\ FilesInOrder /\ EvidenceRestsOnFiles
    OBVIOUS
  <2>1. PassedAreWhole
    BY DEF Init, PassedAreWhole
  <2>2. FilesInOrder
    BY DEF Init, FilesInOrder, InOrder
  <2>3. ASSUME NEW n \in FileName, NEW p \in Plan
        PROVE  file[n] # Whole(p, n)
    BY Texts DEF Init
  <2>4. EvidenceRestsOnFiles
    BY <2>3 DEF EvidenceRestsOnFiles, FileName
  <2>5. QED
    BY <2>1, <2>2, <2>4
<1>2. (TypeOK /\ PlaceInv)
        /\ (PassedAreWhole /\ FilesInOrder /\ EvidenceRestsOnFiles)
        /\ [Next]_vars
      => (PassedAreWhole /\ FilesInOrder /\ EvidenceRestsOnFiles)'
  BY WorkInductive, EvidenceInductive
<1>3. QED
  BY <1>1, <1>2, TypeInvariant, PTL DEF Spec

(* Complete evidence of the gate always stands beside the manifest of its  *)
(* plan, and a complete manifest beside all its cases, whatever was killed *)
(* or ran at the same time (materialize_corpus, run_corpus_gate).          *)
THEOREM EvidenceHolds == Spec => []EvidenceRestsOnFiles
BY WorkInvariant, PTL

(* A command that has seen all its files has them complete, with the bytes *)
(* of its own parameters; a later command does not change that.            *)
THEOREM DoneHolds == Spec => []DoneMeansOnDisk
<1>1. TypeOK /\ PlaceInv /\ PassedAreWhole => DoneMeansOnDisk
  BY EmptyRange DEF PlaceInv, PassedAreWhole, DoneMeansOnDisk
<1>2. QED
  BY <1>1, TypeInvariant, WorkInvariant, PTL

-----------------------------------------------------------------------------
(* A command alone in the directory is refused over what it finds there.   *)

(* The steps of a command under way. *)
Work(w) ==
  \/ OpenOutput(w) \/ CreateOutput(w) \/ OpenCases(w) \/ CreateCases(w)
  \/ Compare(w) \/ FileIsMissing(w) \/ CreateFile(w) \/ Write(w)
  \/ Validate(w) \/ Finish(w)
  \/ ValidationFails(w) \/ WriteFails(w) \/ Kill(w)

(* A step of an active command changes nobody else's place.                 *)
LEMMA WorkIsOwn ==
  ASSUME NEW w \in Worker, Work(w)
  PROVE  /\ Active(w) /\ UNCHANGED alone
         /\ \E to : pc' = [pc EXCEPT ![w] = to]
BY DEF Work, OpenOutput, CreateOutput, OpenCases, CreateCases, Compare,
   Looking, FileIsMissing, CreateFile, Write, Pass, Validate, Finish,
   ValidationFails, WriteFails, Kill, Active, history, Goto, Refuse

(* A command is alone when it started while no other was active.            *)
LEMMA StartIsAlone ==
  ASSUME NEW w \in Worker, Start(w), NEW v \in Worker, alone'[v]
  PROVE  v = w /\ \A u \in Worker : ~Active(u)
<1>1. alone' = [u \in Worker |-> u = w /\ ~\E x \in Worker : Active(x)]
  BY DEF Start
<1>2. alone'[v] = (v = w /\ ~\E x \in Worker : Active(x))
  BY <1>1, Zenon
<1>3. QED
  BY <1>2, Zenon

(* Nobody is active beside a command that is alone.                         *)
LEMMA AloneStep ==
  ASSUME TypeOK, AloneMeansAlone, [Next]_vars
  PROVE  AloneMeansAlone'
<1>1. ASSUME NEW w \in Worker, Start(w), NEW v \in Worker, NEW u \in Worker,
             alone'[v], u # v
      PROVE  ~Active(u)'
  <2>1. v = w /\ ~Active(u)
    BY <1>1, StartIsAlone
  <2>2. pc'[u] = pc[u]
    BY <1>1, <2>1 DEF Start, Goto, TypeOK
  <2>3. QED
    BY <2>1, <2>2 DEF Active
<1>2. ASSUME NEW w \in Worker, Work(w), NEW v \in Worker, NEW u \in Worker,
             alone'[v], u # v
      PROVE  ~Active(u)'
  <2>1. ~Active(u) /\ Active(w)
    BY <1>2, WorkIsOwn DEF AloneMeansAlone
  <2>2. pc'[u] = pc[u]
    BY <1>2, <2>1, WorkIsOwn DEF TypeOK
  <2>3. QED
    BY <2>1, <2>2 DEF Active
<1>3. CASE UNCHANGED vars
  BY <1>3 DEF vars, history, AloneMeansAlone, Active
<1>4. (\E w \in Worker : Start(w) \/ Work(w)) \/ UNCHANGED vars
  BY DEF Next, Work
<1>5. QED
  BY <1>1, <1>2, <1>3, <1>4 DEF AloneMeansAlone

(* While a command is alone, every step is its own.                         *)
LEMMA OwnStep ==
  ASSUME TypeOK, AloneMeansAlone, [Next]_vars, NEW v \in Worker, alone'[v]
  PROVE  Start(v) \/ (Work(v) /\ alone[v]) \/ (UNCHANGED vars /\ alone[v])
<1>1. ASSUME NEW w \in Worker, Start(w)
      PROVE  Start(v)
  BY <1>1, StartIsAlone
<1>2. ASSUME NEW w \in Worker, Work(w)
      PROVE  Work(v) /\ alone[v]
  BY <1>2, WorkIsOwn DEF AloneMeansAlone
<1>3. ASSUME UNCHANGED vars
      PROVE  alone[v]
  BY <1>3 DEF vars, history
<1>4. (\E w \in Worker : Start(w) \/ Work(w)) \/ UNCHANGED vars
  BY DEF Next, Work
<1>5. QED
  BY <1>1, <1>2, <1>3, <1>4

Found(v) ==
  /\ pc[v] = "create" => ~root
  /\ pc[v] = "createCases" => ~caseRoot
  /\ pc[v] = "create file" => file[Head(left[v])] = Absent
  /\ pc[v] = "refused" /\ resume[v] =>
       \/ file[Evidence] # Absent
       \/ \E n \in FileName : file[n] \notin {Absent, Whole(plan[v], n)}

(* While it is alone, the directory is what it found or wrote.              *)
LEMMA FoundStep ==
  ASSUME TypeOK, PlaceInv, NEW v \in Worker, Found(v), Work(v)
  PROVE  Found(v)'
<1> USE DEF Found, TypeOK, Goto, Refuse, command, disk
<1>1. CASE OpenOutput(v)
  BY <1>1 DEF OpenOutput, NothingUnexpected
<1>2. CASE CreateOutput(v) \/ OpenCases(v) \/ CreateCases(v)
  <2>1. CASE CreateOutput(v)
    BY <2>1 DEF CreateOutput
  <2>2. CASE OpenCases(v)
    BY <2>2 DEF OpenCases
  <2>3. CASE CreateCases(v)
    BY <2>3 DEF CreateCases
  <2>4. QED
    BY <1>2, <2>1, <2>2, <2>3
<1>3. CASE Compare(v)
  <2>1. Head(left[v]) \in FileName
    BY <1>3, TailRange DEF Compare, Looking, PlaceInv, AtFile
  <2>2. CASE Identical(v, Head(left[v]))
    BY <1>3, <2>2 DEF Compare, Pass
  <2>3. CASE ~Identical(v, Head(left[v]))
    BY <1>3, <2>1, <2>3 DEF Compare, Identical
  <2>4. QED
    BY <2>2, <2>3
<1>4. CASE FileIsMissing(v)
  BY <1>4 DEF FileIsMissing
<1>5. CASE CreateFile(v) \/ Write(v)
  <2>1. CASE Write(v)
    BY <2>1 DEF Write, Pass
  <2>2. CASE CreateFile(v)
    <3>1. pc[v] = "create file" /\ file[Head(left[v])] = Absent
      BY <2>2 DEF CreateFile
    <3>2. pc' = [pc EXCEPT ![v] = "write"]
      BY <2>2, <3>1 DEF CreateFile, OpenExclusively
    <3>3. QED
      BY <3>2
  <2>3. QED
    BY <1>5, <2>1, <2>2
<1>6. CASE \/ Validate(v) \/ Finish(v)
           \/ ValidationFails(v) \/ WriteFails(v) \/ Kill(v)
  BY <1>6 DEF Validate, Finish, ValidationFails, WriteFails, Kill
<1>7. QED
  BY <1>1, <1>2, <1>3, <1>4, <1>5, <1>6 DEF Work

AllFound == \A v \in Worker : alone[v] => Found(v)

(* A resuming command that has the directory for itself is only refused    *)
(* over evidence of a gate, an incomplete file or a file of other          *)
(* parameters: never over complete or partial work of its own.             *)
THEOREM RefusalsHaveReasons == Spec => []RefusalHasReason
<1>1. Init => AloneMeansAlone /\ AllFound
  BY DEF Init, AloneMeansAlone, AllFound, Found
<1>2. TypeOK /\ PlaceInv /\ AloneMeansAlone /\ AllFound /\ [Next]_vars
      => AloneMeansAlone' /\ AllFound'
  <2> SUFFICES ASSUME TypeOK, PlaceInv, AloneMeansAlone, AllFound,
                      [Next]_vars, NEW v \in Worker, alone'[v]
               PROVE  Found(v)'
    BY AloneStep DEF AllFound
  <2>1. CASE Start(v)
    BY <2>1 DEF Start, Goto, Found, TypeOK
  <2>2. CASE Work(v) /\ alone[v]
    BY <2>2, FoundStep DEF AllFound
  <2>3. CASE UNCHANGED vars /\ alone[v]
    BY <2>3 DEF vars, disk, command, Found, AllFound
  <2>4. QED
    BY <2>1, <2>2, <2>3, OwnStep
<1>3. AllFound => RefusalHasReason
  BY DEF AllFound, Found, RefusalHasReason
<1>4. QED
  BY <1>1, <1>2, <1>3, TypeInvariant, PTL DEF Spec

=============================================================================
