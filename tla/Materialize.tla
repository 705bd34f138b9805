------------------------------ MODULE Materialize ------------------------------
(***************************************************************************)
(* materialize_profile (src/rechnungsprobe/profiles.py) and                *)
(* safe_extract_zip (security.py): copying the pinned validator and        *)
(* configuration into a directory and unpacking the configuration there,   *)
(* any operation of which may fail half way.                               *)
(*                                                                         *)
(* A path is the sequence of its names below the profile's directory,      *)
(* which is <<>>; a file system maps the paths there are to dir or file.   *)
(* An archive is a sequence of entries: parts, kind (directory or file),   *)
(* admissible (a safe name, no link or special file, not encrypted, within *)
(* the size and ratio limits) and intact (as long as it declares).         *)
(***************************************************************************)
EXTENDS Naturals, Sequences, FiniteSets, SequencesExt

CONSTANTS FileNames,    \* of files and directories
          Archives,     \* the archives that may be in the place of the pinned one
          LowerCase,    \* the lower case of each name
          Operations    \* after how many operations one may fail

Entries ==
  [parts : Seq(FileNames) \ {<<>>}, kind : {"directory", "file"},
   admissible : BOOLEAN, intact : BOOLEAN]
ASSUME FileNamesAssumption ==
  {"validator.jar", "configuration.zip", "repository", "scenarios.xml"} \subseteq FileNames
ASSUME ArchivesAssumption == Archives \subseteq Seq(Entries)
ASSUME OperationsAssumption == Operations \subseteq Nat

(* How a call stands: the file system, what it created so far, whether it  *)
(* has raised, and after how many more operations the next one fails.      *)
Begun(fs, operations) ==
  [fs |-> fs, files |-> <<>>, dirs |-> <<>>, ok |-> TRUE, left |-> operations]
Raised(call) == [call EXCEPT !.ok = FALSE]

Having(fs, path, kind) ==
  [p \in DOMAIN fs \cup {path} |-> IF p = path THEN kind ELSE fs[p]]
Without(fs, paths) == [p \in DOMAIN fs \ paths |-> fs[p]]

MakeDirectory(call, path) ==
  IF ~call.ok THEN call
  ELSE IF call.left = 0 \/ path \in DOMAIN call.fs THEN Raised(call)
  ELSE [call EXCEPT !.fs = Having(@, path, "dir"), !.dirs = Append(@, path),
                    !.left = @ - 1]

(* Exclusive creation, then the contents. *)
MakeFile(call, path, intact) ==
  IF ~call.ok THEN call
  ELSE IF call.left = 0 \/ path \in DOMAIN call.fs THEN Raised(call)
  ELSE [call EXCEPT !.fs = Having(@, path, "file"), !.files = Append(@, path),
                    !.ok = intact /\ call.left > 1,
                    !.left = IF @ > 1 THEN @ - 2 ELSE 0]

MakeDirectories(call, paths) ==
  LET made[k \in 0..Len(paths)] ==
        IF k = 0 THEN call ELSE MakeDirectory(made[k - 1], paths[k])
  IN  made[Len(paths)]

-----------------------------------------------------------------------------
(* ensure_directory: the nearest parent that exists has to be a directory, *)
(* the missing ones below it are made from the top.                        *)
EnsureDirectory(call, path) ==
  LET there == {p \in Prefixes(path) : p \in DOMAIN call.fs}
      nearest == CHOOSE p \in there : \A q \in there : Len(q) <= Len(p)
      missing == [k \in 1..(Len(path) - Len(nearest)) |->
                    SubSeq(path, 1, Len(nearest) + k)]
  IN  IF call.fs[nearest] # "dir" THEN Raised(call)
      ELSE MakeDirectories(call, missing)

Extracted(call, destination, entry) ==
  LET target == destination \o entry.parts
  IN  IF ~call.ok THEN call
      ELSE IF entry.kind = "directory" THEN EnsureDirectory(call, target)
      ELSE MakeFile(EnsureDirectory(call, Front(target)), target, entry.intact)
Extraction(call, destination, archive) ==
  LET after[n \in 0..Len(archive)] ==
        IF n = 0 THEN call ELSE Extracted(after[n - 1], destination, archive[n])
  IN  after[Len(archive)]

(* What was created is removed again: the files, which do not depend on    *)
(* each other, then the directories, the newest first; one that is not     *)
(* empty stays.                                                            *)
RemoveDirectory(fs, path) ==
  IF \E p \in DOMAIN fs : p # path /\ IsPrefix(path, p) THEN fs ELSE Without(fs, {path})
RemoveInOrder(fs, dirs) ==
  LET left[k \in 0..Len(dirs)] ==
        IF k = 0 THEN fs ELSE RemoveDirectory(left[k - 1], dirs[k])
  IN  left[Len(dirs)]
RemoveNewestFirst(fs, dirs) ==
  LET left[k \in 0..Len(dirs)] ==
        IF k = 0 THEN fs ELSE RemoveDirectory(left[k - 1], dirs[Len(dirs) + 1 - k])
  IN  left[Len(dirs)]
Cleaned(call) == RemoveNewestFirst(Without(call.fs, Range(call.files)), call.dirs)

(* Names are compared without regard to case; fold gives the lower case.   *)
Folded(parts, fold) == [k \in DOMAIN parts |-> fold[parts[k]]]
Admitted(archive, fold) ==
  /\ \A i \in DOMAIN archive : archive[i].admissible
  /\ \A i, j \in DOMAIN archive :
       i # j => Folded(archive[i].parts, fold) # Folded(archive[j].parts, fold)

(* safe_extract_zip into a directory that is missing: every entry is       *)
(* admitted before anything is created.                                    *)
SafeExtract(fs, destination, archive, fold, operations) ==
  IF ~Admitted(archive, fold) THEN Raised(Begun(fs, operations))
  ELSE LET made == MakeDirectory(Begun(fs, operations), destination)
           call == Extraction(made, destination, archive)
       IN  IF call.ok THEN call ELSE [call EXCEPT !.fs = Cleaned(call)]

-----------------------------------------------------------------------------
Validator == <<"validator.jar">>
Configuration == <<"configuration.zip">>
Repository == <<"repository">>
Scenarios == <<"repository", "scenarios.xml">>

(* materialize_profile on a directory that is empty, or missing; genuine   *)
(* says whether each of the two copies has its pinned digest.              *)
Materialized(fs, archive, fold, genuine, operations) ==
  LET begun == IF <<>> \in DOMAIN fs THEN Begun(fs, operations)
               ELSE MakeDirectory(Begun(fs, operations), <<>>)
      copied == MakeFile(MakeFile(begun, Validator, genuine[1]),
                         Configuration, genuine[2])
      unpacked == SafeExtract(copied.fs, Repository, archive, fold, copied.left)
      result == IF copied.ok THEN unpacked ELSE copied
  IN  IF result.ok THEN [fs |-> result.fs, ok |-> Scenarios \in Range(result.files)]
      ELSE [fs |-> Without(result.fs, Range(copied.files)), ok |-> FALSE]

EmptyOrMissing == { [p \in {<<>>} |-> "dir"], [p \in {} |-> "dir"] }

(* What a complete unpacking leaves: the two copies, and the members of    *)
(* the archive below the directories they are in.                          *)
Unpacked(archive) ==
  LET members == {Repository \o archive[i].parts : i \in DOMAIN archive}
  IN  {Validator, Configuration} \cup UNION {Prefixes(p) : p \in members}
HasScenarios(archive) ==
  \E i \in DOMAIN archive :
    archive[i].parts = <<"scenarios.xml">> /\ archive[i].kind = "file"

=============================================================================
