----------------------------- MODULE TargetParameters -----------------------------
(* The instances of ContainerTarget, DirectoryScan and LocalTarget. *)
EXTENDS Naturals, Sequences, FiniteSets, SequencesExt

CONSTANTS
  \* container calls
  Call,       \* calls of run_container_target with the same workspace path
  Staged,     \* a call creates files of its own (input.xml or output) first
  MaxOutput,  \* bound: what an importer writes to its output file
  \* the workspace of a local call
  Name,       \* the entries there can be
  Root,       \* the workspace itself
  Under,      \* the directory, or Root, that an entry is in
  Kinds,      \* what an entry can be created as
  Files,      \* .target-files, with the staged
  Copy,       \* copy in it
  Input,      \* input.xml
  Output,     \* the configured output file
  \* a local call
  Chunks,     \* chunks of the argument file
  MaxEdits,   \* bound: edits of the argument file
  MaxCreated  \* max_created_files

(* What a cidfile is when it names no container. *)
NoFile == "no file"
Empty == "empty"

ASSUME ContainerAssumption ==
  /\ IsFiniteSet(Call) /\ NoFile \notin Call /\ Empty \notin Call
  /\ Staged \in BOOLEAN
  /\ MaxOutput \in Nat

ASSUME NameAssumption ==
  /\ IsFiniteSet(Name) /\ Root \notin Name
  /\ Under \in [Name -> Name \cup {Root}]
  /\ Kinds \in [Name -> SUBSET {"file", "dir", "sealed", "link"}]
  \* no entry is below itself
  /\ \A names \in SUBSET Name :
        names # {} => \E p \in names : Under[p] \notin names

ASSUME LocalAssumption ==
  /\ {Files, Copy, Input, Output} \subseteq Name /\ Input # Files
  /\ Under[Files] = Root /\ Under[Copy] = Files /\ Under[Input] = Root
  /\ Chunks \in Nat \ {0} /\ MaxEdits \in Nat /\ MaxCreated \in Nat
=============================================================================
