----------------------------- MODULE DirectoryScan -----------------------------
(***************************************************************************)
(* _directory_usage of src/rechnungsprobe/process.py: a walk that counts   *)
(* the entries of a workspace while an importer may create and remove      *)
(* them.  What disappears between scandir and stat starts a new attempt,   *)
(* three in all; a link, a directory that cannot be listed, or too many    *)
(* entries end it as an overflow.                                          *)
(*                                                                         *)
(* The bytes of files are added up on the same walk and left out.  A       *)
(* directory is listed at once; entries are not moved, and a name that was *)
(* removed does not come back.                                             *)
(***************************************************************************)
EXTENDS TargetParameters

Attempts == 3      \* _DIRECTORY_SCAN_ATTEMPTS

VARIABLES
  tree,            \* what each entry is; new or gone when it is not there
  outcome,         \* of the scan: off, walking, counted or overflow
  attempt, pending, count, limit,
  listing,         \* entries of the directory just listed, not looked at yet
  \* history of the current attempt, and of the whole scan
  throughout,      \* the entries that were there all the time
  ever,            \* those that were there at some time, and what they were
  races            \* how often the attempts so far lost an entry

scan == <<outcome, attempt, pending, count, limit, listing, throughout, ever, races>>

Present(p) == tree[p] \notin {"new", "gone"}
Entries == {p \in Name : Present(p)}
Met(entries) == {<<p, tree[p]>> : p \in entries}
StillThere(directory) == directory = Root \/ Present(directory)
Open(directory) == directory = Root \/ tree[directory] # "sealed"

ScanInit ==
  /\ outcome = "off" /\ attempt = 0 /\ pending = <<>> /\ count = 0 /\ limit = 0
  /\ listing = {} /\ throughout = {} /\ ever = {} /\ races = 0

-----------------------------------------------------------------------------
KeepCounting ==
  /\ pending' = <<Root>> /\ listing' = {} /\ UNCHANGED count
  /\ throughout' = Entries /\ ever' = Met(Entries)
NewAttempt ==
  /\ pending' = <<Root>> /\ listing' = {} /\ count' = 0
  /\ throughout' = Entries /\ ever' = Met(Entries)

BeginScan(scanLimit) ==
  /\ NewAttempt
  /\ outcome' = "walking" /\ attempt' = 1 /\ limit' = scanLimit /\ races' = 0

Overflow ==
  /\ outcome' = "overflow"
  /\ UNCHANGED <<attempt, pending, count, limit, listing, throughout, ever, races>>

(* FileNotFoundError: a new attempt starts from nothing, the last one      *)
(* gives up.                                                               *)
RetryEntry == UNCHANGED scan
Retry ==
  IF attempt = Attempts
  THEN /\ outcome' = "overflow" /\ races' = races + 1
       /\ UNCHANGED <<attempt, pending, count, limit, listing, throughout, ever>>
  ELSE /\ NewAttempt
       /\ attempt' = attempt + 1 /\ races' = races + 1
       /\ UNCHANGED <<outcome, limit>>

ListDirectory ==
  /\ outcome = "walking" /\ listing = {} /\ pending # <<>>
  /\ LET directory == Last(pending)
     IN  IF ~StillThere(directory) THEN Retry
         ELSE IF ~Open(directory) THEN Overflow
         ELSE /\ pending' = Front(pending)
              /\ listing' = Met({p \in Entries : Under[p] = directory})
              /\ UNCHANGED <<outcome, attempt, count, limit, throughout, ever, races>>
  /\ UNCHANGED tree

(* The entries come in no particular order; what kind they are is known    *)
(* from the listing, only stat looks again.                                *)
LookAt(p, kind) ==
  /\ count' = count + 1
  /\ listing' = listing \ {<<p, kind>>}
  /\ pending' = IF kind \in {"dir", "sealed"} THEN Append(pending, p) ELSE pending
  /\ UNCHANGED <<outcome, attempt, limit, throughout, ever, races>>

CountEntry ==
  /\ outcome = "walking"
  /\ \E entry \in listing :
       IF count + 1 > limit THEN Overflow
       ELSE IF ~Present(entry[1]) THEN Retry
       ELSE IF entry[2] = "link" THEN Overflow
       ELSE LookAt(entry[1], entry[2])
  /\ UNCHANGED tree

EndScan ==
  /\ outcome = "walking" /\ listing = {} /\ pending = <<>>
  /\ outcome' = "counted"
  /\ UNCHANGED <<tree, attempt, pending, count, limit, listing, throughout, ever, races>>

Scan == ListDirectory \/ CountEntry \/ EndScan
Scanned == outcome \in {"counted", "overflow"}
TakeResult ==                    \* the caller reads it; locals are gone
  /\ outcome' = "off" /\ attempt' = 0 /\ pending' = <<>> /\ count' = 0 /\ limit' = 0
  /\ listing' = {} /\ throughout' = {} /\ ever' = {} /\ races' = 0

-----------------------------------------------------------------------------
(* Whoever works in the directory. *)
Create(p) ==
  /\ tree[p] = "new"
  /\ Under[p] \in {Root} \cup {q \in Entries : tree[q] = "dir"}
  /\ \E kind \in Kinds[p] :
        /\ tree' = [tree EXCEPT ![p] = kind]
        /\ ever' = IF outcome = "walking" THEN ever \cup {<<p, kind>>} ELSE ever
  /\ UNCHANGED <<outcome, attempt, pending, count, limit, listing, throughout, races>>

Delete(p) ==
  /\ Present(p)
  /\ \A q \in Entries : Under[q] # p
  /\ tree' = [tree EXCEPT ![p] = "gone"]
  /\ throughout' = IF outcome = "walking" THEN throughout \ {p} ELSE throughout
  /\ UNCHANGED <<outcome, attempt, pending, count, limit, listing, ever, races>>

Change == \E p \in Name : Create(p) \/ Delete(p)

-----------------------------------------------------------------------------
Bad == {"link", "sealed"}

(* However the importer works in the directory meanwhile: a scan that      *)
(* succeeds counted every entry that was there throughout its last attempt *)
(* and none that was not there during it, each once; and a scan is only    *)
(* given up for something that is wrong with the directory, or when each   *)
(* of three attempts lost an entry, so that the harmless race of a removed *)
(* temporary file stops no importer by itself (process.py:270-310).        *)
ScanTellsTheTruth ==
  /\ outcome = "counted" =>
       Cardinality(throughout) <= count /\ count <= Cardinality(ever)
  /\ outcome = "overflow" =>
       \/ races = Attempts \/ Cardinality(ever) > limit
       \/ \E entry \in ever : entry[2] \in Bad
=============================================================================
