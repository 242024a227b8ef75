------------------------------- MODULE Repair -------------------------------
(***************************************************************************)
(* Rebuilding a palace in place (repair.rs: rebuild_index,                 *)
(* rebuild_from_sqlite and rebuild_vector_index).  A repair copies the     *)
(* palace directory to a backup, builds a new palace in a staging          *)
(* directory, renames the palace out of the way, renames the new one into  *)
(* its place, and removes what it needs no more; when it fails it puts the *)
(* backup back.  The third kind takes the backup and drops it.  Every step *)
(* may be the last one of the process, and no lock keeps users away.       *)
(*                                                                         *)
(* A directory holds the table of drawers, the JSON file of drawers, and   *)
(* everything else mempalace keeps in a palace: the knowledge graph, the   *)
(* coordination tables, sessions, the audit log.  What cannot be read      *)
(* counts as empty.  One repair runs at a time.                            *)
(***************************************************************************)
EXTENDS Naturals, FiniteSets

CONSTANTS
  Drawers,
  Quiet  \* nobody opens the palace while a repair is running

ASSUME RepairAssumption == Quiet \in BOOLEAN

VARIABLES
  dir,        \* the four directories
  pc,         \* the next step of the repair, "idle" without one
  mode,       \* which of the three repairs it is
  whole,      \* history: its backup is a copy of the whole palace
  stored,     \* history: the drawers that users have stored
  risk        \* history: the gravest thing that has happened

vars == <<dir, pc, mode, whole, stored, risk>>

\* <palace>, <palace>.tmp, palace.palace.bak, <palace>.pre-repair.bak.
Places == {"palace", "staging", "aside", "backup"}

Content == [there : BOOLEAN, db : BOOLEAN, table : SUBSET Drawers,
            json : SUBSET Drawers, rest : BOOLEAN]

\* Rows are in a database, and a database and files in a directory.
Sound(c) ==
  /\ c.table # {} => c.db
  /\ c.db \/ c.json # {} \/ c.rest => c.there

Missing  == [there |-> FALSE, db |-> FALSE, table |-> {}, json |-> {}, rest |-> FALSE]
EmptyDir == [Missing EXCEPT !.there = TRUE]

Steps == {"clear", "copy", "count", "stage", "fill", "unset", "demote", "promote",
          "discard", "done", "restore", "reinstate"}

\* "cut": the palace was left missing or incomplete while whole copies existed.
\* "lossy": a repair overwrote those copies, restored an incomplete backup, or
\* swapped in a table that lacks drawers, a user stored drawers beside it, or
\* one who opened the palace filled a part of its empty table and died.
TypeOK ==
  /\ dir \in [Places -> Content]
  /\ \A p \in Places : Sound(dir[p])
  /\ pc \in Steps \cup {"idle"}
  /\ mode \in {"index", "sqlite", "vector"}
  /\ whole \in BOOLEAN
  /\ stored \subseteq Drawers
  /\ risk \in {"none", "cut", "lossy"}

Init ==
  /\ dir = [p \in Places |-> IF p = "palace" THEN [EmptyDir EXCEPT !.rest = TRUE] ELSE Missing]
  /\ pc = "idle" /\ mode = "index"
  /\ whole = FALSE
  /\ stored = {}
  /\ risk = "none"

-----------------------------------------------------------------------------
\* What PalaceDb::open serves: the table, or the JSON file if the table is empty.
Served(c) == IF c.table = {} THEN c.json ELSE c.table

\* What it leaves: a missing directory is created, but without the database,
\* which is opened first; an empty table is filled from the JSON file.
Opened(c) ==
  IF c.there THEN [c EXCEPT !.db = TRUE, !.table = Served(c)] ELSE EmptyDir

\* What a copy of c, or a removal of c, may have come to when it stops half-way.
Pieces(c) ==
  {[there |-> TRUE, db |-> b, table |-> IF b THEN c.table ELSE {}, json |-> j, rest |-> r] :
     b \in {FALSE, c.db}, j \in {{}, c.json}, r \in {FALSE, c.rest}}

Remains(c) == IF c.there THEN Pieces(c) \cup {c, Missing} ELSE {Missing}

Put(p, c) == dir' = [dir EXCEPT ![p] = c]

GoTo(step) == pc' = step

\* A repair that goes ahead after a cut works on whatever is at the palace's path.
RiskOfRepair == risk' = IF risk = "cut" THEN "lossy" ELSE risk

Endanger(level) == risk' = IF risk = "lossy" THEN risk ELSE level

-----------------------------------------------------------------------------
\* Mutant: the row is inserted whether or not the table could be opened.
StoreAnyhow(d) ==
  LET c == Opened(dir["palace"])
  IN  /\ Quiet => pc = "idle"
      /\ Put("palace", [c EXCEPT !.table = @ \cup {d}, !.json = c.table \cup {d}])
      /\ stored' = stored \cup {d}
      /\ IF pc = "idle" THEN UNCHANGED risk ELSE Endanger("lossy")
      /\ UNCHANGED <<pc, mode, whole>>

\* Users of the palace, who open, add and flush.
Store(d) ==
  LET c == Opened(dir["palace"])
  IN  /\ Quiet => pc = "idle"
      /\ Put("palace", [c EXCEPT !.table = IF c.db THEN @ \cup {d} ELSE @,
                                 !.json = c.table \cup {d}])
      /\ stored' = stored \cup {d}
      /\ IF pc = "idle" THEN UNCHANGED risk ELSE Endanger("lossy")
      /\ UNCHANGED <<pc, mode, whole>>

\* Users who open the palace and store nothing: one that is missing is there
\* again when they are done.
Look ==
  /\ Quiet => pc = "idle"
  /\ Put("palace", Opened(dir["palace"]))
  /\ UNCHANGED <<pc, mode, whole, stored, risk>>

\* An empty table is filled batch by batch: one who dies or fails in between
\* leaves a table that is not empty, and so is served from then on.
OpenHalf ==
  LET c == dir["palace"]
  IN  /\ Quiet => pc = "idle"
      /\ c.there /\ c.table = {}
      /\ \E t \in SUBSET c.json \ {{}, c.json} : Put("palace", [c EXCEPT !.db = TRUE, !.table = t])
      /\ Endanger("lossy")
      /\ UNCHANGED <<pc, mode, whole, stored>>

\* A repair that opens the palace first, and has nothing to do in an empty one.
BeginCounted(m) ==
  /\ pc = "idle"
  /\ Put("palace", Opened(dir["palace"]))
  /\ \/ Served(dir["palace"]) = {} /\ UNCHANGED <<pc, mode, risk>>
     \/ /\ Served(dir["palace"]) # {}
        /\ GoTo("clear") /\ mode' = m /\ RiskOfRepair
  /\ UNCHANGED <<whole, stored>>

\* rebuild_index.
BeginIndex == dir["palace"].there /\ BeginCounted("index")

\* rebuild_vector_index, whose integrity check needs the database file, and which
\* takes a backup, counts the drawers once more and drops the backup.
BeginVector == dir["palace"].db /\ BeginCounted("vector")

\* rebuild_from_sqlite: the integrity check needs the database file.
BeginSqlite ==
  /\ pc = "idle" /\ dir["palace"].db
  /\ GoTo("clear") /\ mode' = "sqlite" /\ RiskOfRepair
  /\ UNCHANGED <<dir, whole, stored>>

-----------------------------------------------------------------------------
(***************************************************************************)
(* take_pre_repair_backup.                                                 *)
(***************************************************************************)

ClearBackup ==
  /\ pc = "clear"
  /\ Put("backup", Missing)
  /\ GoTo("copy")
  /\ UNCHANGED <<mode, whole, stored, risk>>

AfterBackup ==
  CASE mode = "index" -> "stage" [] mode = "sqlite" -> "count" [] mode = "vector" -> "done"

\* Mutant: the copy does not descend into what it does not know.
CopyDrawers ==
  /\ pc = "copy"
  /\ Put("backup", [dir["palace"] EXCEPT !.rest = FALSE])
  /\ whole' = TRUE
  /\ GoTo(AfterBackup)
  /\ UNCHANGED <<mode, stored, risk>>

CopyBackup ==
  /\ pc = "copy"
  /\ Put("backup", dir["palace"])
  /\ whole' = TRUE
  /\ GoTo(AfterBackup)
  /\ UNCHANGED <<mode, stored, risk>>

\* A copy that fails is only warned about, and one that comes upon a symbolic
\* link leaves it out.
PartialBackup ==
  /\ pc = "copy"
  /\ \E c \in Pieces(dir["palace"]) \cup {Missing} : Put("backup", c)
  /\ whole' = FALSE
  /\ GoTo(AfterBackup)
  /\ UNCHANGED <<mode, stored, risk>>

\* rebuild_from_sqlite counts after the backup, and drops it when there is nothing.
Count ==
  /\ pc = "count"
  /\ dir' = [dir EXCEPT !["palace"] = Opened(@),
                        !["backup"] = IF Served(dir["palace"]) = {} THEN Missing ELSE @]
  /\ GoTo(IF Served(dir["palace"]) = {} THEN "idle" ELSE "stage")
  /\ UNCHANGED <<mode, whole, stored, risk>>

-----------------------------------------------------------------------------
(***************************************************************************)
(* rebuild_via_staging.                                                    *)
(***************************************************************************)

ClearStaging ==
  /\ pc = "stage"
  /\ Put("staging", EmptyDir)
  /\ GoTo("fill")
  /\ UNCHANGED <<mode, whole, stored, risk>>

\* Every drawer goes to the new JSON file; a row that cannot be inserted in the
\* new table is only logged.  Nothing else is copied.
Fill ==
  LET docs == Served(dir["palace"])
  IN  /\ pc = "fill"
      /\ \E rows \in SUBSET docs :
           /\ dir' = [dir EXCEPT !["palace"] = Opened(@),
                        !["staging"] = [there |-> TRUE, db |-> TRUE, table |-> rows,
                                        json |-> docs, rest |-> FALSE]]
           /\ IF rows \in {docs, {}} THEN UNCHANGED risk ELSE Endanger("lossy")
      /\ GoTo("unset")
      /\ UNCHANGED <<mode, whole, stored>>

FailStaging ==
  /\ pc \in {"stage", "fill"}
  /\ \E c \in {Missing, EmptyDir} : Put("staging", c)
  /\ GoTo("restore")
  /\ UNCHANGED <<mode, whole, stored, risk>>

\* What an earlier repair that died left aside.
ClearAside ==
  /\ pc = "unset"
  /\ Put("aside", Missing)
  /\ GoTo("demote")
  /\ UNCHANGED <<mode, whole, stored, risk>>

Demote ==
  /\ pc = "demote"
  /\ dir' = [dir EXCEPT !["aside"] = dir["palace"], !["palace"] = Missing]
  /\ GoTo("promote")
  /\ UNCHANGED <<mode, whole, stored, risk>>

FailDemote ==
  /\ pc = "demote"
  /\ Put("staging", Missing)
  /\ GoTo("restore")
  /\ UNCHANGED <<mode, whole, stored, risk>>

\* A directory cannot be renamed over one that a user has created meanwhile.
Promote ==
  /\ pc = "promote" /\ ~dir["palace"].there
  /\ dir' = [dir EXCEPT !["palace"] = dir["staging"], !["staging"] = Missing]
  /\ GoTo("discard")
  /\ UNCHANGED <<mode, whole, stored, risk>>

\* Mutant: the error is returned without a restore.
GiveUpPromote ==
  /\ pc = "promote"
  /\ UNCHANGED dir
  /\ GoTo("idle")
  /\ UNCHANGED <<mode, whole, stored, risk>>

\* The palace is put back if that can be done.
FailPromote ==
  /\ pc = "promote"
  /\ \/ UNCHANGED dir
     \/ /\ ~dir["palace"].there
        /\ dir' = [dir EXCEPT !["palace"] = dir["aside"], !["aside"] = Missing]
  /\ GoTo("restore")
  /\ UNCHANGED <<mode, whole, stored, risk>>

Discard ==
  /\ pc = "discard"
  /\ Put("aside", Missing)
  /\ GoTo("done")
  /\ UNCHANGED <<mode, whole, stored, risk>>

-----------------------------------------------------------------------------
(***************************************************************************)
(* The end of a repair: the backup is dropped, or restored.                *)
(***************************************************************************)

Succeed ==
  /\ pc = "done"
  /\ Put("backup", Missing)
  /\ GoTo("idle")
  /\ UNCHANGED <<mode, whole, stored, risk>>

\* Mutant: the palace is removed before looking for a backup.
RestoreUnchecked ==
  /\ pc = "restore"
  /\ Put("palace", Missing)
  /\ GoTo("reinstate")
  /\ IF whole \/ ~dir["backup"].there THEN UNCHANGED risk ELSE Endanger("lossy")
  /\ UNCHANGED <<mode, whole, stored>>

\* restore_from_backup: nothing without a backup, be there a palace at its path or
\* not; else the palace is removed, as far as that can be done ...
Restore ==
  /\ pc = "restore"
  /\ \/ /\ ~dir["backup"].there
        /\ GoTo("idle")
        /\ IF Served(dir["palace"]) = {} THEN Endanger("cut") ELSE UNCHANGED risk
        /\ UNCHANGED dir
     \/ /\ dir["backup"].there
        /\ \E c \in Remains(dir["palace"]) : Put("palace", c)
        /\ GoTo("reinstate")
        /\ IF whole THEN UNCHANGED risk ELSE Endanger("lossy")
  /\ UNCHANGED <<mode, whole, stored>>

\* ... and the backup renamed.
Reinstate ==
  /\ pc = "reinstate" /\ ~dir["palace"].there
  /\ dir' = [dir EXCEPT !["palace"] = dir["backup"], !["backup"] = Missing]
  /\ GoTo("idle")
  /\ UNCHANGED <<mode, whole, stored, risk>>

FailReinstate ==
  /\ pc = "reinstate"
  /\ GoTo("idle")
  /\ Endanger("cut")
  /\ UNCHANGED <<dir, mode, whole, stored>>

-----------------------------------------------------------------------------
\* The directory that the next step removes or writes file by file.
Underway ==
  CASE pc \in {"clear", "copy", "done"}  -> "backup"
    [] pc \in {"stage", "fill"}          -> "staging"
    [] pc \in {"unset", "discard"}       -> "aside"
    [] OTHER                             -> "palace"

\* What the process leaves there when it dies in the middle of the step.
LeftOver ==
  CASE pc = "copy"    -> Pieces(dir["palace"]) \cup {Missing}
    [] pc = "fill"    -> {[EmptyDir EXCEPT !.db = TRUE, !.table = t] : t \in SUBSET Served(dir["palace"])}
    [] pc = "restore" -> IF dir["backup"].there THEN Remains(dir["palace"]) ELSE {dir["palace"]}
    [] pc \in {"clear", "stage", "unset", "discard", "done"} -> Remains(dir[Underway])
    [] OTHER          -> {dir[Underway]}

Crash ==
  /\ pc # "idle"
  /\ \E c \in LeftOver : Put(Underway, c)
  /\ GoTo("idle")
  /\ CASE pc \in {"promote", "reinstate"} -> Endanger("cut")
       [] pc = "restore" -> Endanger(IF dir["backup"].there /\ ~whole THEN "lossy" ELSE "cut")
       [] OTHER -> UNCHANGED risk
  /\ UNCHANGED <<mode, whole, stored>>

-----------------------------------------------------------------------------
Next ==
  \/ \E d \in Drawers : Store(d)
  \/ Look \/ OpenHalf
  \/ BeginIndex \/ BeginVector \/ BeginSqlite
  \/ ClearBackup \/ CopyBackup \/ PartialBackup \/ Count
  \/ ClearStaging \/ Fill \/ FailStaging \/ ClearAside
  \/ Demote \/ FailDemote \/ Promote \/ FailPromote \/ Discard
  \/ Succeed \/ Restore \/ Reinstate \/ FailReinstate
  \/ Crash

Spec == Init /\ [][Next]_vars

-----------------------------------------------------------------------------
(***************************************************************************)
(* Properties.                                                             *)
(***************************************************************************)

\* Whatever fails or dies, when no repair is running and none has been cut
\* short in the middle of a swap, the palace serves every drawer ever stored.
ServedAtRest ==
  pc = "idle" /\ risk = "none" => stored \subseteq Served(dir["palace"])

\* Short of the losses named by "lossy", every drawer is in one of the four
\* directories, after a crash between the two renames too (repair.rs:1051).
NothingLost ==
  risk # "lossy" => \A d \in stored : \E p \in Places : d \in Served(dir[p])

\* What is not a drawer survives every failure and every crash, but for one: it
\* is lost when a repair succeeds (repair.rs:1038 copies drawers alone), when one
\* that failed restores a backup that is not whole (repair.rs:944), and when one
\* begins that finds it only in what a predecessor left.
RestLost == (\E p \in Places : dir[p].rest) /\ \A p \in Places : ~dir'[p].rest

RestOutlivesFailures ==
  [][RestLost => \/ pc \in {"discard", "done"} /\ mode # "vector"
                 \/ pc = "restore" /\ ~whole
                 \/ pc \in {"clear", "unset"} /\ ~dir["palace"].rest]_vars

\* "10 repair failures -> 10 preserved originals" (repair.rs:941): a repair that
\* fails and restores the palace leaves every drawer served.
FailurePreservesOriginal ==
  [][Reinstate => stored \subseteq Served(dir'["palace"])]_vars
=============================================================================
