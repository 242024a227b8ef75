------------------------------- MODULE Mining -------------------------------
(***************************************************************************)
(* Incremental mining: `mpr mine` files the chunks of every file of a      *)
(* directory as drawers and skips the files it mined before (miner.rs,     *)
(* convo_miner.rs, and palace_db.rs for the test and the write).  A file   *)
(* is mined as part of a project, or as a transcript, chunk by exchange or *)
(* by kind of memory ("general").                                          *)
(*                                                                         *)
(* Versions of a file differ in content and in modification time, so a     *)
(* version stands for both; a file that comes back to an old version does  *)
(* so with its old time (cp -p, rsync -t, an unpacked archive).  Files     *)
(* change between any two steps of a mine.  One mine runs at a time, which *)
(* MineGate shows but for the race that it names; a drawer goes into the   *)
(* table on its own.                                                       *)
(***************************************************************************)
EXTENDS Naturals, Sequences

CONSTANTS
  Files,     \* files of the directory
  Versions,  \* contents, each with its modification time
  Rooms,     \* rooms a chunk may belong to
  Absent,    \* no file, no version, no mode
  Shape,     \* the room of each chunk of a version, by mode
  MaxEdits,  \* bound on the edits
  MaxFaults  \* bound on crashes and failed inserts

Modes == {"project", "exchange", "general"}

ASSUME MiningAssumption ==
  /\ Absent \notin Files \cup Versions \cup Modes
  /\ Shape \in [Modes -> [Versions -> Seq(Rooms)]]
  /\ MaxEdits \in Nat /\ MaxFaults \in Nat

VARIABLES
  file,     \* what each file holds, None while there is no such file
  rows,     \* table drawers, by id
  run,      \* the mine that is running
  at,       \* the file it is busy with
  calm,     \* history: files nobody touched since this run came to them
  left,     \* history: versions a file has had and no longer has
  cut,      \* history: versions of files whose filing was not completed
  edits,    \* edits so far
  faults    \* crashes and failed inserts so far

minerVars == <<file, rows, run, at, calm, left, cut, edits, faults>>

\* The numbers of the chunks.
Indexes == UNION {0 .. Len(Shape[m][v]) - 1 : m \in Modes, v \in Versions}

\* Project and exchange mining name their drawers alike: the id is made of the
\* room, the file and the number of the chunk, and only general adds its name.
Id(f, m, room, i) ==
  [file |-> f, room |-> room, index |-> i, general |-> m = "general"]
Ids == [file : Files, room : Rooms, index : Indexes, general : BOOLEAN]

Row   == [ver : Versions \cup {Absent},    \* whose content it is, Absent if no row
          stamp : Versions \cup {Absent},  \* source_mtime
          mode : Modes \cup {Absent}]      \* the miner that filed it
NoRow == [ver |-> Absent, stamp |-> Absent, mode |-> Absent]

NoRun  == [mode |-> Absent, todo |-> {}]
NoWork == [step |-> "check", file |-> Absent, ver |-> Absent, stamp |-> Absent, next |-> 0]

MinerTypeOK ==
  /\ file \in [Files -> Versions \cup {Absent}]
  /\ rows \in [Ids -> Row]
  /\ run \in [mode : Modes \cup {Absent}, todo : SUBSET Files]
  /\ at \in [step : {"check", "stat", "read", "add"}, file : Files \cup {Absent},
             ver : Versions \cup {Absent}, stamp : Versions \cup {Absent},
             next : Indexes \cup {0}]
  /\ at.step = "add" => at.next < Len(Shape[run.mode][at.ver])
  /\ calm \subseteq Files
  /\ left \subseteq Files \X Versions
  /\ cut \subseteq Files \X Versions
  /\ edits \in 0 .. MaxEdits
  /\ faults \in 0 .. MaxFaults

MinerInit ==
  /\ file = [f \in Files |-> Absent]
  /\ rows = [id \in Ids |-> NoRow]
  /\ run = NoRun
  /\ at = NoWork
  /\ calm = {}
  /\ left = {}
  /\ cut = {}
  /\ edits = 0
  /\ faults = 0

-----------------------------------------------------------------------------
(***************************************************************************)
(* The mine.                                                               *)
(***************************************************************************)

\* Mutant: every miner looks at the time after it has read the file.
SameOrder(m) == [check |-> "read", read |-> "stat", stat |-> "add"]

\* The project miner looks at the time before it reads the file, the miner of
\* transcripts after.
Order(m) == IF m = "project" THEN [check |-> "stat", stat |-> "read", read |-> "add"]
                             ELSE [check |-> "read", read |-> "stat", stat |-> "add"]

\* Mutant: only files without a drawer are mined.
StartWithNew(m) ==
  /\ run.mode = Absent
  /\ run' = [mode |-> m,
             todo |-> {f \in Files : /\ file[f] # Absent
                                     /\ \A id \in Ids : id.file = f => rows[id] = NoRow}]
  /\ calm' = {}
  /\ UNCHANGED <<file, rows, at, left, cut, edits, faults>>

\* The directory is scanned once, before the first file.
StartMine(m) ==
  /\ run.mode = Absent
  /\ run' = [mode |-> m, todo |-> {f \in Files : file[f] # Absent}]
  /\ calm' = {}
  /\ UNCHANGED <<file, rows, at, left, cut, edits, faults>>

\* Mutant: the modification time is not looked at.
MinedAtAnyTime(f, m) ==
  \E id \in Ids : /\ id.file = f
                  /\ rows[id].mode = "project"
                  /\ m # "general"

\* file_already_mined_with_mode: one drawer of the file is enough, if it was
\* filed in this mode, has the version number of the normalizer and the file's
\* present time.  Only the project miner writes the number, and its drawers,
\* which have no mode, count as filed by exchange.
AlreadyMined(f, m) ==
  \E id \in Ids : /\ id.file = f
                  /\ rows[id].mode = "project"
                  /\ m # "general"
                  /\ rows[id].stamp # Absent
                  /\ rows[id].stamp = file[f]

\* The run is done with file f.
Leave(f) ==
  /\ run' = [run EXCEPT !.todo = @ \ {f}]
  /\ at' = NoWork

Skip(f) ==
  /\ run.mode # Absent /\ at.step = "check" /\ f \in run.todo
  /\ AlreadyMined(f, run.mode)
  /\ Leave(f)
  /\ calm' = calm \cup {f}
  /\ UNCHANGED <<file, rows, left, cut, edits, faults>>

Begin(f) ==
  /\ run.mode # Absent /\ at.step = "check" /\ f \in run.todo
  /\ ~AlreadyMined(f, run.mode)
  /\ at' = [NoWork EXCEPT !.step = Order(run.mode).check, !.file = f]
  /\ calm' = calm \cup {f}
  /\ UNCHANGED <<file, rows, run, left, cut, edits, faults>>

\* A file that is gone has no time: its drawers get none.
Stat ==
  /\ at.step = "stat"
  /\ at' = [at EXCEPT !.stamp = file[at.file], !.step = Order(run.mode).stat]
  /\ UNCHANGED <<file, rows, run, calm, left, cut, edits, faults>>

\* A file that cannot be read, is too short, gives no chunk or too many is left
\* alone, with the drawers it has.
Read ==
  /\ at.step = "read"
  /\ LET v == file[at.file] IN
     IF v = Absent \/ Shape[run.mode][v] = <<>>
       THEN Leave(at.file)
       ELSE /\ at' = [at EXCEPT !.ver = v, !.step = Order(run.mode).read]
            /\ UNCHANGED run
  /\ UNCHANGED <<file, rows, calm, left, cut, edits, faults>>

\* Mutant: the loop runs once too often.
AddOneMore(stored) ==
  /\ at.step = "add"
  /\ faults' = IF stored THEN faults ELSE faults + 1
  /\ faults' <= MaxFaults
  /\ LET chunks == Shape[run.mode][at.ver]
         id     == Id(at.file, run.mode, chunks[at.next + 1], at.next)
         row    == [ver |-> at.ver, stamp |-> at.stamp, mode |-> run.mode]
     IN /\ rows' = IF stored THEN [rows EXCEPT ![id] = row] ELSE rows
        /\ IF at.next = Len(chunks)
             THEN Leave(at.file)
             ELSE at' = [at EXCEPT !.next = @ + 1] /\ UNCHANGED run
  /\ cut' = IF stored \/ at.stamp = Absent THEN cut ELSE cut \cup {<<at.file, at.stamp>>}
  /\ UNCHANGED <<file, calm, left, edits>>

\* One chunk goes into the table, in place of the one with its id, or the
\* insert fails, which is only logged.
Add(stored) ==
  /\ at.step = "add"
  /\ faults' = IF stored THEN faults ELSE faults + 1
  /\ faults' <= MaxFaults
  /\ LET chunks == Shape[run.mode][at.ver]
         id     == Id(at.file, run.mode, chunks[at.next + 1], at.next)
         row    == [ver |-> at.ver, stamp |-> at.stamp, mode |-> run.mode]
     IN /\ rows' = IF stored THEN [rows EXCEPT ![id] = row] ELSE rows
        /\ IF at.next + 1 = Len(chunks)
             THEN Leave(at.file)
             ELSE at' = [at EXCEPT !.next = @ + 1] /\ UNCHANGED run
  /\ cut' = IF stored \/ at.stamp = Absent THEN cut ELSE cut \cup {<<at.file, at.stamp>>}
  /\ UNCHANGED <<file, calm, left, edits>>

\* The flush at the end writes the JSON file, which no open reads while the
\* table has rows.
End ==
  /\ run.mode # Absent /\ at.step = "check" /\ run.todo = {}
  /\ run' = NoRun
  /\ UNCHANGED <<file, rows, at, calm, left, cut, edits, faults>>

-----------------------------------------------------------------------------
(***************************************************************************)
(* The environment.                                                        *)
(***************************************************************************)

\* Somebody writes, replaces or removes a file.
Edit(f, v) ==
  /\ v # file[f] /\ edits < MaxEdits
  /\ edits' = edits + 1
  /\ file' = [file EXCEPT ![f] = v]
  /\ left' = IF file[f] = Absent THEN left ELSE left \cup {<<f, file[f]>>}
  /\ calm' = calm \ {f}
  /\ UNCHANGED <<rows, run, at, cut, faults>>

\* The mine is killed: every chunk added so far is in the table.
Kill ==
  /\ run.mode # Absent /\ faults < MaxFaults
  /\ run' = NoRun
  /\ at' = NoWork
  /\ cut' = IF at.step = "add" /\ at.stamp # Absent THEN cut \cup {<<at.file, at.stamp>>} ELSE cut
  /\ faults' = faults + 1
  /\ UNCHANGED <<file, rows, calm, left, edits>>

Mine ==
  \/ \E f \in Files : Skip(f) \/ Begin(f)
  \/ Stat
  \/ Read
  \/ \E stored \in BOOLEAN : Add(stored)
  \/ End

MinerNext ==
  \/ \E m \in Modes : StartMine(m)
  \/ Mine
  \/ \E f \in Files, v \in Versions \cup {Absent} : Edit(f, v)
  \/ Kill

\* A mine that runs goes on, and mines of every mode are started again and
\* again, by the user or by a hook.
MinerSpec ==
  /\ MinerInit /\ [][MinerNext]_minerVars
  /\ WF_minerVars(Mine)
  /\ \A m \in Modes : SF_minerVars(StartMine(m))

-----------------------------------------------------------------------------
(***************************************************************************)
(* Properties.                                                             *)
(***************************************************************************)

\* Every chunk file f has in mode m is in the table as f holds it now.
Filed(f, m) ==
  file[f] # Absent =>
    LET chunks == Shape[m][file[f]] IN
    \A i \in DOMAIN chunks :
      LET row == rows[Id(f, m, chunks[i], i - 1)]
      IN row.ver = file[f] /\ row.mode = m

\* The file went back to an old modification time, or filing this version of
\* it was cut short.
Excused(f) == file[f] # Absent /\ <<f, file[f]>> \in left \cup cut

\* When a mine has passed a file and nobody touched the file since, the palace
\* has all of it, although the mine may have skipped it because of one drawer
\* (palace_db.rs:2657).  Except: exchange takes a project's drawers for its own.
PassedIsFiled ==
  run.mode \in {"project", "general"} =>
    \A f \in calm \ run.todo : Filed(f, run.mode) \/ Excused(f)

\* A project drawer that has the present time of its file has its present
\* content, whatever was written while the mine read it: otherwise the next
\* mine would skip a file whose last edit is missing (miner.rs:1064).
StampIsHonest ==
  \A id \in Ids :
    LET row == rows[id] IN
    row.mode = "project" /\ row.stamp # Absent /\ row.stamp = file[id.file] =>
      row.ver = file[id.file] \/ Excused(id.file)

\* A file that is no longer touched gets into the palace, as it is, and stays.
EventuallyFiled ==
  \A f \in Files, v \in Versions :
    <>[](file[f] = v) =>
      <>[](\A m \in {"project", "general"} : Filed(f, m) \/ Excused(f))
=============================================================================
