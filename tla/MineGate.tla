------------------------------ MODULE MineGate ------------------------------
(***************************************************************************)
(* The gate in front of a mine (cli.rs, mine_palace_lock.rs,               *)
(* mine_pid_guard.rs).  `mpr mine` first takes the palace lock, a file     *)
(* holding a PID in ~/.mempalace/locks, then the PID guard, the file       *)
(* .mine.pid in the palace directory, then mines, drops the guard and      *)
(* releases the lock.  A mine started by the MCP server or by `mpr init`   *)
(* goes through the PID guard alone.  Every file operation is a step of    *)
(* its own.                                                                *)
(*                                                                         *)
(* A process mines once, so it creates each of the two files at most once: *)
(* a file is named by its creator, and a write through a handle reaches    *)
(* the file it was opened on, even when that file has been removed.        *)
(***************************************************************************)
CONSTANTS
  Procs,   \* processes that mine
  Direct,  \* those that go through the PID guard alone
  None     \* no process

ASSUME GateAssumption ==
  /\ Direct \subseteq Procs
  /\ None \notin Procs

VARIABLES
  pc,       \* where each process is
  lock,     \* the palace lock: who created it, the PID in it
  guard,    \* the PID guard: who created it, the PID in it
  handle,   \* the guard file each process has open, by its creator
  saw,      \* the PID each process read last
  old,      \* processes that have been running for sixty seconds
  refused,  \* history: processes turned away
  rival,    \* history: processes that had company during their attempt
  failed,   \* history: processes that could not write into the file they created
  raced     \* history, forgotten when nobody runs: processes that truncated or
            \* removed a PID file other than the one they had looked at

history == <<rival, failed, raced>>
vars == <<pc, lock, guard, handle, saw, old, refused, history>>

AtLock    == {"lock", "stamp", "busy", "judge", "steal"}
AtGuard   == {"enter", "inspect", "probe", "evict", "create", "sign"}
Acquiring == AtLock \cup AtGuard
Leaving   == {"release", "unlock"}
Running   == Acquiring \cup {"mining"} \cup Leaving
Rest      == {"idle", "ended", "dead"}

File   == [by : Procs \cup {None}, pid : Procs \cup {None}]
NoFile == [by |-> None, pid |-> None]

TypeOK ==
  /\ pc \in [Procs -> Running \cup Rest]
  /\ lock \in File /\ lock.pid \in {None, lock.by}
  /\ guard \in File
  /\ handle \in [Procs -> Procs \cup {None}]
  /\ saw \in [Procs -> Procs \cup {None}]
  /\ old \subseteq Procs
  /\ refused \subseteq Procs
  /\ rival \subseteq Procs
  /\ failed \subseteq Procs
  /\ raced \subseteq Procs

Init ==
  /\ pc = [p \in Procs |-> "idle"]
  /\ lock = NoFile
  /\ guard = NoFile
  /\ handle = [p \in Procs |-> None]
  /\ saw = [p \in Procs |-> None]
  /\ old = {}
  /\ refused = {}
  /\ rival = {}
  /\ failed = {}
  /\ raced = {}

Alive(p) == pc[p] \in Running

Move(p, from, to) == pc[p] = from /\ pc' = [pc EXCEPT ![p] = to]

\* Turned away: the palace lock, where there is one, is still released.
TurnAway(p, from, to) == Move(p, from, to) /\ refused' = refused \cup {p}

Start(p) ==
  /\ Move(p, "idle", IF p \in Direct THEN "enter" ELSE "lock")
  /\ LET company == {q \in Procs : Alive(q)}
     IN  /\ rival' = IF company = {} THEN rival ELSE rival \cup company \cup {p}
         /\ raced' = IF company = {} THEN {} ELSE raced
  /\ UNCHANGED <<lock, guard, handle, saw, old, refused, failed>>

-----------------------------------------------------------------------------
(***************************************************************************)
(* The palace lock: mine_palace_lock_with_path and release_palace_lock.    *)
(***************************************************************************)

\* OpenOptions::create_new: an empty lock file, or AlreadyExists.
CreateLock(p) ==
  /\ \/ /\ lock.by = None
        /\ Move(p, "lock", "stamp")
        /\ lock' = [by |-> p, pid |-> None]
     \/ /\ lock.by # None
        /\ Move(p, "lock", "busy")
        /\ UNCHANGED lock
  /\ UNCHANGED <<guard, handle, saw, old, refused, history>>

\* Mutant: the PID is written through the path, not through the open file.
StampLockByPath(p) ==
  /\ Move(p, "stamp", "enter")
  /\ lock' = [lock EXCEPT !.pid = p]
  /\ UNCHANGED <<guard, handle, saw, old, refused, history>>

\* The PID goes into the file this process created.
StampLock(p) ==
  /\ Move(p, "stamp", "enter")
  /\ lock' = IF lock.by = p THEN [lock EXCEPT !.pid = p] ELSE lock
  /\ UNCHANGED <<guard, handle, saw, old, refused, history>>

\* The write fails: the caller is refused, and the file stays empty.
FailStamp(p) ==
  /\ TurnAway(p, "stamp", "ended")
  /\ failed' = failed \cup {p}
  /\ UNCHANGED <<lock, guard, handle, saw, old, rival, raced>>

\* read_lock_pid: a missing or an empty file holds no PID.
ReadLock(p) ==
  /\ saw' = [saw EXCEPT ![p] = lock.pid]
  /\ Move(p, "busy", IF lock.pid = None THEN "steal" ELSE "judge")
  /\ UNCHANGED <<lock, guard, handle, old, refused, history>>

\* is_process_running looks at the age of /proc/<pid>, which is at most the
\* age of the process: a live process may be taken for dead from its
\* sixtieth second on.
JudgeLock(p) ==
  /\ pc[p] = "judge"
  /\ \/ /\ Alive(saw[p])
        /\ TurnAway(p, "judge", "ended")
     \/ /\ Alive(saw[p]) => saw[p] \in old
        /\ Move(p, "judge", "steal")
        /\ UNCHANGED refused
  /\ UNCHANGED <<lock, guard, handle, saw, old, history>>

\* remove_file, whoever's file it is by now, and try again from the start.
StealLock(p) ==
  /\ \/ /\ lock.by # None
        /\ Move(p, "steal", "lock")
        /\ lock' = NoFile
        /\ UNCHANGED refused
     \/ /\ lock.by = None
        /\ TurnAway(p, "steal", "ended")
        /\ UNCHANGED lock
  /\ UNCHANGED <<guard, handle, saw, old, history>>

\* release_palace_lock reads the PID: only its own is released.
CheckLock(p) ==
  /\ Move(p, "release", IF lock.pid = p THEN "unlock" ELSE "ended")
  /\ UNCHANGED <<lock, guard, handle, saw, old, refused, history>>

\* The rename, of whatever file has the name by now.
Unlock(p) ==
  /\ Move(p, "unlock", "ended")
  /\ lock' = NoFile
  /\ UNCHANGED <<guard, handle, saw, old, refused, history>>

-----------------------------------------------------------------------------
(***************************************************************************)
(* The PID guard: MinePidGuard::acquire and its Drop.                      *)
(***************************************************************************)
\* Mutant: the palace lock is not released after a failed mine.
AfterGuardExit(p) == "ended"

\* Where a process goes after the guard: the palace lock is always released.
AfterGuard(p) == IF p \in Direct THEN "ended" ELSE "release"

LookForGuard(p) ==
  /\ Move(p, "enter", IF guard.by = None THEN "create" ELSE "inspect")
  /\ UNCHANGED <<lock, guard, handle, saw, old, refused, history>>

\* The file vanished (Io), or it is still empty (ParseError), or it has a PID.
ReadGuard(p) ==
  /\ \/ /\ guard.pid = None
        /\ TurnAway(p, "inspect", AfterGuard(p))
        /\ UNCHANGED saw
     \/ /\ guard.pid # None
        /\ saw' = [saw EXCEPT ![p] = guard.pid]
        /\ Move(p, "inspect", "probe")
        /\ UNCHANGED refused
  /\ UNCHANGED <<lock, guard, handle, old, history>>

\* Mutant: the PID is judged by the age of its process, as for the lock.
ProbeGuardByAge(p) ==
  /\ pc[p] = "probe"
  /\ \/ /\ Alive(saw[p])
        /\ TurnAway(p, "probe", AfterGuard(p))
     \/ /\ Alive(saw[p]) => saw[p] \in old
        /\ Move(p, "probe", "evict")
        /\ UNCHANGED refused
  /\ UNCHANGED <<lock, guard, handle, saw, old, history>>

\* Mutant: a stale PID is reported instead of being cleaned up.
ProbeGuardStalePid(p) ==
  /\ TurnAway(p, "probe", AfterGuard(p))
  /\ UNCHANGED <<lock, guard, handle, saw, old, history>>

\* kill(pid, 0).
ProbeGuard(p) ==
  /\ pc[p] = "probe"
  /\ \/ /\ Alive(saw[p])
        /\ TurnAway(p, "probe", AfterGuard(p))
     \/ /\ ~Alive(saw[p])
        /\ Move(p, "probe", "evict")
        /\ UNCHANGED refused
  /\ UNCHANGED <<lock, guard, handle, saw, old, history>>

\* remove_file of what was judged stale, or of what has the name by now.
EvictGuard(p) ==
  /\ \/ /\ guard.by # None
        /\ Move(p, "evict", "create")
        /\ guard' = NoFile
        /\ raced' = IF guard.pid = saw[p] THEN raced ELSE raced \cup {p}
        /\ UNCHANGED refused
     \/ /\ guard.by = None
        /\ TurnAway(p, "evict", AfterGuard(p))
        /\ UNCHANGED <<guard, raced>>
  /\ UNCHANGED <<lock, handle, saw, old, rival, failed>>

\* File::create truncates the file that has appeared since the look, or makes
\* a new one.
CreateGuard(p) ==
  /\ Move(p, "create", "sign")
  /\ guard' = [by |-> IF guard.by = None THEN p ELSE guard.by, pid |-> None]
  /\ handle' = [handle EXCEPT ![p] = guard'.by]
  /\ raced' = IF guard.by = None THEN raced ELSE raced \cup {p}
  /\ UNCHANGED <<lock, saw, old, refused, rival, failed>>

SignGuard(p) ==
  /\ Move(p, "sign", "mining")
  /\ guard' = IF guard.by = handle[p] THEN [guard EXCEPT !.pid = p] ELSE guard
  /\ UNCHANGED <<lock, handle, saw, old, refused, history>>

\* write_all fails: the caller is refused, and the file stays empty.
FailSign(p) ==
  /\ TurnAway(p, "sign", AfterGuard(p))
  /\ failed' = failed \cup {p}
  /\ UNCHANGED <<lock, guard, handle, saw, old, rival, raced>>

\* The mine ends, well or with an error, and the guard is dropped: the file
\* is removed whoever's PID it holds.
EndMine(p) ==
  /\ Move(p, "mining", AfterGuard(p))
  /\ guard' = NoFile
  /\ UNCHANGED <<lock, handle, saw, old, refused, history>>

-----------------------------------------------------------------------------
(***************************************************************************)
(* The environment.                                                        *)
(***************************************************************************)

\* The process is killed and leaves its files behind.
Crash(p) ==
  /\ Alive(p)
  /\ pc' = [pc EXCEPT ![p] = "dead"]
  /\ UNCHANGED <<lock, guard, handle, saw, old, refused, history>>

\* Sixty seconds have passed since the process started.
Age(p) ==
  /\ pc[p] \in {"mining"} \cup Leaving
  /\ p \notin old
  /\ old' = old \cup {p}
  /\ UNCHANGED <<pc, lock, guard, handle, saw, refused, history>>

\* One step of the program in process p.
Step(p) ==
  \/ CreateLock(p)
  \/ StampLock(p)
  \/ FailStamp(p)
  \/ ReadLock(p)
  \/ JudgeLock(p)
  \/ StealLock(p)
  \/ LookForGuard(p)
  \/ ReadGuard(p)
  \/ ProbeGuard(p)
  \/ EvictGuard(p)
  \/ CreateGuard(p)
  \/ SignGuard(p)
  \/ FailSign(p)
  \/ EndMine(p)
  \/ CheckLock(p)
  \/ Unlock(p)

Next == \E p \in Procs : Start(p) \/ Step(p) \/ Crash(p) \/ Age(p)

Spec == Init /\ [][Next]_vars

-----------------------------------------------------------------------------
(***************************************************************************)
(* Properties.                                                             *)
(***************************************************************************)

\* At most one process mines the palace at a time (mine_pid_guard.rs:3), until
\* a process truncates or removes a PID file that is not the one it looked at:
\* nothing else breaks it, be it a stolen palace lock, a late release, a failed
\* write or a killed process.  Between exists (57) and create (76) nothing keeps
\* others out, so that the exception is a case that the code can meet.
MutualExclusion ==
  raced = {} => \A p, q \in Procs : pc[p] = "mining" /\ pc[q] = "mining" => p = q

\* When every mine is over and none was killed, no file is left but the empty one
\* of a process whose write failed: the next mine starts from a clean gate,
\* although locks may have been stolen from their owners on the way.
NoLitter ==
  (\A p \in Procs : pc[p] \in {"idle", "ended"}) =>
    \A file \in {lock, guard} :
      file = NoFile \/ (file.by \in failed /\ file.pid = None)

\* A mine is turned away only if another process was running at some time
\* during the attempt, or if somebody left an empty PID file, or its own write
\* failed: the files of a killed process are otherwise reclaimed without help.
RefusedOnlyForAReason ==
  [][\A p \in Procs :
       p \in refused' \ refused =>
         p \in rival \cup failed' \/ (guard.by # None /\ guard.pid = None)]_vars
=============================================================================
