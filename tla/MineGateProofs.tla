--------------------------- MODULE MineGateProofs ---------------------------
(***************************************************************************)
(* Mutual exclusion of mines, for any number of processes, as far as the   *)
(* code gives it: until one of them truncates or removes a PID file on a   *)
(* look that is out of date.  The argument does not use the palace lock at *)
(* all.  Then what the one mine behind the gate leaves in the palace, for  *)
(* any files and edits.                                                    *)
(***************************************************************************)
EXTENDS MineGate, Mining, TLAPS

\* The process that signs or mines created the guard file that is there, the
\* one that mines has its PID in it, and the one that signs has it open empty.
Held ==
  \A p \in Procs :
    /\ pc[p] = "sign" => guard.by = p /\ handle[p] = p /\ guard.pid = None
    /\ pc[p] = "mining" => guard.by # None /\ guard.pid = p

\* A PID found in the guard file is of a process that has come through the gate;
\* one that was found dead stays so.
Departed ==
  \A p \in Procs :
    /\ guard.pid = p => pc[p] \in {"mining", "dead"}
    /\ pc[p] \in {"probe", "evict"} => saw[p] \in Procs /\ pc[saw[p]] # "idle"
    /\ pc[p] = "evict" => pc[saw[p]] \in {"ended", "dead"}

Exclusive == Departed /\ (raced = {} => Held)

\* A file that is absent holds no PID, a lock holds at most its creator's,
\* and each present file has a creator who will remove it, was killed, or could
\* not write into it.
LockOwned ==
  /\ lock.by = None => lock.pid = None
  /\ \A p \in Procs : pc[p] \in AtLock => p \notin Direct
  /\ \A p \in Procs : lock.by = p =>
       /\ p \notin Direct
       /\ \/ pc[p] = "dead"
          \/ pc[p] = "stamp" /\ lock.pid = None
          \/ pc[p] \in {"mining"} \cup AtGuard \cup Leaving /\ lock.pid = p
          \/ pc[p] = "ended" /\ lock.pid = None /\ p \in failed
GuardOwned ==
  /\ guard.by = None => guard.pid = None
  /\ \A p \in Procs : pc[p] = "sign" => handle[p] # None
  /\ \A p \in Procs : guard.by = p => pc[p] \in {"sign", "mining", "dead"} \/ p \in failed
Owned == LockOwned /\ GuardOwned

\* Processes that run at the same time are rivals; so is a process that
\* found a file which is gone by now.
Company ==
  \A p, q \in Procs : Alive(p) /\ Alive(q) /\ p # q => p \in rival
Vanished ==
  \A p \in Procs :
    /\ pc[p] \in {"busy", "judge", "steal"} /\ lock.by = None => p \in rival
    /\ pc[p] \in {"inspect", "probe", "evict"} /\ guard.by = None => p \in rival

\* A process that is still at a file has not put its PID there, and what it
\* reads is never its own.
Foreign ==
  \A p \in Procs :
    /\ pc[p] \in {"idle"} \cup AtLock => lock.pid # p
    /\ pc[p] \in {"idle"} \cup AtLock \cup AtGuard => guard.pid # p
    /\ pc[p] \in {"judge", "probe"} => saw[p] # p /\ saw[p] \in Procs

Witnessed == Company /\ Vanished /\ Foreign

GateInv == TypeOK /\ Owned /\ Witnessed /\ Exclusive

\* Type correctness is kept by every step of the gate: each file operation
\* leaves a PID or nothing in the two files and in the readers' memory.
LEMMA TypeStep == TypeOK /\ [Next]_vars => TypeOK'
<1> SUFFICES ASSUME TypeOK, [Next]_vars PROVE TypeOK'
  OBVIOUS
<1> USE GateAssumption DEF TypeOK, File, NoFile, Running, Rest, Acquiring, AtLock, AtGuard, Leaving, history
<1>1. ASSUME NEW p \in Procs, Start(p) PROVE TypeOK'
  BY <1>1 DEF Start, Move
<1>2. ASSUME NEW p \in Procs, CreateLock(p) PROVE TypeOK'
  BY <1>2 DEF CreateLock, Move
<1>3. ASSUME NEW p \in Procs, StampLock(p) PROVE TypeOK'
  BY <1>3 DEF StampLock, Move
<1>4. ASSUME NEW p \in Procs, ReadLock(p) PROVE TypeOK'
  BY <1>4 DEF ReadLock, Move
<1>5. ASSUME NEW p \in Procs, JudgeLock(p) PROVE TypeOK'
  BY <1>5 DEF JudgeLock, Move, TurnAway
<1>6. ASSUME NEW p \in Procs, StealLock(p) PROVE TypeOK'
  BY <1>6 DEF StealLock, Move, TurnAway
<1>7. ASSUME NEW p \in Procs, LookForGuard(p) PROVE TypeOK'
  BY <1>7 DEF LookForGuard, Move
<1>8. ASSUME NEW p \in Procs, ReadGuard(p) PROVE TypeOK'
  BY <1>8 DEF ReadGuard, Move, TurnAway, AfterGuard
<1>9. ASSUME NEW p \in Procs, ProbeGuard(p) PROVE TypeOK'
  BY <1>9 DEF ProbeGuard, Move, TurnAway, AfterGuard
<1>10. ASSUME NEW p \in Procs, EvictGuard(p) PROVE TypeOK'
  BY <1>10 DEF EvictGuard, Move, TurnAway, AfterGuard
<1>11. ASSUME NEW p \in Procs, CreateGuard(p) PROVE TypeOK'
  BY <1>11 DEF CreateGuard, Move
<1>12. ASSUME NEW p \in Procs, SignGuard(p) PROVE TypeOK'
  BY <1>12 DEF SignGuard, Move
<1>13. ASSUME NEW p \in Procs, EndMine(p) PROVE TypeOK'
  BY <1>13 DEF EndMine, Move, AfterGuard
<1>14. ASSUME NEW p \in Procs, CheckLock(p) PROVE TypeOK'
  BY <1>14 DEF CheckLock, Move
<1>15. ASSUME NEW p \in Procs, Unlock(p) PROVE TypeOK'
  BY <1>15 DEF Unlock, Move
<1>16. ASSUME NEW p \in Procs, Crash(p) PROVE TypeOK'
  BY <1>16 DEF Crash
<1>17. ASSUME NEW p \in Procs, Age(p) PROVE TypeOK'
  BY <1>17 DEF Age
<1>18. ASSUME NEW p \in Procs, FailStamp(p) PROVE TypeOK'
  BY <1>18 DEF FailStamp, TurnAway, Move
<1>19. ASSUME NEW p \in Procs, FailSign(p) PROVE TypeOK'
  BY <1>19 DEF FailSign, TurnAway, Move, AfterGuard
<1>20. CASE UNCHANGED vars
  BY <1>20 DEF vars, history
<1> QED
  BY <1>1, <1>2, <1>3, <1>4, <1>5, <1>6, <1>7, <1>8, <1>9, <1>10, <1>11,
     <1>12, <1>13, <1>14, <1>15, <1>16, <1>17, <1>18, <1>19, <1>20 DEF Next, Step

\* Short of a race the guard stays with the process that made it: an eviction
\* finds the PID of a process that is gone, and a creation finds no file.
LEMMA ExclusiveStep == TypeOK /\ Exclusive /\ [Next]_vars => Exclusive'
<1> SUFFICES ASSUME TypeOK, Exclusive, [Next]_vars PROVE Exclusive'
  OBVIOUS
<1> USE GateAssumption
    DEF TypeOK, File, NoFile, Running, Rest, Acquiring, AtLock, AtGuard, Leaving, Alive,
        history, Exclusive, Departed, Held
<1>1. ASSUME NEW r \in Procs, Start(r) PROVE Exclusive'
  BY <1>1 DEF Start, Move
<1>2. ASSUME NEW r \in Procs, CreateLock(r) PROVE Exclusive'
  BY <1>2 DEF CreateLock, Move
<1>3. ASSUME NEW r \in Procs, StampLock(r) PROVE Exclusive'
  BY <1>3 DEF StampLock, Move
<1>4. ASSUME NEW r \in Procs, ReadLock(r) PROVE Exclusive'
  BY <1>4 DEF ReadLock, Move
<1>5. ASSUME NEW r \in Procs, JudgeLock(r) PROVE Exclusive'
  BY <1>5 DEF JudgeLock, Move, TurnAway
<1>6. ASSUME NEW r \in Procs, StealLock(r) PROVE Exclusive'
  BY <1>6 DEF StealLock, Move, TurnAway
<1>7. ASSUME NEW r \in Procs, LookForGuard(r) PROVE Exclusive'
  BY <1>7 DEF LookForGuard, Move
<1>8. ASSUME NEW r \in Procs, ReadGuard(r) PROVE Exclusive'
  BY <1>8 DEF ReadGuard, Move, TurnAway, AfterGuard
<1>9. ASSUME NEW r \in Procs, ProbeGuard(r) PROVE Exclusive'
  BY <1>9 DEF ProbeGuard, Move, TurnAway, AfterGuard, Alive, Running
<1>10. ASSUME NEW r \in Procs, EvictGuard(r) PROVE Exclusive'
  BY <1>10 DEF EvictGuard, Move, TurnAway, AfterGuard, NoFile, File
<1>11. ASSUME NEW r \in Procs, CreateGuard(r) PROVE Exclusive'
  BY <1>11 DEF CreateGuard, Move, File
<1>12. ASSUME NEW r \in Procs, SignGuard(r) PROVE Exclusive'
  BY <1>12 DEF SignGuard, Move, File
<1>13. ASSUME NEW r \in Procs, EndMine(r) PROVE Exclusive'
  BY <1>13 DEF EndMine, Move, AfterGuard, NoFile
<1>14. ASSUME NEW r \in Procs, CheckLock(r) PROVE Exclusive'
  BY <1>14 DEF CheckLock, Move
<1>15. ASSUME NEW r \in Procs, Unlock(r) PROVE Exclusive'
  BY <1>15 DEF Unlock, Move
<1>16. ASSUME NEW r \in Procs, Crash(r) PROVE Exclusive'
  BY <1>16 DEF Crash
<1>17. ASSUME NEW r \in Procs, Age(r) PROVE Exclusive'
  BY <1>17 DEF Age
<1>18. ASSUME NEW r \in Procs, FailStamp(r) PROVE Exclusive'
  BY <1>18 DEF FailStamp, TurnAway, Move
<1>19. ASSUME NEW r \in Procs, FailSign(r) PROVE Exclusive'
  BY <1>19 DEF FailSign, TurnAway, Move, AfterGuard
<1>20. CASE UNCHANGED vars
  BY <1>20 DEF vars, history
<1> QED
  BY <1>1, <1>2, <1>3, <1>4, <1>5, <1>6, <1>7, <1>8, <1>9, <1>10,
     <1>11, <1>12, <1>13, <1>14, <1>15, <1>16, <1>17, <1>18, <1>19, <1>20 DEF Next, Step

\* Ownership of the two files is kept: a present file always has a creator
\* who has yet to remove it, or who was killed.
LEMMA OwnedStep == TypeOK /\ Owned /\ [Next]_vars => Owned'
<1> SUFFICES ASSUME TypeOK, Owned, [Next]_vars PROVE Owned'
  OBVIOUS
<1> USE GateAssumption
    DEF TypeOK, File, NoFile, Running, Rest, Acquiring, AtLock, AtGuard, Leaving, history,
        Owned, LockOwned, GuardOwned
<1>1. ASSUME NEW r \in Procs, Start(r) PROVE Owned'
  BY <1>1 DEF Start, Move
<1>2. ASSUME NEW r \in Procs, CreateLock(r) PROVE Owned'
  BY <1>2 DEF CreateLock, Move
<1>3. ASSUME NEW r \in Procs, StampLock(r) PROVE Owned'
  BY <1>3 DEF StampLock, Move
<1>4. ASSUME NEW r \in Procs, ReadLock(r) PROVE Owned'
  BY <1>4 DEF ReadLock, Move
<1>5. ASSUME NEW r \in Procs, JudgeLock(r) PROVE Owned'
  BY <1>5 DEF JudgeLock, Move, TurnAway
<1>6. ASSUME NEW r \in Procs, StealLock(r) PROVE Owned'
  BY <1>6 DEF StealLock, Move, TurnAway, NoFile
<1>7. ASSUME NEW r \in Procs, LookForGuard(r) PROVE Owned'
  BY <1>7 DEF LookForGuard, Move
<1>8. ASSUME NEW r \in Procs, ReadGuard(r) PROVE Owned'
  BY <1>8 DEF ReadGuard, Move, TurnAway, AfterGuard
<1>9. ASSUME NEW r \in Procs, ProbeGuard(r) PROVE Owned'
  BY <1>9 DEF ProbeGuard, Move, TurnAway, AfterGuard
<1>10. ASSUME NEW r \in Procs, EvictGuard(r) PROVE Owned'
  BY <1>10 DEF EvictGuard, Move, TurnAway, AfterGuard, NoFile, File
<1>11. ASSUME NEW r \in Procs, CreateGuard(r) PROVE Owned'
  BY <1>11 DEF CreateGuard, Move, File
<1>12. ASSUME NEW r \in Procs, SignGuard(r) PROVE Owned'
  BY <1>12 DEF SignGuard, Move, File
<1>13. ASSUME NEW r \in Procs, EndMine(r) PROVE Owned'
  BY <1>13 DEF EndMine, Move, AfterGuard, NoFile
<1>14. ASSUME NEW r \in Procs, CheckLock(r) PROVE Owned'
  BY <1>14 DEF CheckLock, Move
<1>15. ASSUME NEW r \in Procs, Unlock(r) PROVE Owned'
  BY <1>15 DEF Unlock, Move, NoFile
<1>16. ASSUME NEW r \in Procs, Crash(r) PROVE Owned'
  BY <1>16 DEF Crash
<1>17. ASSUME NEW r \in Procs, Age(r) PROVE Owned'
  BY <1>17 DEF Age
<1>18. ASSUME NEW r \in Procs, FailStamp(r) PROVE Owned'
  BY <1>18 DEF FailStamp, TurnAway, Move
<1>19. ASSUME NEW r \in Procs, FailSign(r) PROVE Owned'
  BY <1>19 DEF FailSign, TurnAway, Move, AfterGuard
<1>20. CASE UNCHANGED vars
  BY <1>20 DEF vars, history
<1> QED
  BY <1>1, <1>2, <1>3, <1>4, <1>5, <1>6, <1>7, <1>8,
     <1>9, <1>10, <1>11, <1>12, <1>13, <1>14, <1>15, <1>16, <1>17, <1>18, <1>19, <1>20 DEF Next, Step

\* Company and vanished files are remembered, and nobody reads its own PID.
LEMMA WitnessedStep ==
  TypeOK /\ Owned /\ Witnessed /\ [Next]_vars => Witnessed'
<1> SUFFICES ASSUME TypeOK, Owned, Witnessed, [Next]_vars PROVE Witnessed'
  OBVIOUS
<1> USE GateAssumption
    DEF TypeOK, File, NoFile, Running, Rest, Acquiring, AtLock, AtGuard, Leaving, history, Alive,
        Owned, LockOwned, GuardOwned, Witnessed, Company, Vanished, Foreign
<1>1. ASSUME NEW r \in Procs, Start(r) PROVE Witnessed'
  BY <1>1 DEF Start, Move
<1>2. ASSUME NEW r \in Procs, CreateLock(r) PROVE Witnessed'
  BY <1>2 DEF CreateLock, Move
<1>3. ASSUME NEW r \in Procs, StampLock(r) PROVE Witnessed'
  BY <1>3 DEF StampLock, Move
<1>4. ASSUME NEW r \in Procs, ReadLock(r) PROVE Witnessed'
  BY <1>4 DEF ReadLock, Move
<1>5. ASSUME NEW r \in Procs, JudgeLock(r) PROVE Witnessed'
  BY <1>5 DEF JudgeLock, Move, TurnAway
<1>6. ASSUME NEW r \in Procs, StealLock(r) PROVE Witnessed'
  BY <1>6 DEF StealLock, Move, TurnAway, NoFile
<1>7. ASSUME NEW r \in Procs, LookForGuard(r) PROVE Witnessed'
  BY <1>7 DEF LookForGuard, Move
<1>8. ASSUME NEW r \in Procs, ReadGuard(r) PROVE Witnessed'
  BY <1>8 DEF ReadGuard, Move, TurnAway, AfterGuard
<1>9. ASSUME NEW r \in Procs, ProbeGuard(r) PROVE Witnessed'
  BY <1>9 DEF ProbeGuard, Move, TurnAway, AfterGuard
<1>10. ASSUME NEW r \in Procs, EvictGuard(r) PROVE Witnessed'
  BY <1>10 DEF EvictGuard, Move, TurnAway, AfterGuard, NoFile, File
<1>11. ASSUME NEW r \in Procs, CreateGuard(r) PROVE Witnessed'
  BY <1>11 DEF CreateGuard, Move, File
<1>12. ASSUME NEW r \in Procs, SignGuard(r) PROVE Witnessed'
  BY <1>12 DEF SignGuard, Move, File
<1>13. ASSUME NEW r \in Procs, EndMine(r) PROVE Witnessed'
  BY <1>13 DEF EndMine, Move, AfterGuard, NoFile
<1>14. ASSUME NEW r \in Procs, CheckLock(r) PROVE Witnessed'
  BY <1>14 DEF CheckLock, Move
<1>15. ASSUME NEW r \in Procs, Unlock(r) PROVE Witnessed'
  BY <1>15 DEF Unlock, Move, NoFile
<1>16. ASSUME NEW r \in Procs, Crash(r) PROVE Witnessed'
  BY <1>16 DEF Crash
<1>17. ASSUME NEW r \in Procs, Age(r) PROVE Witnessed'
  BY <1>17 DEF Age
<1>18. ASSUME NEW r \in Procs, FailStamp(r) PROVE Witnessed'
  BY <1>18 DEF FailStamp, TurnAway, Move
<1>19. ASSUME NEW r \in Procs, FailSign(r) PROVE Witnessed'
  BY <1>19 DEF FailSign, TurnAway, Move, AfterGuard
<1>20. CASE UNCHANGED vars
  BY <1>20 DEF vars, history
<1> QED
  BY <1>1, <1>2, <1>3, <1>4, <1>5, <1>6, <1>7, <1>8,
     <1>9, <1>10, <1>11, <1>12, <1>13, <1>14, <1>15, <1>16, <1>17, <1>18, <1>19, <1>20 DEF Next, Step

\* The inductive invariant holds in every reachable state.
LEMMA Invariance == Spec => []GateInv
<1>1. Init => GateInv
  BY GateAssumption
     DEF Init, GateInv, TypeOK, File, NoFile, Rest, Running, Acquiring, AtLock, AtGuard,
         Leaving, Alive, Owned, LockOwned, GuardOwned, Witnessed, Company, Vanished, Foreign,
         Exclusive, Departed, Held
<1>2. GateInv /\ [Next]_vars => GateInv'
  BY TypeStep, OwnedStep, WitnessedStep, ExclusiveStep DEF GateInv
<1> QED
  BY <1>1, <1>2, PTL DEF Spec

\* Whatever the interleaving, the two files hold at most a PID each and every
\* process is at one of the places of mine_palace_lock.rs and
\* mine_pid_guard.rs.
THEOREM TypeCorrectness == Spec => []TypeOK
<1>1. GateInv => TypeOK
  BY DEF GateInv
<1> QED
  BY <1>1, Invariance, PTL

\* At most one process mines the palace at a time, for any number of
\* processes of either kind, however they crash, fail to write or steal palace
\* locks from one another, until a PID file is truncated or removed on a look
\* that is out of date.
THEOREM MutualExclusionAlways == Spec => []MutualExclusion
<1>1. GateInv => MutualExclusion
  BY DEF GateInv, Exclusive, Held, MutualExclusion
<1> QED
  BY <1>1, Invariance, PTL

\* When every mine is over and none was killed, no file is left at the gate but
\* one that its creator could not write into, however acquisitions overlap.
THEOREM NoLitterAlways == Spec => []NoLitter
<1>1. GateInv => NoLitter
  BY GateAssumption
     DEF GateInv, TypeOK, Owned, LockOwned, GuardOwned, Exclusive, Departed,
         NoLitter, NoFile, File, Leaving, AtGuard
<1> QED
  BY <1>1, Invariance, PTL

\* A mine is turned away only because another process ran meanwhile, or
\* because somebody left an empty PID file, or because its own write failed,
\* however acquisitions overlap.
THEOREM RefusedOnlyForAReasonAlways == Spec => RefusedOnlyForAReason
<1> DEFINE Reason(p) == p \in rival \cup failed' \/ (guard.by # None /\ guard.pid = None)
<1>1. ASSUME GateInv, [Next]_vars, NEW p \in Procs, p \in refused', p \notin refused
      PROVE  Reason(p)
  <2> USE GateAssumption, <1>1
      DEF GateInv, TypeOK, Running, Acquiring, AtLock, AtGuard, Leaving, Alive,
          Witnessed, Company, Vanished, Foreign, TurnAway
  <2>1. ASSUME NEW r \in Procs, Start(r) \/ CreateLock(r) \/ StampLock(r) \/ ReadLock(r)
                                 \/ LookForGuard(r) \/ CreateGuard(r) \/ SignGuard(r)
                                 \/ EndMine(r) \/ CheckLock(r) \/ Unlock(r)
                                 \/ Crash(r) \/ Age(r)
        PROVE  FALSE
    BY <2>1 DEF Start, CreateLock, StampLock, ReadLock, LookForGuard, CreateGuard,
                SignGuard, EndMine, CheckLock, Unlock, Crash, Age
  <2>2. ASSUME NEW r \in Procs, JudgeLock(r) PROVE Reason(p)
    BY <2>2 DEF JudgeLock, Move
  <2>3. ASSUME NEW r \in Procs, StealLock(r) PROVE Reason(p)
    BY <2>3 DEF StealLock, Move
  <2>4. ASSUME NEW r \in Procs, ReadGuard(r) PROVE Reason(p)
    BY <2>4 DEF ReadGuard, Move
  <2>5. ASSUME NEW r \in Procs, ProbeGuard(r) PROVE Reason(p)
    BY <2>5 DEF ProbeGuard, Move
  <2>6. ASSUME NEW r \in Procs, EvictGuard(r) PROVE Reason(p)
    BY <2>6 DEF EvictGuard, Move
  <2>7. ASSUME NEW r \in Procs, FailStamp(r) \/ FailSign(r) PROVE Reason(p)
    BY <2>7 DEF FailStamp, FailSign
  <2>8. CASE UNCHANGED vars
    BY <2>8 DEF vars
  <2> QED
    BY <2>1, <2>2, <2>3, <2>4, <2>5, <2>6, <2>7, <2>8 DEF Next, Step
<1>2. GateInv /\ [Next]_vars => \A p \in Procs : p \in refused' \ refused => Reason(p)
  BY <1>1
<1>3. GateInv /\ [Next]_vars =>
        [\A p \in Procs : p \in refused' \ refused => Reason(p)]_vars
  BY <1>2
<1> QED
  BY <1>3, Invariance, PTL DEF Spec, RefusedOnlyForAReason

-----------------------------------------------------------------------------
(***************************************************************************)
(* The mine behind the gate (module Mining), for any files, versions and   *)
(* shapes.  Every project drawer is honest about the time it carries, and  *)
(* one of them stands for all of its version.                              *)
(***************************************************************************)
\* What the miner has in hand goes with its step.
InHand ==
  /\ run.mode = Absent => at = NoWork
  /\ at.step = "check" => at = NoWork
  /\ at.step # "check" =>
       /\ run.mode # Absent
       /\ at.file \in run.todo
  /\ at.step = "stat" =>
       IF run.mode = "project" THEN at.ver = Absent
       ELSE at.ver \in Versions /\ Shape[run.mode][at.ver] # <<>>
  /\ at.step = "read" => at.ver = Absent
  /\ at.step = "add" => at.ver \in Versions
  /\ at.step # "add" => at.next = 0

\* A file nobody touched since the mine came to it is as the mine saw it.
SeenInCalm ==
  at.file \in calm =>
    /\ at.ver # Absent => at.ver = file[at.file]
    /\ at.step = "add" \/ (at.step = "read" /\ run.mode = "project") =>
         at.stamp = file[at.file]

\* A version whose time a drawer or the miner carries is that of the file, or
\* the file has had it and lost it.
Known(f, s) == s = file[f] \/ <<f, s>> \in left

\* The project drawers carry the time of their own content, or an older one.
Honest(f, v, s) == s = v \/ <<f, s>> \in left

ProjectStamped(id) == rows[id].mode = "project" /\ rows[id].stamp # Absent

StampsKnown ==
  /\ \A id \in Ids : ProjectStamped(id) =>
       /\ Known(id.file, rows[id].stamp)
       /\ Honest(id.file, rows[id].ver, rows[id].stamp)
  /\ at.stamp # Absent => Known(at.file, at.stamp)
  /\ run.mode = "project" /\ at.step = "add" /\ at.stamp # Absent =>
       Honest(at.file, at.ver, at.stamp)

\* While the mine is busy with a file, the project drawers it found there are of
\* times the file has lost: otherwise it would have skipped the file.
OldAreStale ==
  at.step # "check" /\ run.mode \in {"project", "exchange"} =>
    \A id \in Ids :
      ProjectStamped(id) /\ id.file = at.file =>
        \/ <<at.file, rows[id].stamp>> \in left
        \/ run.mode = "project" /\ at.step = "add" /\ rows[id].stamp = at.stamp

\* The chunks before n of version v of file f are in a table.
Present(table, f, m, v, n) ==
  \A i \in 1 .. n :
    LET row == table[Id(f, m, Shape[m][v][i], i - 1)]
    IN row.ver = v /\ row.mode = m

CutOrLeft(f, s) == <<f, s>> \in left \cup cut

\* The chunks added so far are in the table, unless an insert failed.
AddedIsPresent ==
  at.step = "add" /\ at.stamp # Absent =>
    <<at.file, at.stamp>> \in cut \/ Present(rows, at.file, run.mode, at.ver, at.next)

\* One project drawer with a time vouches for all of that version.
OneVouchesForAll ==
  \A id \in Ids : ProjectStamped(id) =>
    LET f == id.file
        s == rows[id].stamp
    IN \/ CutOrLeft(f, s)
       \/ Present(rows, f, "project", s, Len(Shape["project"][s]))
       \/ run.mode = "project" /\ at.step = "add" /\ at.file = f /\ at.stamp = s

Vouched == OneVouchesForAll /\ AddedIsPresent /\ OldAreStale /\ StampsKnown

-----------------------------------------------------------------------------
\* A chunk of a version has a room and a place in the table.
LEMMA ChunkTyped ==
  ASSUME NEW m \in Modes, NEW v \in Versions
  PROVE  /\ Shape[m][v] \in Seq(Rooms)
         /\ Len(Shape[m][v]) \in Nat
         /\ \A f \in Files, i \in 1 .. Len(Shape[m][v]) :
              /\ i - 1 \in Indexes
              /\ Id(f, m, Shape[m][v][i], i - 1) \in Ids
<1>1. Shape[m][v] \in Seq(Rooms)
  BY MiningAssumption
<1>2. /\ Len(Shape[m][v]) \in Nat
      /\ \A i \in 1 .. Len(Shape[m][v]) : Shape[m][v][i] \in Rooms
  BY <1>1
<1>3. ASSUME NEW i \in 1 .. Len(Shape[m][v]) PROVE i - 1 \in Indexes
  <2> DEFINE Places(mm, vv) == 0 .. Len(Shape[mm][vv]) - 1
  <2>1. i - 1 \in Places(m, v)
    BY <1>2
  <2>2. Indexes = UNION {Places(mm, vv) : mm \in Modes, vv \in Versions}
    BY DEF Indexes
  <2> HIDE DEF Places
  <2>3. Places(m, v) \in {Places(mm, vv) : mm \in Modes, vv \in Versions}
    OBVIOUS
  <2> QED
    BY <2>1, <2>2, <2>3
<1> QED
  BY <1>1, <1>2, <1>3 DEF Id, Ids

\* The first chunk has a place too.
LEMMA NextTyped ==
  ASSUME MinerTypeOK, InHand, at.step = "add"
  PROVE  /\ at.file \in Files /\ at.ver \in Versions /\ run.mode \in Modes
         /\ at.next \in Nat
         /\ at.next + 1 \in 1 .. Len(Shape[run.mode][at.ver])
         /\ Len(Shape[run.mode][at.ver]) \in Nat
         /\ at.next + 1 < Len(Shape[run.mode][at.ver]) => at.next + 1 \in Indexes
<1>1. at.file \in Files /\ at.ver \in Versions /\ run.mode \in Modes
  BY DEF InHand, MinerTypeOK
<1>2. Len(Shape[run.mode][at.ver]) \in Nat
  BY <1>1, ChunkTyped
<1>3. at.next \in Nat
  <2>1. at.next \in Indexes \cup {0}
    BY DEF MinerTypeOK
  <2>2. ASSUME NEW m \in Modes, NEW v \in Versions, at.next \in 0 .. Len(Shape[m][v]) - 1
        PROVE  at.next \in Nat
    BY <2>2, ChunkTyped
  <2> QED
    BY <2>1, <2>2 DEF Indexes
<1>4. at.next + 1 < Len(Shape[run.mode][at.ver]) => at.next + 1 \in Indexes
  <2>1. ASSUME NEW i \in 1 .. Len(Shape[run.mode][at.ver]) PROVE i - 1 \in Indexes
    BY <1>1, ChunkTyped
  <2>2. ASSUME at.next + 1 < Len(Shape[run.mode][at.ver])
        PROVE  at.next + 2 \in 1 .. Len(Shape[run.mode][at.ver])
    <3>1. \A k, n \in Nat : k + 1 < n => k + 2 \in 1 .. n
      OBVIOUS
    <3> QED
      BY <1>2, <1>3, <2>2, <3>1
  <2>3. (at.next + 2) - 1 = at.next + 1
    BY <1>3
  <2> QED
    BY <2>1, <2>2, <2>3
<1> QED
  BY <1>1, <1>2, <1>3, <1>4 DEF MinerTypeOK

AddId == Id(at.file, run.mode, Shape[run.mode][at.ver][at.next + 1], at.next)

\* What an insert does.
LEMMA AddEffect ==
  ASSUME MinerTypeOK, InHand,
         NEW stored \in BOOLEAN, Add(stored)
  PROVE  /\ AddId \in Ids
         /\ AddId.file = at.file
         /\ rows' \in [Ids -> Row]
         /\ \A id \in Ids : id # AddId \/ ~stored => rows'[id] = rows[id]
         /\ stored => rows'[AddId] = [ver |-> at.ver, stamp |-> at.stamp, mode |-> run.mode]
         /\ \/ /\ at.next + 1 = Len(Shape[run.mode][at.ver])
               /\ Leave(at.file)
            \/ /\ at.next + 1 < Len(Shape[run.mode][at.ver])
               /\ run' = run
               /\ at' = [at EXCEPT !.next = @ + 1]
         /\ cut \subseteq cut'
         /\ cut' \subseteq Files \X Versions
         /\ ~stored /\ at.stamp # Absent => <<at.file, at.stamp>> \in cut'
         /\ UNCHANGED <<file, calm, left, edits>>
         /\ faults' \in 0 .. MaxFaults
<1>1. at.step = "add"
  BY DEF Add
<1>2. /\ AddId \in Ids
      /\ at.file \in Files /\ at.ver \in Versions /\ run.mode \in Modes
      /\ at.stamp \in Versions \cup {Absent}
  BY <1>1, NextTyped, ChunkTyped DEF AddId, MinerTypeOK
<1>3. AddId.file = at.file
  BY DEF AddId, Id
<1>4. rows' = IF stored
                THEN [rows EXCEPT ![AddId] =
                        [ver |-> at.ver, stamp |-> at.stamp, mode |-> run.mode]]
                ELSE rows
  BY DEF Add, AddId
<1>5. \/ /\ at.next + 1 = Len(Shape[run.mode][at.ver])
         /\ Leave(at.file)
      \/ /\ at.next + 1 < Len(Shape[run.mode][at.ver])
         /\ run' = run
         /\ at' = [at EXCEPT !.next = @ + 1]
  BY <1>1, NextTyped DEF Add
<1>6. [ver |-> at.ver, stamp |-> at.stamp, mode |-> run.mode] \in Row
  BY <1>2 DEF Row
<1>7. rows \in [Ids -> Row]
  BY DEF MinerTypeOK
<1>8. faults' \in 0 .. MaxFaults
  BY MiningAssumption DEF Add, MinerTypeOK
<1>9. cut \subseteq cut' /\ cut' \subseteq Files \X Versions
  BY <1>2 DEF Add, MinerTypeOK
<1> QED
  BY <1>2, <1>3, <1>4, <1>5, <1>6, <1>7, <1>8, <1>9 DEF Add

\* Every step keeps the types, and what is in hand goes with the step.
LEMMA MinerTypeStep ==
  ASSUME MinerTypeOK, InHand, [MinerNext]_minerVars
  PROVE  MinerTypeOK' /\ InHand'
<1> USE MiningAssumption DEF MinerTypeOK, InHand, NoRun, NoWork, Modes
<1>1. ASSUME NEW m \in Modes, StartMine(m) PROVE MinerTypeOK' /\ InHand'
  BY <1>1 DEF StartMine
<1>2. ASSUME NEW f \in Files, Skip(f) PROVE MinerTypeOK' /\ InHand'
  BY <1>2 DEF Skip, Leave
<1>3. ASSUME NEW f \in Files, Begin(f) PROVE MinerTypeOK' /\ InHand'
  BY <1>3 DEF Begin, Order
<1>4. ASSUME Stat PROVE MinerTypeOK' /\ InHand'
  <2>1. CASE run.mode = "project"
    BY <1>4, <2>1 DEF Stat, Order
  <2>2. CASE run.mode # "project"
    <3>1. Len(Shape[run.mode][at.ver]) > 0
      BY <1>4, <2>2, ChunkTyped DEF Stat
    <3> QED
      BY <1>4, <2>2, <3>1 DEF Stat, Order
  <2> QED
    BY <2>1, <2>2
<1>5. ASSUME Read PROVE MinerTypeOK' /\ InHand'
  <2>1. CASE file[at.file] = Absent \/ Shape[run.mode][file[at.file]] = <<>>
    BY <1>5, <2>1 DEF Read, Leave
  <2>2. CASE ~(file[at.file] = Absent \/ Shape[run.mode][file[at.file]] = <<>>)
    <3>1. file[at.file] \in Versions /\ Len(Shape[run.mode][file[at.file]]) > 0
      BY <1>5, <2>2, ChunkTyped DEF Read
    <3>2. /\ at.step = "read" /\ UNCHANGED <<file, rows, run, calm, left, cut, edits, faults>>
          /\ at' = [at EXCEPT !.ver = file[at.file], !.step = Order(run.mode).read]
      BY <1>5, <2>2 DEF Read
    <3>3. Order(run.mode).read = IF run.mode = "project" THEN "add" ELSE "stat"
      BY DEF Order
    <3>4. /\ at' \in [step : {"check", "stat", "read", "add"}, file : Files \cup {Absent},
                      ver : Versions \cup {Absent}, stamp : Versions \cup {Absent},
                      next : Indexes \cup {0}]
          /\ at'.step = Order(run.mode).read /\ at'.ver = file[at.file]
          /\ at'.file = at.file /\ at'.next = 0
      BY <3>1, <3>2, <3>3
    <3>5. at'.step = "add" => at'.next < Len(Shape[run'.mode][at'.ver])
      BY <3>1, <3>2, <3>4
    <3>6. UNCHANGED <<file, rows, run, calm, left, cut, edits, faults>>
      BY <3>2
    <3>7. MinerTypeOK'
      BY <3>4, <3>5, <3>6 DEF MinerTypeOK
    <3>8. InHand'
      BY <3>1, <3>2, <3>3, <3>4 DEF InHand
    <3> QED
      BY <3>7, <3>8
  <2> QED
    BY <2>1, <2>2
<1>6. ASSUME NEW stored \in BOOLEAN, Add(stored) PROVE MinerTypeOK' /\ InHand'
  <2>1. at.step = "add"
    BY <1>6 DEF Add
  <2>2. CASE at.next + 1 = Len(Shape[run.mode][at.ver]) /\ Leave(at.file)
    BY <1>6, <2>2, AddEffect DEF Leave
  <2>3. CASE /\ at.next + 1 < Len(Shape[run.mode][at.ver])
             /\ run' = run
             /\ at' = [at EXCEPT !.next = @ + 1]
    BY <1>6, <2>1, <2>3, AddEffect, NextTyped
  <2> QED
    BY <1>6, <2>2, <2>3, AddEffect
<1>7. ASSUME End PROVE MinerTypeOK' /\ InHand'
  BY <1>7 DEF End
<1>8. ASSUME NEW f \in Files, NEW v \in Versions \cup {Absent}, Edit(f, v)
      PROVE  MinerTypeOK' /\ InHand'
  BY <1>8 DEF Edit
<1>9. ASSUME Kill PROVE MinerTypeOK' /\ InHand'
  BY <1>9 DEF Kill
<1>10. CASE UNCHANGED minerVars
  BY <1>10 DEF minerVars
<1> QED
  BY <1>1, <1>2, <1>3, <1>4, <1>5, <1>6, <1>7, <1>8, <1>9, <1>10 DEF MinerNext, Mine

\* The mine sees a calm file as it is.
LEMMA CalmStep ==
  ASSUME MinerTypeOK, InHand, SeenInCalm, [MinerNext]_minerVars
  PROVE  SeenInCalm'
<1> USE MiningAssumption DEF MinerTypeOK, InHand, SeenInCalm, NoRun, NoWork, Modes
<1>1. ASSUME NEW m \in Modes, StartMine(m) PROVE SeenInCalm'
  BY <1>1 DEF StartMine
<1>2. ASSUME NEW f \in Files, Skip(f) PROVE SeenInCalm'
  BY <1>2 DEF Skip, Leave
<1>3. ASSUME NEW f \in Files, Begin(f) PROVE SeenInCalm'
  BY <1>3 DEF Begin, Order
<1>4. ASSUME Stat PROVE SeenInCalm'
  BY <1>4 DEF Stat, Order
<1>5. ASSUME Read PROVE SeenInCalm'
  <2>1. CASE at' = NoWork
    BY <1>5, <2>1 DEF Read
  <2>2. CASE at' = [at EXCEPT !.ver = file[at.file], !.step = Order(run.mode).read]
             /\ run' = run
    <3>1. at'.file = at.file /\ at'.ver = file[at.file] /\ at'.stamp = at.stamp
      BY <2>2
    <3>2. at'.step = IF run.mode = "project" THEN "add" ELSE "stat"
      BY <2>2 DEF Order
    <3> QED
      BY <1>5, <2>2, <3>1, <3>2 DEF Read
  <2> QED
    BY <1>5, <2>1, <2>2 DEF Read, Leave
<1>6. ASSUME NEW stored \in BOOLEAN, Add(stored) PROVE SeenInCalm'
  <2>1. at.step = "add"
    BY <1>6 DEF Add
  <2>2. CASE at' = NoWork
    BY <1>6, <2>2, AddEffect
  <2>3. CASE at' = [at EXCEPT !.next = @ + 1]
    <3>1. at'.file = at.file /\ at'.ver = at.ver /\ at'.stamp = at.stamp
      BY <2>3
    <3>2. UNCHANGED <<file, calm>>
      BY <1>6, AddEffect
    <3> QED
      BY <2>1, <3>1, <3>2
  <2> QED
    BY <1>6, <2>2, <2>3, AddEffect DEF Leave
<1>7. ASSUME End PROVE SeenInCalm'
  BY <1>7 DEF End
<1>8. ASSUME NEW f \in Files, NEW v \in Versions \cup {Absent}, Edit(f, v)
      PROVE  SeenInCalm'
  BY <1>8 DEF Edit
<1>9. ASSUME Kill PROVE SeenInCalm'
  BY <1>9 DEF Kill
<1>10. CASE UNCHANGED minerVars
  BY <1>10 DEF minerVars
<1> QED
  BY <1>1, <1>2, <1>3, <1>4, <1>5, <1>6, <1>7, <1>8, <1>9, <1>10 DEF MinerNext, Mine

\* The times of drawers stay known, and honest.
LEMMA StampsStep ==
  ASSUME MinerTypeOK, InHand, StampsKnown, [MinerNext]_minerVars
  PROVE  StampsKnown'
<1> DEFINE OfRows == \A id \in Ids : ProjectStamped(id) =>
                       /\ Known(id.file, rows[id].stamp)
                       /\ Honest(id.file, rows[id].ver, rows[id].stamp)
           OfHand == /\ at.stamp # Absent => Known(at.file, at.stamp)
                     /\ run.mode = "project" /\ at.step = "add" /\ at.stamp # Absent =>
                          Honest(at.file, at.ver, at.stamp)
<1>0. OfRows /\ OfHand /\ (OfRows' /\ OfHand' => StampsKnown')
  BY DEF StampsKnown
<1>a. ASSUME UNCHANGED <<file, rows, left>> PROVE OfRows'
  BY <1>0, <1>a DEF ProjectStamped, Known, Honest
<1>b. ASSUME at' = NoWork PROVE OfHand'
  BY <1>b DEF NoWork
<1>1. ASSUME NEW m \in Modes, StartMine(m) PROVE OfRows' /\ OfHand'
  <2>1. at' = NoWork /\ UNCHANGED <<file, rows, left>>
    BY <1>1 DEF StartMine, InHand
  <2> QED
    BY <1>a, <1>b, <2>1
<1>2. ASSUME NEW f \in Files, Skip(f) PROVE OfRows' /\ OfHand'
  BY <1>2, <1>a, <1>b DEF Skip, Leave
<1>3. ASSUME NEW f \in Files, Begin(f) PROVE OfRows' /\ OfHand'
  <2>1. at'.stamp = Absent
    BY <1>3 DEF Begin, NoWork
  <2> QED
    BY <1>3, <1>a, <2>1 DEF Begin
<1>4. ASSUME Stat PROVE OfRows' /\ OfHand'
  <2>1. /\ at'.file = at.file /\ at'.stamp = file[at.file]
        /\ run.mode = "project" => at'.step = "read"
    BY <1>4 DEF Stat, Order, MinerTypeOK
  <2> QED
    BY <1>4, <1>a, <2>1 DEF Stat, Known
<1>5. ASSUME Read PROVE OfRows' /\ OfHand'
  <2>1. CASE at' = NoWork
    BY <1>5, <1>a, <1>b, <2>1 DEF Read
  <2>2. CASE at' = [at EXCEPT !.ver = file[at.file], !.step = Order(run.mode).read]
    <3>1. at'.file = at.file /\ at'.ver = file[at.file] /\ at'.stamp = at.stamp
      BY <2>2 DEF MinerTypeOK
    <3> QED
      BY <1>0, <1>5, <1>a, <3>1 DEF Read, Known, Honest
  <2> QED
    BY <1>5, <2>1, <2>2 DEF Read, Leave
<1>6. ASSUME NEW stored \in BOOLEAN, Add(stored) PROVE OfRows' /\ OfHand'
  <2>1. at.step = "add" /\ UNCHANGED <<file, left>>
    BY <1>6 DEF Add
  <2>2. ASSUME NEW id \in Ids, ProjectStamped(id)'
        PROVE  /\ Known(id.file, rows[id].stamp)'
               /\ Honest(id.file, rows[id].ver, rows[id].stamp)'
    <3>1. CASE rows'[id] = rows[id]
      BY <1>0, <2>1, <2>2, <3>1 DEF ProjectStamped, Known, Honest
    <3>2. CASE /\ id = AddId /\ AddId.file = at.file
               /\ rows'[id] = [ver |-> at.ver, stamp |-> at.stamp, mode |-> run.mode]
      BY <1>0, <2>1, <2>2, <3>2 DEF ProjectStamped, Known, Honest
    <3> QED
      BY <1>6, <3>1, <3>2, AddEffect
  <2>3. CASE at' = NoWork
    BY <2>2, <2>3, <1>b
  <2>4. CASE at' = [at EXCEPT !.next = @ + 1] /\ run' = run
    <3>1. at'.file = at.file /\ at'.ver = at.ver /\ at'.stamp = at.stamp
      BY <2>4 DEF MinerTypeOK
    <3> QED
      BY <1>0, <2>1, <2>2, <2>4, <3>1 DEF Known, Honest
  <2> QED
    BY <1>6, <2>3, <2>4, AddEffect DEF Leave
<1>7. ASSUME End PROVE OfRows' /\ OfHand'
  BY <1>7, <1>0, <1>a, <1>b DEF End, InHand
<1>8. ASSUME NEW f \in Files, NEW v \in Versions \cup {Absent}, Edit(f, v)
      PROVE  OfRows' /\ OfHand'
  <2>1. ASSUME NEW g \in Files, NEW s \in Versions, Known(g, s) PROVE Known(g, s)'
    BY MiningAssumption, <1>8, <2>1 DEF Edit, Known, MinerTypeOK
  <2>2. ASSUME NEW g, NEW s, NEW w, Honest(g, w, s) PROVE Honest(g, w, s)'
    BY <1>8, <2>2 DEF Edit, Honest
  <2>3. ASSUME NEW id \in Ids, ProjectStamped(id)'
        PROVE  /\ Known(id.file, rows[id].stamp)'
               /\ Honest(id.file, rows[id].ver, rows[id].stamp)'
    <3>1. rows' = rows /\ ProjectStamped(id)
      BY <1>8, <2>3 DEF Edit, ProjectStamped
    <3>2. rows[id].stamp \in Versions /\ id.file \in Files
      BY <3>1 DEF ProjectStamped, MinerTypeOK, Row, Ids
    <3> QED
      BY <1>0, <2>1, <2>2, <3>1, <3>2 DEF Known, Honest
  <2>4. UNCHANGED <<at, run>>
    BY <1>8 DEF Edit
  <2>5. at.stamp # Absent => at.stamp \in Versions /\ at.file \in Files
    BY DEF MinerTypeOK, InHand, NoWork
  <2> QED
    BY <1>0, <2>1, <2>2, <2>3, <2>4, <2>5 DEF Known, Honest
<1>9. ASSUME Kill PROVE OfRows' /\ OfHand'
  BY <1>9, <1>0, <1>a, <1>b DEF Kill
<1>10. ASSUME UNCHANGED minerVars PROVE OfRows' /\ OfHand'
  BY <1>10, <1>0, <1>a DEF minerVars, Known, Honest
<1> HIDE DEF OfRows, OfHand
<1> QED
  BY <1>0, <1>1, <1>2, <1>3, <1>4, <1>5, <1>6, <1>7, <1>8, <1>9, <1>10
     DEF MinerNext, Mine

\* While the mine is busy with a file, the project drawers it found there stay
\* out of date.
LEMMA StaleStep ==
  ASSUME MinerTypeOK, InHand, StampsKnown, OldAreStale,
         [MinerNext]_minerVars
  PROVE  OldAreStale'
<1>a. ASSUME at' = NoWork PROVE OldAreStale'
  BY <1>a DEF OldAreStale, NoWork
<1>b. ASSUME at.step # "check", at.step # "add", at'.file = at.file, run' = run,
             UNCHANGED <<rows, left>>
      PROVE  OldAreStale'
  BY <1>b DEF OldAreStale, ProjectStamped
<1>1. ASSUME NEW m \in Modes, StartMine(m) PROVE OldAreStale'
  BY <1>1, <1>a DEF StartMine, InHand
<1>2. ASSUME NEW f \in Files, Skip(f) PROVE OldAreStale'
  BY <1>2, <1>a DEF Skip, Leave
<1>3. ASSUME NEW f \in Files, Begin(f) PROVE OldAreStale'
  <2>1. at'.file = f
    BY <1>3 DEF Begin, NoWork
  <2>2. ASSUME NEW id \in Ids, ProjectStamped(id), id.file = f,
               run.mode \in {"project", "exchange"}
        PROVE  <<f, rows[id].stamp>> \in left
    BY <1>3, <2>2 DEF Begin, AlreadyMined, StampsKnown, Known, ProjectStamped
  <2> QED
    BY <1>3, <2>1, <2>2 DEF Begin, OldAreStale, ProjectStamped
<1>4. ASSUME Stat PROVE OldAreStale'
  <2>1. at'.file = at.file
    BY <1>4 DEF Stat, MinerTypeOK
  <2> QED
    BY <1>4, <1>b, <2>1 DEF Stat
<1>5. ASSUME Read PROVE OldAreStale'
  <2>1. CASE at' = NoWork
    BY <1>a, <2>1
  <2>2. CASE /\ at' = [at EXCEPT !.ver = file[at.file], !.step = Order(run.mode).read]
             /\ run' = run
    <3>1. at'.file = at.file
      BY <2>2 DEF MinerTypeOK
    <3> QED
      BY <1>5, <1>b, <2>2, <3>1 DEF Read
  <2> QED
    BY <1>5, <2>1, <2>2 DEF Read, Leave
<1>6. ASSUME NEW stored \in BOOLEAN, Add(stored) PROVE OldAreStale'
  <2>1. CASE at' = NoWork
    BY <1>a, <2>1
  <2>2. CASE at' = [at EXCEPT !.next = @ + 1] /\ run' = run
    <3>1. at.step = "add" /\ at'.step = "add" /\ at'.file = at.file /\ at'.stamp = at.stamp
      BY <1>6, <2>2 DEF Add, MinerTypeOK
    <3>2. left' = left
      BY <1>6 DEF Add
    <3>3. ASSUME NEW id \in Ids
          PROVE  \/ rows'[id] = rows[id]
                 \/ rows'[id] = [ver |-> at.ver, stamp |-> at.stamp, mode |-> run.mode]
      BY <1>6, AddEffect
    <3>4. ASSUME NEW id \in Ids, ProjectStamped(id)', id.file = at.file,
                 run.mode \in {"project", "exchange"}
          PROVE  \/ <<at.file, rows'[id].stamp>> \in left
                 \/ run.mode = "project" /\ rows'[id].stamp = at.stamp
      <4>1. CASE rows'[id] = rows[id]
        BY <3>1, <3>4, <4>1 DEF OldAreStale, ProjectStamped
      <4>2. CASE rows'[id] = [ver |-> at.ver, stamp |-> at.stamp, mode |-> run.mode]
        BY <3>4, <4>2 DEF ProjectStamped
      <4> QED
        BY <3>3, <4>1, <4>2
    <3> QED
      BY <2>2, <3>1, <3>2, <3>4 DEF OldAreStale
  <2> QED
    BY <1>6, <2>1, <2>2, AddEffect DEF Leave
<1>7. ASSUME End PROVE OldAreStale'
  BY <1>7, <1>a DEF End, InHand
<1>8. ASSUME NEW f \in Files, NEW v \in Versions \cup {Absent}, Edit(f, v)
      PROVE  OldAreStale'
  <2>1. left \subseteq left' /\ UNCHANGED <<rows, run, at>>
    BY <1>8 DEF Edit
  <2> QED
    BY <2>1 DEF OldAreStale, ProjectStamped
<1>9. ASSUME Kill PROVE OldAreStale'
  BY <1>9, <1>a DEF Kill
<1>10. CASE UNCHANGED minerVars
  BY <1>10 DEF minerVars, OldAreStale, ProjectStamped
<1> QED
  BY <1>1, <1>2, <1>3, <1>4, <1>5, <1>6, <1>7, <1>8, <1>9, <1>10 DEF MinerNext, Mine

\* Chunks in the table stay there while no drawer of theirs is written.
LEMMA PresentKept ==
  ASSUME NEW f \in Files, NEW m \in Modes, NEW v \in Versions,
         NEW n \in 0 .. Len(Shape[m][v]), Present(rows, f, m, v, n),
         \A id \in Ids :
           id.file = f /\ (id.general <=> m = "general") => rows'[id] = rows[id]
  PROVE  Present(rows', f, m, v, n)
<1>1. ASSUME NEW i \in 1 .. n
      PROVE  LET id == Id(f, m, Shape[m][v][i], i - 1) IN rows'[id] = rows[id]
  <2>1. i \in 1 .. Len(Shape[m][v])
    BY ChunkTyped
  <2>2. Id(f, m, Shape[m][v][i], i - 1) \in Ids
    BY <2>1, ChunkTyped
  <2>3. /\ Id(f, m, Shape[m][v][i], i - 1).file = f
        /\ Id(f, m, Shape[m][v][i], i - 1).general <=> m = "general"
    BY DEF Id
  <2> QED
    BY <2>2, <2>3
<1> QED
  BY <1>1 DEF Present

\* After an insert one more chunk is in the table, unless an insert failed.
LEMMA AddedNow ==
  ASSUME MinerTypeOK, InHand, AddedIsPresent,
         NEW stored \in BOOLEAN, Add(stored), at.stamp # Absent
  PROVE  \/ <<at.file, at.stamp>> \in cut'
         \/ Present(rows', at.file, run.mode, at.ver, at.next + 1)
<1> DEFINE IdOf(i) == Id(at.file, run.mode, Shape[run.mode][at.ver][i], i - 1)
<1>1. at.step = "add"
  BY DEF Add
<1>2. CASE ~stored \/ <<at.file, at.stamp>> \in cut
  BY <1>2, AddEffect
<1>3. CASE stored /\ <<at.file, at.stamp>> \notin cut
  <2>1. Present(rows, at.file, run.mode, at.ver, at.next)
    BY <1>1, <1>3 DEF AddedIsPresent
  <2>2. at.next \in Nat /\ at.next + 1 \in 1 .. Len(Shape[run.mode][at.ver])
        /\ Len(Shape[run.mode][at.ver]) \in Nat
    BY <1>1, NextTyped
  <2>3. ASSUME NEW i \in 1 .. at.next + 1
        PROVE  rows'[IdOf(i)].ver = at.ver /\ rows'[IdOf(i)].mode = run.mode
    <3>1. CASE i = at.next + 1
      <4>1. IdOf(i) = AddId
        BY <2>2, <3>1 DEF AddId
      <4>2. rows'[AddId] = [ver |-> at.ver, stamp |-> at.stamp, mode |-> run.mode]
        BY <1>3, AddEffect
      <4> QED
        BY <4>1, <4>2
    <3>2. CASE i # at.next + 1
      <4>1. i \in 1 .. at.next /\ i \in 1 .. Len(Shape[run.mode][at.ver])
        BY <2>2, <3>2
      <4>2. IdOf(i) \in Ids
        BY <1>1, <4>1, NextTyped, ChunkTyped
      <4>3. IdOf(i).index # AddId.index
        BY <2>2, <4>1 DEF AddId, Id
      <4>4. rows'[IdOf(i)] = rows[IdOf(i)]
        BY <4>2, <4>3, AddEffect
      <4> QED
        BY <2>1, <4>1, <4>4 DEF Present
    <3> QED
      BY <3>1, <3>2
  <2> QED
    BY <2>3 DEF Present
<1> QED
  BY <1>2, <1>3

\* The chunks added so far stay in the table.
LEMMA AddedStep ==
  ASSUME MinerTypeOK, InHand, AddedIsPresent, [MinerNext]_minerVars
  PROVE  AddedIsPresent'
<1>a. ASSUME at'.step # "add" \/ at'.next = 0 PROVE AddedIsPresent'
  BY <1>a DEF AddedIsPresent, Present
<1>1. ASSUME NEW m \in Modes, StartMine(m) PROVE AddedIsPresent'
  BY <1>1, <1>a DEF StartMine, InHand, NoWork
<1>2. ASSUME NEW f \in Files, Skip(f) PROVE AddedIsPresent'
  BY <1>2, <1>a DEF Skip, Leave, NoWork
<1>3. ASSUME NEW f \in Files, Begin(f) PROVE AddedIsPresent'
  BY <1>3, <1>a DEF Begin, NoWork
<1>4. ASSUME Stat PROVE AddedIsPresent'
  <2>1. at'.next = 0
    BY <1>4 DEF Stat, InHand, MinerTypeOK
  <2> QED
    BY <1>a, <2>1
<1>5. ASSUME Read PROVE AddedIsPresent'
  <2>1. CASE at' = NoWork
    BY <1>a, <2>1 DEF NoWork
  <2>2. CASE at' = [at EXCEPT !.ver = file[at.file], !.step = Order(run.mode).read]
    <3>1. at'.next = 0
      BY <1>5, <2>2 DEF Read, InHand, MinerTypeOK
    <3> QED
      BY <1>a, <3>1
  <2> QED
    BY <1>5, <2>1, <2>2 DEF Read, Leave
<1>6. ASSUME NEW stored \in BOOLEAN, Add(stored) PROVE AddedIsPresent'
  <2>1. CASE at' = NoWork
    BY <1>a, <2>1 DEF NoWork
  <2>2. CASE at' = [at EXCEPT !.next = @ + 1] /\ run' = run
    <3>1. /\ at'.file = at.file /\ at'.ver = at.ver /\ at'.stamp = at.stamp
          /\ at'.next = at.next + 1
      BY <2>2 DEF MinerTypeOK
    <3> QED
      BY <1>6, <2>2, <3>1, AddedNow DEF AddedIsPresent, Present
  <2> QED
    BY <1>6, <2>1, <2>2, AddEffect DEF Leave
<1>7. ASSUME End PROVE AddedIsPresent'
  BY <1>7, <1>a DEF End, InHand, NoWork
<1>8. ASSUME NEW f \in Files, NEW v \in Versions \cup {Absent}, Edit(f, v)
      PROVE  AddedIsPresent'
  BY <1>8 DEF Edit, AddedIsPresent, Present
<1>9. ASSUME Kill PROVE AddedIsPresent'
  BY <1>9, <1>a DEF Kill, NoWork
<1>10. CASE UNCHANGED minerVars
  BY <1>10 DEF minerVars, AddedIsPresent, Present
<1> QED
  BY <1>1, <1>2, <1>3, <1>4, <1>5, <1>6, <1>7, <1>8, <1>9, <1>10 DEF MinerNext, Mine

\* One project drawer with a time goes on vouching for all of that version.
LEMMA VouchStep ==
  ASSUME MinerTypeOK, InHand, Vouched, [MinerNext]_minerVars
  PROVE  OneVouchesForAll'
<1> DEFINE Whole(table, f, s) == Present(table, f, "project", s, Len(Shape["project"][s]))
           InWork(f, s) == run.mode = "project" /\ at.step = "add" /\ at.file = f /\ at.stamp = s
<1>0. \A id \in Ids : ProjectStamped(id) =>
        \/ CutOrLeft(id.file, rows[id].stamp)
        \/ Whole(rows, id.file, rows[id].stamp)
        \/ InWork(id.file, rows[id].stamp)
  BY DEF Vouched, OneVouchesForAll
<1>a. ASSUME UNCHANGED rows, left \subseteq left', cut \subseteq cut',
             \A f, s : InWork(f, s) /\ s # Absent => InWork(f, s)' \/ CutOrLeft(f, s)'
      PROVE  OneVouchesForAll'
  <2>1. \A f, s : CutOrLeft(f, s) => CutOrLeft(f, s)'
    BY <1>a DEF CutOrLeft
  <2> QED
    BY <1>0, <1>a, <2>1 DEF OneVouchesForAll, ProjectStamped, Present
<1>1. ASSUME NEW m \in Modes, StartMine(m) PROVE OneVouchesForAll'
  BY <1>1, <1>a DEF StartMine, InHand, NoWork
<1>2. ASSUME NEW f \in Files, Skip(f) PROVE OneVouchesForAll'
  BY <1>2, <1>a DEF Skip
<1>3. ASSUME NEW f \in Files, Begin(f) PROVE OneVouchesForAll'
  BY <1>3, <1>a DEF Begin
<1>4. ASSUME Stat PROVE OneVouchesForAll'
  BY <1>4, <1>a DEF Stat
<1>5. ASSUME Read PROVE OneVouchesForAll'
  BY <1>5, <1>a DEF Read
<1>6. ASSUME NEW stored \in BOOLEAN, Add(stored) PROVE OneVouchesForAll'
  <2>1. /\ at.step = "add" /\ left' = left
        /\ at.file \in Files /\ at.ver \in Versions /\ run.mode \in Modes
    BY <1>6, NextTyped DEF Add
  <2>2. \A f, s : CutOrLeft(f, s) => CutOrLeft(f, s)'
    BY <1>6, <2>1, AddEffect DEF CutOrLeft
  <2>3. \* The version in work is whole when its last chunk is added.
        ASSUME NEW f, NEW s, InWork(f, s), s # Absent
        PROVE  InWork(f, s)' \/ CutOrLeft(f, s)' \/ Whole(rows', f, s)
    <3>1. CASE at' = [at EXCEPT !.next = @ + 1] /\ run' = run
      BY <2>1, <2>3, <3>1 DEF MinerTypeOK
    <3>2. CASE at.next + 1 = Len(Shape[run.mode][at.ver])
      <4>1. <<f, s>> \in cut' \/ Present(rows', f, "project", at.ver, Len(Shape["project"][at.ver]))
        BY <1>6, <2>3, <3>2, AddedNow DEF Vouched
      <4>2. s = at.ver \/ <<f, s>> \in left
        BY <2>1, <2>3 DEF Vouched, StampsKnown, Honest
      <4> QED
        BY <2>1, <4>1, <4>2 DEF CutOrLeft
    <3> QED
      BY <1>6, <3>1, <3>2, AddEffect
  <2>4. ASSUME NEW id \in Ids, ProjectStamped(id)', NEW s, rows'[id].stamp = s
        PROVE  InWork(id.file, s)' \/ CutOrLeft(id.file, s)' \/ Whole(rows', id.file, s)
    <3>0. s # Absent /\ rows'[id].mode = "project"
      BY <2>4 DEF ProjectStamped
    <3>1. CASE id = AddId /\ stored
      <4>1. AddId.file = at.file /\
            rows'[id] = [ver |-> at.ver, stamp |-> at.stamp, mode |-> run.mode]
        BY <1>6, <3>1, AddEffect
      <4>2. InWork(id.file, s)
        BY <2>1, <2>4, <3>0, <3>1, <4>1
      <4> QED
        BY <2>3, <3>0, <4>2
    <3>2. CASE id # AddId \/ ~stored
      <4>1. rows'[id] = rows[id] /\ ProjectStamped(id) /\ rows[id].stamp = s
        BY <1>6, <2>4, <3>0, <3>2, AddEffect DEF ProjectStamped
      <4>2. s \in Versions /\ id.file \in Files
        BY <3>0, <4>1 DEF MinerTypeOK, Row, Ids
      <4>3. CASE InWork(id.file, s)
        BY <2>3, <3>0, <4>3
      <4>4. CASE id.file = at.file /\ run.mode \in {"project", "exchange"}
        <5>1. CutOrLeft(id.file, s) \/ InWork(id.file, s)
          BY <2>1, <4>1, <4>4 DEF Vouched, OldAreStale, CutOrLeft
        <5> QED
          BY <2>2, <4>3, <5>1
      <4>5. CASE id.file # at.file \/ run.mode = "general"
        <5>1. Len(Shape["project"][s]) \in 0 .. Len(Shape["project"][s])
          BY <4>2, ChunkTyped DEF Modes
        <5>2. AddId.file = at.file /\ (AddId.general <=> run.mode = "general")
          BY DEF AddId, Id
        <5>3. ASSUME NEW other \in Ids, other.file = id.file, ~other.general
              PROVE  rows'[other] = rows[other]
          <6>1. other # AddId
            BY <4>5, <5>2, <5>3
          <6> QED
            BY <1>6, <6>1, AddEffect
        <5>4. ASSUME Whole(rows, id.file, s)
              PROVE  Whole(rows', id.file, s)
          <6>1. "project" \in Modes /\ "project" # "general"
            BY DEF Modes
          <6> QED
            BY <4>2, <5>1, <5>3, <5>4, <6>1, PresentKept
        <5> QED
          BY <1>0, <2>2, <4>1, <4>3, <5>4
      <4> QED
        BY <2>1, <4>4, <4>5 DEF Modes
    <3> QED
      BY <3>1, <3>2
  <2> QED
    BY <2>4 DEF OneVouchesForAll, CutOrLeft
<1>7. ASSUME End PROVE OneVouchesForAll'
  BY <1>7, <1>a DEF End
<1>8. ASSUME NEW f \in Files, NEW v \in Versions \cup {Absent}, Edit(f, v)
      PROVE  OneVouchesForAll'
  BY <1>8, <1>a DEF Edit
<1>9. ASSUME Kill PROVE OneVouchesForAll'
  BY <1>9, <1>a DEF Kill, CutOrLeft
<1>10. CASE UNCHANGED minerVars
  BY <1>10, <1>a DEF minerVars
<1> QED
  BY <1>1, <1>2, <1>3, <1>4, <1>5, <1>6, <1>7, <1>8, <1>9, <1>10 DEF MinerNext, Mine

\* File f, at version v, is filed in a table, or excused by versions gone or cut.
FiledAs(table, v, f, m) ==
  v # Absent =>
    \A i \in DOMAIN Shape[m][v] :
      LET row == table[Id(f, m, Shape[m][v][i], i - 1)]
      IN row.ver = v /\ row.mode = m
GoodAs(table, v, gone, f, m) == FiledAs(table, v, f, m) \/ (v # Absent /\ <<f, v>> \in gone)

\* PassedIsFiled, and the same in the next state, in these words.
LEMMA PassedForm ==
  /\ PassedIsFiled <=>
       (run.mode \in {"project", "general"} =>
          \A f \in calm \ run.todo : GoodAs(rows, file[f], left \cup cut, f, run.mode))
  /\ PassedIsFiled' <=>
       (run'.mode \in {"project", "general"} =>
          \A f \in calm' \ run'.todo : GoodAs(rows', file'[f], left' \cup cut', f, run'.mode))
<1>1. \A f, m : GoodAs(rows, file[f], left \cup cut, f, m) <=> Filed(f, m) \/ Excused(f)
  BY DEF GoodAs, FiledAs, Filed, Excused
<1>2. \A f, m : GoodAs(rows', file'[f], left' \cup cut', f, m) <=> (Filed(f, m) \/ Excused(f))'
  BY DEF GoodAs, FiledAs, Filed, Excused
<1> QED
  BY <1>1, <1>2 DEF PassedIsFiled

\* A version all of whose chunks are present is filed.
LEMMA PresentIsFiled ==
  ASSUME NEW table, NEW f, NEW m, NEW v, NEW n, Present(table, f, m, v, n),
         DOMAIN Shape[m][v] = 1 .. n
  PROVE  FiledAs(table, v, f, m)
BY DEF Present, FiledAs

\* What the mine has passed stays filed, or excused.
LEMMA PassedStep ==
  ASSUME MinerTypeOK, InHand, SeenInCalm, Vouched,
         PassedIsFiled, [MinerNext]_minerVars
  PROVE  PassedIsFiled'
<1> DEFINE Good(f, m) == GoodAs(rows, file[f], left \cup cut, f, m)
           GoodNow(f, m) == GoodAs(rows', file'[f], left' \cup cut', f, m)
<1>0. \A m \in Modes, v \in Versions : DOMAIN Shape[m][v] = 1 .. Len(Shape[m][v])
  BY ChunkTyped
<1>b. ASSUME run'.mode = Absent PROVE PassedIsFiled'
  BY MiningAssumption, <1>b DEF PassedIsFiled, Modes
<1>c. ASSUME NEW f \in calm \ run.todo, run.mode \in {"project", "general"} PROVE Good(f, run.mode)
  BY <1>c, PassedForm
<1>d. ASSUME run'.mode = run.mode,
             run.mode \in {"project", "general"} =>
               \A f \in calm' \ run'.todo : GoodNow(f, run.mode)
      PROVE  PassedIsFiled'
  BY <1>d, PassedForm
<1>e. ASSUME NEW f, NEW m, file'[f] = file[f], rows' = rows, left \subseteq left', cut \subseteq cut',
             Good(f, m)
      PROVE  GoodNow(f, m)
  BY <1>e DEF GoodAs
<1> HIDE DEF Good, GoodNow
<1>a. ASSUME calm' \ run'.todo \subseteq calm \ run.todo, run'.mode = run.mode,
             UNCHANGED <<file, rows>>, left \subseteq left', cut \subseteq cut'
      PROVE  PassedIsFiled'
  BY <1>a, <1>c, <1>d, <1>e
<1>1. ASSUME NEW m \in Modes, StartMine(m) PROVE PassedIsFiled'
  BY <1>1 DEF StartMine, PassedIsFiled
<1>2. ASSUME NEW f \in Files, Skip(f) PROVE PassedIsFiled'
  <2>1. ASSUME run.mode = "project" PROVE Good(f, run.mode)
    <3>1. PICK id \in Ids : /\ id.file = f
                            /\ ProjectStamped(id)
                            /\ rows[id].stamp = file[f]
      BY <1>2 DEF Skip, AlreadyMined, ProjectStamped
    <3>2. at.step = "check" /\ file[f] \in Versions /\ file[f] # Absent
      BY <1>2, <3>1 DEF Skip, ProjectStamped, MinerTypeOK, Row
    <3>3. CutOrLeft(f, file[f]) \/ Present(rows, f, "project", file[f], Len(Shape["project"][file[f]]))
      BY <3>1, <3>2 DEF Vouched, OneVouchesForAll
    <3>4. DOMAIN Shape["project"][file[f]] = 1 .. Len(Shape["project"][file[f]])
      BY <1>0, <3>2 DEF Modes
    <3>5. Present(rows, f, "project", file[f], Len(Shape["project"][file[f]]))
            => FiledAs(rows, file[f], f, "project")
      BY <3>4, PresentIsFiled
    <3> QED
      BY <2>1, <3>2, <3>3, <3>5 DEF Good, GoodAs, CutOrLeft
  <2>2. run.mode # "general"
    BY <1>2 DEF Skip, AlreadyMined
  <2>3. ASSUME NEW g \in calm' \ run'.todo, run.mode = "project" PROVE Good(g, run.mode)
    <3>1. g = f \/ g \in calm \ run.todo
      BY <1>2 DEF Skip, Leave, MinerTypeOK
    <3> QED
      BY <1>c, <2>1, <2>3, <3>1
  <2>4. run'.mode = run.mode /\ UNCHANGED <<file, rows, left, cut>>
    BY <1>2 DEF Skip, Leave, MinerTypeOK
  <2>5. ASSUME NEW g \in calm' \ run'.todo, run.mode \in {"project", "general"}
        PROVE  GoodNow(g, run.mode)
    BY <1>e, <2>2, <2>3, <2>4, <2>5
  <2> QED
    BY <1>d, <2>4, <2>5
<1>3. ASSUME NEW f \in Files, Begin(f) PROVE PassedIsFiled'
  BY <1>3, <1>a DEF Begin
<1>4. ASSUME Stat PROVE PassedIsFiled'
  BY <1>4, <1>a DEF Stat
<1>5. ASSUME Read PROVE PassedIsFiled'
  <2>1. CASE run' = run
    BY <1>5, <1>a, <2>1 DEF Read
  <2>2. CASE /\ file[at.file] = Absent \/ Shape[run.mode][file[at.file]] = <<>>
             /\ Leave(at.file)
    <3>1. at.file \in Files /\ run.mode \in Modes
      BY <1>5 DEF Read, InHand, MinerTypeOK
    <3>2. file[at.file] # Absent => DOMAIN Shape[run.mode][file[at.file]] = {}
      BY <2>2
    <3>3. Good(at.file, run.mode)
      BY <3>2 DEF Good, GoodAs, FiledAs
    <3>4. run'.mode = run.mode /\ run'.todo = run.todo \ {at.file}
      BY <2>2 DEF Leave, MinerTypeOK
    <3>5. UNCHANGED <<file, rows, calm, left, cut>>
      BY <1>5 DEF Read
    <3>6. ASSUME NEW g \in calm' \ run'.todo, run.mode \in {"project", "general"}
          PROVE  Good(g, run.mode)
      BY <1>c, <3>3, <3>4, <3>5, <3>6
    <3> QED
      BY <1>d, <1>e, <3>4, <3>5, <3>6
  <2> QED
    BY <1>5, <2>1, <2>2 DEF Read
<1>6. ASSUME NEW stored \in BOOLEAN, Add(stored) PROVE PassedIsFiled'
  <2>1. /\ at.step = "add"
        /\ at.file \in Files /\ at.ver \in Versions /\ run.mode \in Modes
        /\ at.file \in run.todo
    BY <1>6, NextTyped DEF Add, InHand
  <2>2. UNCHANGED <<file, calm, left>> /\ cut \subseteq cut' /\ AddId.file = at.file
    BY <1>6, AddEffect
  <2>3. run'.mode = run.mode
    BY <1>6, AddEffect DEF Leave, MinerTypeOK
  <2>4. ASSUME NEW g \in Files, g # at.file, Good(g, run.mode) PROVE GoodNow(g, run.mode)
    <3>1. \A id \in Ids : id.file = g => rows'[id] = rows[id]
      BY <1>6, <2>2, <2>4, AddEffect
    <3>2. \A m \in Modes, v \in Versions : \A i \in 1 .. Len(Shape[m][v]) :
            rows'[Id(g, m, Shape[m][v][i], i - 1)] = rows[Id(g, m, Shape[m][v][i], i - 1)]
      BY <3>1, ChunkTyped DEF Id
    <3>3. file[g] \in Versions \cup {Absent} /\ file'[g] = file[g]
      BY <2>2 DEF MinerTypeOK
    <3>4. FiledAs(rows, file[g], g, run.mode) => FiledAs(rows', file[g], g, run.mode)
      <4>1. CASE file[g] = Absent
        BY <4>1 DEF FiledAs
      <4>2. CASE file[g] \in Versions
        <5>1. \A i \in DOMAIN Shape[run.mode][file[g]] :
                rows'[Id(g, run.mode, Shape[run.mode][file[g]][i], i - 1)]
                  = rows[Id(g, run.mode, Shape[run.mode][file[g]][i], i - 1)]
          <6>1. DOMAIN Shape[run.mode][file[g]] = 1 .. Len(Shape[run.mode][file[g]])
            BY <1>0, <2>1, <4>2, Zenon
          <6>2. \A i \in 1 .. Len(Shape[run.mode][file[g]]) :
                  rows'[Id(g, run.mode, Shape[run.mode][file[g]][i], i - 1)]
                    = rows[Id(g, run.mode, Shape[run.mode][file[g]][i], i - 1)]
            BY <2>1, <3>2, <4>2, Zenon
          <6> QED
            BY <6>1, <6>2, Zenon
        <5> QED
          BY <5>1 DEF FiledAs
      <4> QED
        BY <3>3, <4>1, <4>2
    <3> QED
      BY <2>2, <2>4, <3>3, <3>4 DEF Good, GoodNow, GoodAs
  <2>5. ASSUME at.file \in calm, at.next + 1 = Len(Shape[run.mode][at.ver])
        PROVE  GoodNow(at.file, run.mode)
    <3>1. at.ver = file[at.file] /\ at.stamp = at.ver /\ at.stamp # Absent
      BY MiningAssumption, <2>1, <2>5 DEF SeenInCalm
    <3>2. \/ <<at.file, at.stamp>> \in cut'
          \/ Present(rows', at.file, run.mode, at.ver, at.next + 1)
      BY <1>6, <3>1, AddedNow DEF Vouched
    <3>3. DOMAIN Shape[run.mode][at.ver] = 1 .. (at.next + 1)
      BY <1>0, <2>1, <2>5
    <3>4. file'[at.file] = at.ver /\ at.ver # Absent
      BY <2>2, <3>1
    <3>5. Present(rows', at.file, run.mode, at.ver, at.next + 1)
            => FiledAs(rows', at.ver, at.file, run.mode)
      BY <3>3, PresentIsFiled
    <3> QED
      BY <3>1, <3>2, <3>4, <3>5 DEF GoodNow, GoodAs
  <2>6. ASSUME NEW g \in calm' \ run'.todo, run.mode \in {"project", "general"}
        PROVE  GoodNow(g, run.mode)
    <3>1. g \in Files /\ g \in calm
      BY <2>2 DEF MinerTypeOK
    <3>2. CASE g # at.file
      <4>1. g \notin run.todo
        BY <1>6, <2>6, <3>2, AddEffect DEF Leave, MinerTypeOK
      <4> QED
        BY <1>c, <2>4, <2>6, <3>1, <3>2, <4>1
    <3>3. CASE g = at.file
      <4>1. at.next + 1 = Len(Shape[run.mode][at.ver])
        BY <1>6, <2>1, <2>6, <3>3, AddEffect
      <4> QED
        BY <2>5, <3>1, <3>3, <4>1
    <3> QED
      BY <3>2, <3>3
  <2> QED
    BY <1>d, <2>3, <2>6
<1>7. ASSUME End PROVE PassedIsFiled'
  BY <1>7, <1>b DEF End, NoRun
<1>8. ASSUME NEW f \in Files, NEW v \in Versions \cup {Absent}, Edit(f, v)
      PROVE  PassedIsFiled'
  <2>1. UNCHANGED <<rows, run, cut>> /\ left \subseteq left' /\ calm' = calm \ {f}
    BY <1>8 DEF Edit
  <2>2. \A g \in Files : g # f => file'[g] = file[g]
    BY <1>8 DEF Edit, MinerTypeOK
  <2>3. ASSUME NEW g \in calm' \ run'.todo, run.mode \in {"project", "general"}
        PROVE  GoodNow(g, run.mode)
    <3>1. g \in calm \ run.todo /\ file'[g] = file[g]
      BY <2>1, <2>2 DEF MinerTypeOK
    <3>2. Good(g, run.mode)
      BY <1>c, <2>3, <3>1
    <3> QED
      BY <1>e, <2>1, <3>1, <3>2
  <2> QED
    BY <1>d, <2>1, <2>3
<1>9. ASSUME Kill PROVE PassedIsFiled'
  BY <1>9, <1>b DEF Kill, NoRun
<1>10. CASE UNCHANGED minerVars
  BY <1>10, <1>a DEF minerVars
<1> QED
  BY <1>1, <1>2, <1>3, <1>4, <1>5, <1>6, <1>7, <1>8, <1>9, <1>10 DEF MinerNext, Mine

\* The inductive invariant of the mine.
MinerInv ==
  MinerTypeOK /\ InHand /\ SeenInCalm /\ Vouched /\ PassedIsFiled

\* It holds from the start, and every step of a mine and every edit keeps it.
LEMMA MinerInvariance == MinerSpec => []MinerInv
<1>1. MinerInit => MinerInv
  <2> SUFFICES ASSUME MinerInit PROVE MinerInv
    OBVIOUS
  <2> USE DEF MinerInit
  <2>1. /\ run.mode = Absent /\ at = NoWork /\ calm = {}
        /\ \A id \in Ids : ~ProjectStamped(id)
    BY DEF NoRun, ProjectStamped, NoRow
  <2>2. MinerTypeOK
    BY MiningAssumption DEF MinerTypeOK, NoRun, NoWork, NoRow, Row
  <2>3. InHand /\ SeenInCalm
    BY <2>1 DEF InHand, SeenInCalm, NoWork
  <2>4. Vouched
    BY <2>1 DEF Vouched, OneVouchesForAll, AddedIsPresent, OldAreStale, StampsKnown, NoWork
  <2>5. PassedIsFiled
    BY <2>1 DEF PassedIsFiled
  <2> QED
    BY <2>2, <2>3, <2>4, <2>5 DEF MinerInv
<1>2. MinerInv /\ [MinerNext]_minerVars => MinerInv'
  <2> SUFFICES ASSUME MinerInv, [MinerNext]_minerVars PROVE MinerInv'
    OBVIOUS
  <2>1. MinerTypeOK' /\ InHand'
    BY MinerTypeStep DEF MinerInv
  <2>2. SeenInCalm'
    BY CalmStep DEF MinerInv
  <2>3. StampsKnown' /\ OldAreStale' /\ AddedIsPresent'
    BY StampsStep, StaleStep, AddedStep DEF MinerInv, Vouched
  <2>4. OneVouchesForAll'
    BY VouchStep DEF MinerInv
  <2>5. PassedIsFiled'
    BY PassedStep DEF MinerInv
  <2> QED
    BY <2>1, <2>2, <2>3, <2>4, <2>5 DEF MinerInv, Vouched
<1> QED
  BY <1>1, <1>2, PTL DEF MinerSpec

\* The mine keeps its types.
THEOREM MiningTypeCorrectness == MinerSpec => []MinerTypeOK
<1>1. MinerInv => MinerTypeOK
  BY DEF MinerInv
<1> QED
  BY <1>1, MinerInvariance, PTL

\* A drawer that has the present time of its file has its present content, for
\* any files, edits at any moment of a mine, crashes and failed inserts.
THEOREM StampIsHonestAlways == MinerSpec => []StampIsHonest
<1>1. MinerInv => StampIsHonest
  BY DEF MinerInv, Vouched, StampsKnown, ProjectStamped, Honest, StampIsHonest,
         Excused, MinerTypeOK, Ids, Row
<1> QED
  BY <1>1, MinerInvariance, PTL

\* The drawer is_file_mined happens to find vouches for its whole version: unless
\* the mine is adding that version now, or was cut short in it, or the file has
\* lost that time, all chunks of the version are in the table (palace_db.rs:2657).
THEOREM OneVouchesForAllAlways == MinerSpec => []OneVouchesForAll
<1>1. MinerInv => OneVouchesForAll
  BY DEF MinerInv, Vouched
<1> QED
  BY <1>1, MinerInvariance, PTL

\* What a mine has passed and nobody touched since is in the palace, skipped
\* files included, with the same exceptions.
THEOREM PassedIsFiledAlways == MinerSpec => []PassedIsFiled
<1>1. MinerInv => PassedIsFiled
  BY DEF MinerInv
<1> QED
  BY <1>1, MinerInvariance, PTL
=============================================================================
