-------------------------- MODULE PalaceStoreProofs --------------------------
(***************************************************************************)
(* The properties of drawer storage, for any number of handles, drawers,   *)
(* sources and any batch size, and of the sweeper that fills it, for any   *)
(* number of sweepers and transcripts.                                     *)
(***************************************************************************)
EXTENDS PalaceStore, Sweep, WellFoundedInduction, TLAPS

\* Rows outlive their acknowledgement.
AckedInTable == acked \subseteq rows

\* What a migration owes is in the table or still to be inserted.
OwedOrTodo ==
  \A h \in Handles :
    IF state[h] = "migrating" THEN owed[h] \subseteq rows \cup todo[h] ELSE owed[h] = {}

Durable == AckedInTable /\ OwedOrTodo

\* Short of a crash or an overlap there is one handle, it alone truncates the
\* file, and nobody overwrites what it saves.
Alone ==
  /\ \A g, h \in Handles : Active(g) /\ Active(h) => g = h
  /\ \A h \in Handles : Saving(h) => ~mixed[h]
  /\ json.kind = "torn" => \E h \in Handles : Saving(h)

\* While nothing has happened the memory, the table and the file agree as
\* far as the one handle has come.
Settled(h) == state[h] \in {"closed", "open"} /\ dirty[h] = {}
InStep(h) ==
  /\ state[h] # "deleting"
  /\ Active(h) => kind[h] \in {"store", "search"}
  /\ state[h] = "open" /\ kind[h] = "store" => docs[h] = rows
  /\ state[h] = "saving" => docs[h] = rows
  /\ state[h] = "counted" => json.kind = "map" /\ json.docs = rows
  /\ state[h] = "empty" => rows = {}
  /\ state[h] = "checked" => rows = {} /\ json.kind = "map"
  /\ state[h] = "migrating" => json.kind = "map" /\ json.docs = rows \cup todo[h]
  /\ state[h] # "migrating" => todo[h] = {}
  /\ state[h] \in {"closed", "counted", "empty", "checked", "migrating"} => dirty[h] = {}
Saved == (\A h \in Handles : Settled(h)) /\ rows # {} => json.kind = "map" /\ json.docs = rows
Calm  == (\A h \in Handles : InStep(h)) /\ Saved

Undisturbed == (upset # Interruption => Alone) /\ (upset = Nothing => Calm)

PalaceInv == TypeOK /\ Durable /\ Undisturbed

\* Every operation keeps the types: it moves only known drawers between the
\* table, the file and the handles.
LEMMA TypeStep ==
  TypeOK /\ [Next]_vars => TypeOK'
<1> SUFFICES ASSUME TypeOK, [Next]_vars
             PROVE  TypeOK'
  OBVIOUS
<1> USE PalaceAssumption
    DEF TypeOK, States, Kinds, Happened, Nothing, Deletion, Divergence, Interruption
<1>1. ASSUME NEW h \in Handles, OpenStore(h) PROVE TypeOK'
  BY <1>1 DEF OpenStore, NewHandle
<1>2. ASSUME NEW h \in Handles, FindEmptyStore(h) PROVE TypeOK'
  BY <1>2 DEF FindEmptyStore, Proceed, historyVars
<1>16. ASSUME NEW h \in Handles, LoadStore(h) PROVE TypeOK'
  BY <1>16 DEF LoadStore, Proceed, historyVars
<1>17. ASSUME NEW h \in Handles, OpenEmptyStore(h) PROVE TypeOK'
  BY <1>17 DEF OpenEmptyStore, Proceed, historyVars
<1>3. ASSUME NEW h \in Handles, OpenFallback(h) PROVE TypeOK'
  BY <1>3 DEF OpenFallback, NewHandle
<1>4. ASSUME NEW h \in Handles, OpenForSearch(h) PROVE TypeOK'
  BY <1>4 DEF OpenForSearch, NewHandle
<1>5. ASSUME NEW h \in Handles, StartMigration(h) PROVE TypeOK'
  BY <1>5 DEF StartMigration
<1>6. ASSUME NEW h \in Handles, MigrateBatch(h) PROVE TypeOK'
  BY <1>6 DEF MigrateBatch, historyVars
<1>18. ASSUME NEW h \in Handles, IgnoreMigrationError(h) PROVE TypeOK'
  BY <1>18 DEF IgnoreMigrationError
<1>7. ASSUME NEW h \in Handles, FinishMigration(h) PROVE TypeOK'
  BY <1>7 DEF FinishMigration
<1>8. ASSUME NEW h \in Handles, NEW id \in Ids, Add(h, id) PROVE TypeOK'
  BY <1>8 DEF Add, InsertRow
<1>9. ASSUME NEW h \in Handles, NEW id \in Ids, BeginDelete(h, id) PROVE TypeOK'
  BY <1>9 DEF BeginDelete, Truncate
<1>10. ASSUME NEW h \in Handles, BeginFlush(h) PROVE TypeOK'
  BY <1>10 DEF BeginFlush, Truncate, historyVars
<1>11. ASSUME NEW h \in Handles, EndSave(h) PROVE TypeOK'
  BY <1>11 DEF EndSave
<1>12. ASSUME NEW h \in Handles, Close(h) PROVE TypeOK'
  BY <1>12 DEF Close, historyVars
<1>13. ASSUME NEW h \in Handles, Crash(h) PROVE TypeOK'
  BY <1>13 DEF Crash
<1>14. ASSUME NEW src \in Sources, PurgeSource(src) PROVE TypeOK'
  BY <1>14 DEF PurgeSource, RowsFrom, handleVars
<1>15. CASE UNCHANGED vars
  BY <1>15 DEF vars, handleVars, historyVars
<1> QED
  BY <1>1, <1>2, <1>3, <1>4, <1>5, <1>6, <1>7, <1>8,
     <1>9, <1>10, <1>11, <1>12, <1>13, <1>14, <1>15, <1>16, <1>17, <1>18 DEF Next

\* No operation but a purge removes a row, and a purge settles what it
\* removes: acknowledged and owed drawers stay in the table.
LEMMA DurableStep ==
  TypeOK /\ Durable /\ [Next]_vars => Durable'
<1> SUFFICES ASSUME TypeOK, Durable, [Next]_vars
             PROVE  Durable'
  OBVIOUS
<1> USE PalaceAssumption
    DEF TypeOK, Durable, AckedInTable, OwedOrTodo
<1>1. ASSUME NEW h \in Handles, OpenStore(h) PROVE Durable'
  BY <1>1 DEF OpenStore, NewHandle
<1>2. ASSUME NEW h \in Handles, FindEmptyStore(h) PROVE Durable'
  BY <1>2 DEF FindEmptyStore, Proceed, historyVars
<1>16. ASSUME NEW h \in Handles, LoadStore(h) PROVE Durable'
  BY <1>16 DEF LoadStore, Proceed, historyVars
<1>17. ASSUME NEW h \in Handles, OpenEmptyStore(h) PROVE Durable'
  BY <1>17 DEF OpenEmptyStore, Proceed, historyVars
<1>3. ASSUME NEW h \in Handles, OpenFallback(h) PROVE Durable'
  BY <1>3 DEF OpenFallback, NewHandle
<1>4. ASSUME NEW h \in Handles, OpenForSearch(h) PROVE Durable'
  BY <1>4 DEF OpenForSearch, NewHandle
<1>5. ASSUME NEW h \in Handles, StartMigration(h) PROVE Durable'
  BY <1>5 DEF StartMigration
<1>6. ASSUME NEW h \in Handles, MigrateBatch(h) PROVE Durable'
  BY <1>6 DEF MigrateBatch, historyVars
<1>18. ASSUME NEW h \in Handles, IgnoreMigrationError(h) PROVE Durable'
  BY <1>18 DEF IgnoreMigrationError
<1>7. ASSUME NEW h \in Handles, FinishMigration(h) PROVE Durable'
  BY <1>7 DEF FinishMigration
<1>8. ASSUME NEW h \in Handles, NEW id \in Ids, Add(h, id) PROVE Durable'
  BY <1>8 DEF Add, InsertRow
<1>9. ASSUME NEW h \in Handles, NEW id \in Ids, BeginDelete(h, id) PROVE Durable'
  BY <1>9 DEF BeginDelete, Truncate
<1>10. ASSUME NEW h \in Handles, BeginFlush(h) PROVE Durable'
  BY <1>10 DEF BeginFlush, Truncate, historyVars
<1>11. ASSUME NEW h \in Handles, EndSave(h) PROVE Durable'
  BY <1>11 DEF EndSave
<1>12. ASSUME NEW h \in Handles, Close(h) PROVE Durable'
  BY <1>12 DEF Close, historyVars
<1>13. ASSUME NEW h \in Handles, Crash(h) PROVE Durable'
  BY <1>13 DEF Crash
<1>14. ASSUME NEW src \in Sources, PurgeSource(src) PROVE Durable'
  BY <1>14 DEF PurgeSource, RowsFrom, handleVars
<1>15. CASE UNCHANGED vars
  BY <1>15 DEF vars, handleVars, historyVars
<1> QED
  BY <1>1, <1>2, <1>3, <1>4, <1>5, <1>6, <1>7, <1>8,
     <1>9, <1>10, <1>11, <1>12, <1>13, <1>14, <1>15, <1>16, <1>17, <1>18 DEF Next

\* As long as nothing happens the one handle, the table and the file stay in
\* step; short of a crash or an overlap the file is whole between saves.
LEMMA UndisturbedStep ==
  TypeOK /\ Undisturbed /\ [Next]_vars => Undisturbed'
<1> SUFFICES ASSUME TypeOK, Undisturbed, [Next]_vars
             PROVE  Undisturbed'
  OBVIOUS
<1> USE PalaceAssumption
    DEF TypeOK, States, Kinds, Happened, Nothing, Deletion, Divergence, Interruption,
        Active, Saving, Settled, Undisturbed, Alone, Calm, InStep, Saved
<1>1. ASSUME NEW h \in Handles, OpenStore(h) PROVE Undisturbed'
  BY <1>1 DEF OpenStore, NewHandle
<1>2. ASSUME NEW h \in Handles, FindEmptyStore(h) PROVE Undisturbed'
  BY <1>2 DEF FindEmptyStore, Proceed, historyVars
<1>16. ASSUME NEW h \in Handles, LoadStore(h) PROVE Undisturbed'
  BY <1>16 DEF LoadStore, Proceed, historyVars
<1>17. ASSUME NEW h \in Handles, OpenEmptyStore(h) PROVE Undisturbed'
  BY <1>17 DEF OpenEmptyStore, Proceed, historyVars
<1>3. ASSUME NEW h \in Handles, OpenFallback(h) PROVE Undisturbed'
  BY <1>3 DEF OpenFallback, NewHandle
<1>4. ASSUME NEW h \in Handles, OpenForSearch(h) PROVE Undisturbed'
  <2>1. upset' # Interruption => Alone'
    BY <1>4 DEF OpenForSearch, NewHandle
  <2>2. ASSUME upset' = Nothing PROVE Calm'
    <3>1. ASSUME NEW g \in Handles PROVE InStep(g)'
      <4>1. upset = Nothing /\ UNCHANGED <<rows, json, todo, dirty>>
        BY <1>4, <2>2 DEF OpenForSearch, NewHandle
      <4>2. CASE g # h
        BY <1>4, <4>1, <4>2 DEF OpenForSearch, NewHandle
      <4>3. CASE g = h
        <5>1. state'[h] \in {"open", "checked"} /\ kind'[h] = "search" /\ state[h] = "closed"
          BY <1>4 DEF OpenForSearch, NewHandle
        <5>2. state'[h] = "checked" => rows = {} /\ json.kind = "map"
          BY <1>4 DEF OpenForSearch, NewHandle
        <5> QED  BY <4>1, <4>3, <5>1, <5>2
      <4> QED  BY <4>2, <4>3
    <3>2. Saved'
      BY <1>4, <2>1, <2>2 DEF OpenForSearch, NewHandle
    <3> QED  BY <3>1, <3>2
  <2> QED  BY <2>1, <2>2
<1>5. ASSUME NEW h \in Handles, StartMigration(h) PROVE Undisturbed'
  BY <1>5 DEF StartMigration
<1>6. ASSUME NEW h \in Handles, MigrateBatch(h) PROVE Undisturbed'
  BY <1>6 DEF MigrateBatch, historyVars
<1>18. ASSUME NEW h \in Handles, IgnoreMigrationError(h) PROVE Undisturbed'
  BY <1>18 DEF IgnoreMigrationError
<1>7. ASSUME NEW h \in Handles, FinishMigration(h) PROVE Undisturbed'
  <2>1. upset' # Interruption => Alone'
    BY <1>7 DEF FinishMigration
  <2>2. ASSUME upset' = Nothing PROVE Calm'
    <3>1. ASSUME NEW g \in Handles PROVE InStep(g)'
      BY <1>7, <2>1, <2>2 DEF FinishMigration
    <3>2. Saved'
      <4>1. upset = Nothing /\ state[h] = "migrating" /\ todo[h] = {} /\ UNCHANGED <<rows, json>>
        BY <1>7, <2>2 DEF FinishMigration
      <4>2. json.kind = "map" /\ json.docs = rows \cup todo[h]
        BY <4>1
      <4>3. rows \cup todo[h] = rows
        BY <4>1
      <4> QED  BY <4>1, <4>2, <4>3
    <3> QED  BY <3>1, <3>2
  <2> QED  BY <2>1, <2>2
<1>8. ASSUME NEW h \in Handles, NEW id \in Ids, Add(h, id) PROVE Undisturbed'
  <2>1. upset' # Interruption => Alone'
    BY <1>8 DEF Add, InsertRow
  <2>2. ASSUME upset' = Nothing PROVE Calm'
    <3>1. ASSUME NEW g \in Handles PROVE InStep(g)'
      BY <1>8, <2>1, <2>2 DEF Add, InsertRow
    <3>2. Saved'
      BY <1>8, <2>1, <2>2 DEF Add, InsertRow
    <3> QED  BY <3>1, <3>2
  <2> QED  BY <2>1, <2>2
<1>9. ASSUME NEW h \in Handles, NEW id \in Ids, BeginDelete(h, id) PROVE Undisturbed'
  BY <1>9 DEF BeginDelete, Truncate
<1>10. ASSUME NEW h \in Handles, BeginFlush(h) PROVE Undisturbed'
  BY <1>10 DEF BeginFlush, Truncate, historyVars
<1>11. ASSUME NEW h \in Handles, EndSave(h) PROVE Undisturbed'
  <2>1. upset' # Interruption => Alone'
    BY <1>11 DEF EndSave
  <2>2. ASSUME upset' = Nothing PROVE Calm'
    <3>1. ASSUME NEW g \in Handles PROVE InStep(g)'
      BY <1>11, <2>1, <2>2 DEF EndSave
    <3>2. Saved'
      BY <1>11, <2>1, <2>2 DEF EndSave
    <3> QED  BY <3>1, <3>2
  <2> QED  BY <2>1, <2>2
<1>12. ASSUME NEW h \in Handles, Close(h) PROVE Undisturbed'
  <2>1. upset' # Interruption => Alone'
    BY <1>12 DEF Close, historyVars
  <2>2. ASSUME upset' = Nothing PROVE Calm'
    <3>1. ASSUME NEW g \in Handles PROVE InStep(g)'
      BY <1>12, <2>1, <2>2 DEF Close, historyVars
    <3>2. Saved'
      BY <1>12, <2>1, <2>2 DEF Close, historyVars
    <3> QED  BY <3>1, <3>2
  <2> QED  BY <2>1, <2>2
<1>13. ASSUME NEW h \in Handles, Crash(h) PROVE Undisturbed'
  BY <1>13 DEF Crash
<1>14. ASSUME NEW src \in Sources, PurgeSource(src) PROVE Undisturbed'
  BY <1>14 DEF PurgeSource, RowsFrom, handleVars
<1>15. CASE UNCHANGED vars
  BY <1>15 DEF vars, handleVars, historyVars
<1> QED
  BY <1>1, <1>2, <1>3, <1>4, <1>5, <1>6, <1>7, <1>8,
     <1>9, <1>10, <1>11, <1>12, <1>13, <1>14, <1>15, <1>16, <1>17, <1>18 DEF Next

\* The inductive invariant holds in every reachable state.
LEMMA Invariance == Spec => []PalaceInv
<1>1. Init => PalaceInv
  BY PalaceAssumption
     DEF Init, PalaceInv, TypeOK, States, Kinds, Nothing, Deletion, Divergence, Interruption,
         Durable, AckedInTable, OwedOrTodo, Undisturbed, Alone, Calm, InStep, Saved, Active, Saving, Settled
<1>2. PalaceInv /\ [Next]_vars => PalaceInv'
  BY TypeStep, DurableStep, UndisturbedStep DEF PalaceInv
<1> QED
  BY <1>1, <1>2, PTL DEF Spec

\* Whatever the handles do, the table, the file and the collections in memory
\* hold drawers, and the history is well formed.
THEOREM TypeCorrectness == Spec => []TypeOK
<1>1. PalaceInv => TypeOK
  BY DEF PalaceInv
<1> QED
  BY <1>1, Invariance, PTL

\* The JSON file is torn outside a save only after a crash or an overlap.
THEOREM TornOnlyByAccidentAlways == Spec => []TornOnlyByAccident
<1>1. PalaceInv => TornOnlyByAccident
  BY DEF PalaceInv, Undisturbed, Alone, TornOnlyByAccident
<1> QED
  BY <1>1, Invariance, PTL

\* After serial and undisturbed use, both ways of opening the palace load the
\* same drawers.
THEOREM ViewsAgreeAtRestAlways == Spec => []ViewsAgreeAtRest
<1>1. PalaceInv => ViewsAgreeAtRest
  BY DEF PalaceInv, TypeOK, States, Undisturbed, Calm, InStep, Saved, Settled, Active, ViewsAgreeAtRest,
         Nothing
<1> QED
  BY <1>1, Invariance, PTL

\* A migration all of whose batches succeeded has moved every drawer it read.
THEOREM MigrationIsLosslessAlways == Spec => MigrationIsLossless
<1> DEFINE Lossless ==
      \A h \in Handles :
        state[h] = "migrating" /\ todo[h] = {} /\ state'[h] = "open"
        => owed[h] \subseteq rows'
<1>1. ASSUME PalaceInv, [Next]_vars PROVE Lossless
  <2> SUFFICES ASSUME NEW g \in Handles, state[g] = "migrating", todo[g] = {},
                      state'[g] = "open"
               PROVE  owed[g] \subseteq rows'
    OBVIOUS
  <2> USE <1>1 DEF PalaceInv, TypeOK
  <2>1. PICK h \in Handles : FinishMigration(h) /\ h = g
    <3>1. CASE UNCHANGED vars
      BY <3>1 DEF vars, handleVars
    <3>2. ASSUME NEW src \in Sources, PurgeSource(src) PROVE FALSE
      BY <3>2 DEF PurgeSource, RowsFrom, handleVars
    <3>3. ASSUME NEW h \in Handles,
                 \/ OpenStore(h) \/ LoadStore(h) \/ OpenEmptyStore(h) \/ FindEmptyStore(h)
                 \/ OpenFallback(h) \/ OpenForSearch(h)
                 \/ StartMigration(h) \/ MigrateBatch(h) \/ BeginFlush(h)
                 \/ EndSave(h) \/ Close(h) \/ Crash(h)
          PROVE  FALSE
      BY <3>3 DEF OpenStore, LoadStore, OpenEmptyStore, FindEmptyStore, Proceed, OpenFallback,
                  OpenForSearch, NewHandle, StartMigration, MigrateBatch, BeginFlush, Truncate, EndSave, Close, Crash
    <3>6. ASSUME NEW h \in Handles, NEW id \in Ids, Add(h, id) \/ BeginDelete(h, id)
          PROVE  FALSE
      BY <3>6 DEF Add, InsertRow, BeginDelete, Truncate
    <3>7. ASSUME NEW h \in Handles, IgnoreMigrationError(h) PROVE FALSE
      BY <3>7 DEF IgnoreMigrationError
    <3>4. ASSUME NEW h \in Handles, FinishMigration(h) PROVE h = g
      BY <3>4 DEF FinishMigration
    <3>5. CASE \E h \in Handles : FinishMigration(h)
      BY <3>5, <3>4
    <3> QED
      BY <3>1, <3>2, <3>3, <3>5, <3>6, <3>7 DEF Next
  <2> QED
    BY <2>1 DEF FinishMigration, Durable, OwedOrTodo
<1>2. PalaceInv /\ [Next]_vars => [Lossless]_vars
  BY <1>1
<1> QED
  BY <1>2, Invariance, PTL DEF Spec, MigrationIsLossless

\* Every handle opened through the store serves every acknowledged drawer.
THEOREM AckedDrawersAreServedAlways == Spec => AckedDrawersAreServed
<1> DEFINE Served ==
      \A h \in Handles :
        /\ state[h] \in {"closed", "counted", "checked", "migrating"}
        /\ state'[h] = "open"
        /\ kind'[h] = "store"
        => acked \subseteq docs'[h]
<1>1. ASSUME PalaceInv, [Next]_vars PROVE Served
  <2> SUFFICES ASSUME NEW g \in Handles, state[g] \in {"closed", "counted", "checked", "migrating"},
                      state'[g] = "open", kind'[g] = "store"
               PROVE  acked \subseteq docs'[g]
    OBVIOUS
  <2> USE <1>1 DEF PalaceInv, TypeOK, Durable, AckedInTable
  <2>1. ASSUME NEW h \in Handles, LoadStore(h) PROVE acked \subseteq docs'[g]
    BY <2>1 DEF LoadStore, Proceed
  <2>2. ASSUME NEW h \in Handles, FinishMigration(h) PROVE acked \subseteq docs'[g]
    BY <2>2 DEF FinishMigration
  <2>7. ASSUME NEW h \in Handles, IgnoreMigrationError(h) PROVE FALSE
    BY <2>7 DEF IgnoreMigrationError
  <2>3. ASSUME NEW h \in Handles,
               \/ OpenStore(h) \/ OpenEmptyStore(h) \/ FindEmptyStore(h)
               \/ OpenFallback(h) \/ OpenForSearch(h)
               \/ StartMigration(h) \/ MigrateBatch(h) \/ BeginFlush(h)
               \/ EndSave(h) \/ Close(h) \/ Crash(h)
        PROVE  FALSE
    BY <2>3 DEF OpenStore, OpenEmptyStore, FindEmptyStore, Proceed, OpenFallback, OpenForSearch, NewHandle, StartMigration,
                MigrateBatch, BeginFlush, Truncate, EndSave, Close, Crash
  <2>4. ASSUME NEW h \in Handles, NEW id \in Ids, Add(h, id) \/ BeginDelete(h, id)
        PROVE  FALSE
    BY <2>4 DEF Add, InsertRow, BeginDelete, Truncate
  <2>5. ASSUME NEW src \in Sources, PurgeSource(src) PROVE FALSE
    BY <2>5 DEF PurgeSource, RowsFrom, handleVars
  <2>6. CASE UNCHANGED vars
    BY <2>6 DEF vars, handleVars
  <2> QED
    BY <2>1, <2>2, <2>3, <2>4, <2>5, <2>6, <2>7 DEF Next
<1>2. PalaceInv /\ [Next]_vars => [Served]_vars
  BY <1>1
<1> QED
  BY <1>2, Invariance, PTL DEF Spec, AckedDrawersAreServed

-----------------------------------------------------------------------------
(***************************************************************************)
(* The sweeper (module Sweep), which fills the store from transcripts, for *)
(* any number of sweepers, transcripts and messages.  What one sweep finds *)
(* in the store the others left there: whatever is filed, all that is      *)
(* older in its transcript has been taken care of before.                  *)
(***************************************************************************)
\* What a sweeper has in hand goes with its step.
SweepPlaced ==
  \A s \in Sweepers :
    /\ sweep[s].step # "idle" => sweep[s].file \in Files
    /\ sweep[s].step \in {"store", "done"} => sweep[s].next >= 1
    /\ sweep[s].step = "done" => sweep[s].next = sweep[s].length + 1

\* Transcripts are written in the order of time.
LogOrdered ==
  \A f \in Files :
    /\ \A i, j \in 1 .. Len(log[f]) : i <= j => log[f][i] <= log[f][j]
    /\ \A i \in 1 .. Len(log[f]) : log[f][i] <= now

\* Nobody has to file the message any more.
Taken(msg) == msg \in stored \cup failed \cup lost \/ Overtaken(msg)

\* Before a message of a transcript is filed, the older ones are taken.
FiledInOrder ==
  \A msg \in stored : \A i \in 1 .. msg[2] : Taken(<<msg[1], i>>)

\* Nobody has to file what a compaction removed.
GoneIsTaken ==
  \A f \in Files : \A i \in 1 .. gone[f] : Taken(<<f, i>>)

\* A cursor is the time of a drawer of the session.
CursorSeen ==
  \A s \in Sweepers :
    sweep[s].step # "idle" /\ sweep[s].cursor # 0 =>
      \E msg \in stored : /\ Session[msg[1]] = Session[sweep[s].file]
                          /\ Time(msg) = sweep[s].cursor

\* What a sweep has behind it is taken.
BehindIsTaken ==
  \A s \in Sweepers :
    sweep[s].step \in {"store", "done"} =>
      \A i \in 1 .. sweep[s].next - 1 : Taken(<<sweep[s].file, i>>)

\* The inductive invariant of the sweepers.
SweepInv ==
  /\ SweepTypeOK /\ SweepPlaced /\ LogOrdered
  /\ FiledInOrder /\ GoneIsTaken /\ CursorSeen /\ BehindIsTaken

\* A nonempty set of numbers up to n has a greatest one.
LEMMA GreatestExists ==
  ASSUME NEW n \in Nat, NEW T \in SUBSET (0 .. n), T # {}
  PROVE  \E t \in T : \A u \in T : u <= t
<1> DEFINE R == OpToRel(<, Nat)
           D == {n - t : t \in T}
<1>1. IsWellFoundedOn(R, Nat)
  BY NatLessThanWellFounded
<1> HIDE DEF R
<1>2. D \subseteq Nat /\ D # {}
  <2>1. ASSUME NEW t \in T PROVE n - t \in Nat
    OBVIOUS
  <2> QED
    BY <2>1
<1> HIDE DEF D
<1>3. PICK x \in D : \A y \in D : ~ (<<y, x>> \in R)
  BY <1>1, <1>2, WFMin
<1>4. \A y \in D : ~ (y < x)
  <2>1. \A a \in Nat, b \in Nat : a < b => <<a, b>> \in R
    BY DEF R, OpToRel
  <2> QED
    BY <1>2, <1>3, <2>1
<1>5. PICK t \in T : x = n - t
  BY DEF D
<1>6. ASSUME NEW u \in T PROVE u <= t
  <2>1. n - u \in D
    BY DEF D
  <2> QED
    BY <1>4, <1>5, <2>1
<1> QED
  BY <1>6

\* A message is a place in a transcript.
LEMMA MessageTyped ==
  /\ \A msg \in Messages :
       /\ msg[1] \in Files /\ msg[2] \in 1 .. MaxMessages[msg[1]] /\ msg[2] \in Nat
       /\ msg = <<msg[1], msg[2]>>
  /\ \A f \in Files : \A i \in 1 .. MaxMessages[f] : <<f, i>> \in Messages
<1> DEFINE Of(f) == {f} \X (1 .. MaxMessages[f])
<1>1. Messages = UNION {Of(f) : f \in Files}
  BY DEF Messages
<1>2. ASSUME NEW f \in Files, NEW msg \in Of(f)
      PROVE  /\ msg[1] \in Files /\ msg[2] \in 1 .. MaxMessages[msg[1]] /\ msg[2] \in Nat
             /\ msg = <<msg[1], msg[2]>>
  BY SweepAssumption, <1>2
<1>3. ASSUME NEW f \in Files, NEW i \in 1 .. MaxMessages[f] PROVE <<f, i>> \in Of(f)
  OBVIOUS
<1> HIDE DEF Of
<1> QED
  BY <1>1, <1>2, <1>3

\* A filed message is in its transcript, with its time.
LEMMA StoredTyped ==
  ASSUME SweepTypeOK, NEW msg \in stored
  PROVE  /\ msg[1] \in Files /\ msg[2] \in Nat /\ msg[2] \in 1 .. Len(log[msg[1]])
         /\ Time(msg) \in 1 .. MaxTime
         /\ msg = <<msg[1], msg[2]>>
<1>1. msg[1] \in Files /\ msg[2] \in Nat /\ msg[2] >= 1 /\ msg = <<msg[1], msg[2]>>
  BY MessageTyped DEF SweepTypeOK
<1>2. log[msg[1]] \in Seq(1 .. MaxTime) /\ msg[2] <= Len(log[msg[1]])
  BY <1>1 DEF SweepTypeOK
<1> QED
  BY SweepAssumption, <1>1, <1>2 DEF Time

\* The cursor of a session is the time of one of its drawers, or zero.
LEMMA CursorTyped ==
  ASSUME SweepTypeOK, NEW f \in Files
  PROVE  /\ Cursor(f) \in 0 .. MaxTime
         /\ Cursor(f) # 0 =>
              \E msg \in stored : /\ Session[msg[1]] = Session[f]
                                  /\ Time(msg) = Cursor(f)
<1> DEFINE Times == {Time(msg) : msg \in {m \in stored : Session[m[1]] = Session[f]}}
<1>1. ASSUME NEW t \in Times
      PROVE  /\ t \in 1 .. MaxTime
             /\ \E msg \in stored : Session[msg[1]] = Session[f] /\ Time(msg) = t
  BY <1>1, StoredTyped
<1>2. Cursor(f) = IF Times = {} THEN 0
                          ELSE CHOOSE t \in Times : \A u \in Times : u <= t
  BY DEF Cursor
<1> HIDE DEF Times
<1>3. MaxTime \in Nat
  BY SweepAssumption
<1>4. ASSUME Times # {} PROVE Cursor(f) \in Times
  <2>1. Times \subseteq 0 .. MaxTime
    BY <1>1, <1>3
  <2>2. \E t \in Times : \A u \in Times : u <= t
    BY <1>3, <1>4, <2>1, GreatestExists
  <2> QED
    BY <1>2, <1>4, <2>2
<1> QED
  BY <1>1, <1>2, <1>3, <1>4

\* What a sweeper has in hand has its types and goes with its step.
HandTyped(r) ==
  /\ r \in [step : {"idle", "opened", "store", "done"}, file : Files \cup {None},
            cursor : 0 .. MaxTime, next : Nat, length : Nat]
  /\ r.next <= r.length + 1
  /\ r.file # None => r.length <= Len(log[r.file])
  /\ r.step # "idle" => r.file \in Files
  /\ r.step \in {"store", "done"} => r.next >= 1
  /\ r.step = "done" => r.next = r.length + 1

LEMMA HandsTyped ==
  SweepTypeOK /\ SweepPlaced => \A s \in Sweepers : HandTyped(sweep[s])
  BY DEF SweepTypeOK, SweepPlaced, HandTyped

\* A step that touches one hand keeps the types.
LEMMA OneHandStep ==
  ASSUME SweepTypeOK, SweepPlaced, NEW s \in Sweepers, NEW r, HandTyped(r),
         sweep' = [sweep EXCEPT ![s] = r], UNCHANGED <<log, gone, now, lost>>,
         stored' \subseteq Messages, failed' \subseteq Messages,
         \A msg \in stored' \cup failed' \cup lost : msg[2] <= Len(log[msg[1]]),
         faults' \in 0 .. MaxFaults
  PROVE  SweepTypeOK' /\ SweepPlaced'
<1>1. \A t \in Sweepers : sweep'[t] = IF t = s THEN r ELSE sweep[t]
  BY DEF SweepTypeOK
<1>2. \A t \in Sweepers : HandTyped(sweep'[t])
  BY <1>1, HandsTyped
<1>3. sweep' \in [Sweepers -> [step : {"idle", "opened", "store", "done"},
                               file : Files \cup {None}, cursor : 0 .. MaxTime,
                               next : Nat, length : Nat]]
  BY <1>2 DEF HandTyped, SweepTypeOK
<1>4. SweepPlaced'
  BY <1>2 DEF HandTyped, SweepPlaced
<1> QED
  BY <1>2, <1>3, <1>4 DEF HandTyped, SweepTypeOK

\* Every step keeps the types, and what is in hand goes with the step.
LEMMA SweepTypeStep ==
  ASSUME SweepTypeOK, SweepPlaced, [SweepNext]_sweepVars
  PROVE  SweepTypeOK' /\ SweepPlaced'
<1>0. /\ stored \subseteq Messages /\ failed \subseteq Messages
      /\ lost \subseteq Messages
      /\ \A msg \in stored \cup failed \cup lost : msg[2] <= Len(log[msg[1]])
      /\ faults \in 0 .. MaxFaults /\ MaxFaults \in Nat /\ None \notin Files
      /\ MaxTime \in Nat
      /\ \A f \in Files : Len(log[f]) \in Nat
  BY SweepAssumption DEF SweepTypeOK
<1>1. ASSUME NEW s \in Sweepers, NEW f \in Files, Open(s, f)
      PROVE  SweepTypeOK' /\ SweepPlaced'
  <2> DEFINE r == [Idle EXCEPT !.step = "opened", !.file = f,
                                       !.cursor = Cursor(f)]
  <2>1. HandTyped(r)
    <3>1. Cursor(f) \in 0 .. MaxTime
      BY CursorTyped
    <3>2. /\ Idle \in [step : {"idle", "opened", "store", "done"}, file : Files \cup {None},
                             cursor : 0 .. MaxTime, next : Nat, length : Nat]
          /\ Idle.next = 0 /\ Idle.length = 0
      BY <1>0 DEF Idle
    <3>3. /\ r \in [step : {"idle", "opened", "store", "done"}, file : Files \cup {None},
                  cursor : 0 .. MaxTime, next : Nat, length : Nat]
          /\ r.step = "opened" /\ r.file = f /\ r.next = 0 /\ r.length = 0
      BY <3>1, <3>2
    <3> HIDE DEF r
    <3> QED
      BY <1>0, <3>3 DEF HandTyped
  <2>2. sweep' = [sweep EXCEPT ![s] = r] /\ UNCHANGED <<log, gone, now, stored, failed, lost, faults>>
    BY <1>1 DEF Open
  <2> QED
    BY <1>0, <2>1, <2>2, OneHandStep
<1>2. ASSUME NEW s \in Sweepers, Parse(s) PROVE SweepTypeOK' /\ SweepPlaced'
  <2> DEFINE first == gone[sweep[s].file] + 1
             r == [sweep[s] EXCEPT !.step = "store", !.next = first,
                                   !.length = Len(log[sweep[s].file])]
  <2>1. HandTyped(r)
    <3>1. HandTyped(sweep[s]) /\ sweep[s].file \in Files
      BY <1>2, HandsTyped DEF HandTyped, Parse
    <3>2. /\ Len(log[sweep[s].file]) \in Nat
          /\ first \in Nat /\ first >= 1 /\ first <= Len(log[sweep[s].file]) + 1
      BY <1>0, <3>1 DEF SweepTypeOK
    <3> HIDE DEF first
    <3>3. /\ r.step = "store" /\ r.next = first /\ r.length = Len(log[sweep[s].file])
          /\ r.file = sweep[s].file /\ r.cursor = sweep[s].cursor
      BY <3>1 DEF HandTyped
    <3>4. r \in [step : {"idle", "opened", "store", "done"}, file : Files \cup {None},
                cursor : 0 .. MaxTime, next : Nat, length : Nat]
      BY <3>1, <3>2 DEF HandTyped
    <3> HIDE DEF r
    <3> QED
      BY <3>1, <3>2, <3>3, <3>4 DEF HandTyped
  <2>2. sweep' = [sweep EXCEPT ![s] = r] /\ UNCHANGED <<log, gone, now, stored, failed, lost, faults>>
    BY <1>2 DEF Parse, SweepTypeOK
  <2> QED
    BY <1>0, <2>1, <2>2, OneHandStep
<1>11. ASSUME NEW s \in Sweepers, FailParse(s) PROVE SweepTypeOK' /\ SweepPlaced'
  <2> DEFINE r == [sweep[s] EXCEPT !.step = "store", !.next = 1, !.length = 0]
  <2>1. HandTyped(r)
    <3>1. HandTyped(sweep[s]) /\ sweep[s].file \in Files
      BY <1>11, HandsTyped DEF HandTyped, FailParse
    <3>2. Len(log[sweep[s].file]) \in Nat
      BY <1>0, <3>1
    <3>3. /\ r.step = "store" /\ r.next = 1 /\ r.length = 0
          /\ r.file = sweep[s].file /\ r.cursor = sweep[s].cursor
      BY <3>1 DEF HandTyped
    <3>4. r \in [step : {"idle", "opened", "store", "done"}, file : Files \cup {None},
                cursor : 0 .. MaxTime, next : Nat, length : Nat]
      BY <3>1 DEF HandTyped
    <3> HIDE DEF r
    <3> QED
      BY <3>1, <3>2, <3>3, <3>4 DEF HandTyped
  <2>2. sweep' = [sweep EXCEPT ![s] = r] /\ UNCHANGED <<log, gone, now, stored, failed, lost>>
    BY <1>11 DEF FailParse, SweepTypeOK
  <2>3. faults' \in 0 .. MaxFaults
    BY <1>0, <1>11 DEF FailParse
  <2> HIDE DEF r
  <2> QED
    BY <1>0, <2>1, <2>2, <2>3, OneHandStep
<1>3. ASSUME NEW s \in Sweepers, Busy(s)
      PROVE  HandTyped([sweep[s] EXCEPT !.next = sweep[s].next + 1])
  BY <1>3, HandsTyped DEF HandTyped, Busy
<1>4. ASSUME NEW s \in Sweepers, Skip(s) PROVE SweepTypeOK' /\ SweepPlaced'
  <2>1. /\ sweep' = [sweep EXCEPT ![s] = [sweep[s] EXCEPT !.next = sweep[s].next + 1]]
        /\ UNCHANGED <<log, gone, now, stored, failed, lost, faults>>
    BY <1>4 DEF Skip, Advance, SweepTypeOK
  <2> QED
    BY <1>0, <1>3, <1>4, <2>1, OneHandStep DEF Skip
<1>5. ASSUME NEW s \in Sweepers, Store(s) PROVE SweepTypeOK' /\ SweepPlaced'
  <2>1. /\ sweep' = [sweep EXCEPT ![s] = [sweep[s] EXCEPT !.next = sweep[s].next + 1]]
        /\ UNCHANGED <<log, gone, now, lost>>
    BY <1>5 DEF Store, Advance, SweepTypeOK
  <2>2. /\ sweep[s].file \in Files
        /\ sweep[s].next \in 1 .. MaxMessages[sweep[s].file]
        /\ sweep[s].next <= Len(log[sweep[s].file])
    <3> DEFINE f == sweep[s].file
               n == sweep[s].next
    <3>1. /\ f \in Files /\ f # None /\ n \in Nat /\ n >= 1 /\ n <= sweep[s].length
          /\ sweep[s].length \in Nat /\ sweep[s].length <= Len(log[f])
      BY <1>0, <1>5, HandsTyped DEF HandTyped, Store, Busy
    <3>2. /\ Len(log[f]) \in Nat /\ Len(log[f]) <= MaxMessages[f]
          /\ MaxMessages[f] \in Nat
      BY SweepAssumption, <1>0, <3>1 DEF SweepTypeOK
    <3> HIDE DEF f, n
    <3>3. n \in 1 .. MaxMessages[f] /\ n <= Len(log[f])
      BY <3>1, <3>2
    <3> QED
      BY <3>1, <3>3 DEF f, n
  <2>3. /\ Current(s) \in Messages
        /\ Current(s)[2] <= Len(log[Current(s)[1]])
    BY <2>2, MessageTyped, SweepAssumption DEF Current
  <2>4. /\ stored' \subseteq stored \cup {Current(s)}
        /\ failed' \subseteq failed \cup {Current(s)}
        /\ faults' \in 0 .. MaxFaults
    BY <1>0, <1>5 DEF Store
  <2>5. Busy(s)
    BY <1>5 DEF Store
  <2>6. /\ stored' \subseteq Messages /\ failed' \subseteq Messages
        /\ \A msg \in stored' \cup failed' \cup lost : msg[2] <= Len(log[msg[1]])
    BY <1>0, <2>3, <2>4
  <2> QED
    BY <1>3, <2>1, <2>4, <2>5, <2>6, OneHandStep
<1>6. ASSUME NEW s \in Sweepers, Finish(s) PROVE SweepTypeOK' /\ SweepPlaced'
  <2>1. HandTyped([sweep[s] EXCEPT !.step = "done"])
    BY <1>6, HandsTyped DEF HandTyped, Finish
  <2>2. /\ sweep' = [sweep EXCEPT ![s] = [sweep[s] EXCEPT !.step = "done"]]
        /\ UNCHANGED <<log, gone, now, stored, failed, lost, faults>>
    BY <1>6 DEF Finish, SweepTypeOK
  <2> QED
    BY <1>0, <2>1, <2>2, OneHandStep
<1>7. ASSUME NEW s \in Sweepers, Leave(s) \/ Kill(s)
      PROVE  SweepTypeOK' /\ SweepPlaced'
  <2>1. HandTyped(Idle)
    BY <1>0 DEF HandTyped, Idle
  <2>2. /\ sweep' = [sweep EXCEPT ![s] = Idle]
        /\ UNCHANGED <<log, gone, now, stored, failed, lost>> /\ faults' \in 0 .. MaxFaults
    BY <1>0, <1>7 DEF Leave, Kill
  <2> QED
    BY <1>0, <2>1, <2>2, OneHandStep
<1>8. ASSUME NEW f \in Files, Write(f) PROVE SweepTypeOK' /\ SweepPlaced'
  <2>1. /\ log' \in [Files -> Seq(1 .. MaxTime)]
        /\ \A g \in Files : Len(log'[g]) <= MaxMessages[g] /\ Len(log[g]) <= Len(log'[g])
    BY SweepAssumption, <1>8 DEF Write, SweepTypeOK
  <2>2. UNCHANGED <<gone, now, stored, sweep, failed, lost, faults>>
    BY <1>8 DEF Write
  <2>3. \A msg \in stored \cup failed \cup lost : msg[1] \in Files /\ msg[2] \in Nat
    BY <1>0, MessageTyped
  <2>4. \A g \in Files : Len(log[g]) \in Nat /\ Len(log'[g]) \in Nat
    BY <1>0, <2>1
  <2>5. \A msg \in stored' \cup failed' \cup lost' : msg[2] <= Len(log'[msg[1]])
    <3>1. ASSUME NEW msg \in stored \cup failed \cup lost PROVE msg[2] <= Len(log'[msg[1]])
      <4>1. msg[2] <= Len(log[msg[1]]) /\ msg[2] \in Nat /\ msg[1] \in Files
        BY <1>0, <2>3
      <4>2. /\ Len(log[msg[1]]) \in Nat /\ Len(log'[msg[1]]) \in Nat
            /\ Len(log[msg[1]]) <= Len(log'[msg[1]])
        BY <2>1, <2>4, <4>1
      <4> QED
        BY <4>1, <4>2
    <3> QED
      BY <2>2, <3>1
  <2>6. \A s \in Sweepers : sweep'[s].file # None => sweep'[s].length <= Len(log'[sweep'[s].file])
    BY <2>1, <2>2, <2>4 DEF SweepTypeOK
  <2>7. gone' \in [Files -> Nat] /\ \A g \in Files : gone'[g] <= Len(log'[g])
    BY <2>1, <2>2, <2>4 DEF SweepTypeOK
  <2> QED
    BY <2>1, <2>2, <2>5, <2>6, <2>7 DEF SweepTypeOK, SweepPlaced
<1>12. ASSUME NEW f \in Files, Compact(f) PROVE SweepTypeOK' /\ SweepPlaced'
  <2>1. PICK n \in gone[f] + 1 .. Len(log[f]) :
          /\ gone' = [gone EXCEPT ![f] = n]
          /\ lost' = lost \cup (({f} \X (gone[f] + 1 .. n)) \ stored)
    BY <1>12 DEF Compact
  <2>2. gone[f] \in Nat /\ n \in Nat /\ n <= Len(log[f]) /\ Len(log[f]) \in Nat
        /\ Len(log[f]) <= MaxMessages[f] /\ MaxMessages[f] \in Nat
    BY SweepAssumption, <1>0, <2>1 DEF SweepTypeOK
  <2>3. UNCHANGED <<log, now, stored, sweep, failed, faults>>
    BY <1>12 DEF Compact
  <2>4. gone' \in [Files -> Nat] /\ \A g \in Files : gone'[g] <= Len(log[g])
    BY <2>1, <2>2 DEF SweepTypeOK
  <2>5. ASSUME NEW msg \in lost' PROVE msg \in Messages /\ msg[2] <= Len(log[msg[1]])
    <3>1. CASE msg \in lost
      BY <1>0, <3>1
    <3>2. ASSUME NEW i \in gone[f] + 1 .. n, msg = <<f, i>>
          PROVE  msg \in Messages /\ msg[2] <= Len(log[msg[1]])
      BY <2>2, <3>2, MessageTyped
    <3> QED
      BY <2>1, <3>1, <3>2
  <2> QED
    BY <1>0, <2>3, <2>4, <2>5 DEF SweepTypeOK, SweepPlaced
<1>9. ASSUME Tick PROVE SweepTypeOK' /\ SweepPlaced'
  BY <1>0, <1>9 DEF Tick, SweepTypeOK, SweepPlaced
<1>10. CASE UNCHANGED sweepVars
  BY <1>10 DEF sweepVars, SweepTypeOK, SweepPlaced
<1> QED
  BY <1>1, <1>2, <1>4, <1>5, <1>6, <1>7, <1>8, <1>9, <1>10,
     <1>11, <1>12
     DEF SweepNext, Step

\* What was ever written, filed, failed or lost only grows, in order.
Grown ==
  /\ stored \subseteq stored' /\ failed \subseteq failed' /\ lost \subseteq lost'
  /\ \A f \in Files : /\ Len(log[f]) <= Len(log'[f])
                      /\ \A i \in 1 .. Len(log[f]) : log'[f][i] = log[f][i]

LEMMA GrownStep ==
  ASSUME SweepTypeOK, LogOrdered, [SweepNext]_sweepVars
  PROVE  Grown /\ LogOrdered'
<1>1. ASSUME UNCHANGED <<log, now>>, stored \subseteq stored', failed \subseteq failed',
             lost \subseteq lost'
      PROVE  Grown /\ LogOrdered'
  BY <1>1 DEF Grown, LogOrdered, SweepTypeOK
<1>2. ASSUME NEW f \in Files, Write(f) PROVE Grown /\ LogOrdered'
  <2>1. /\ log[f] \in Seq(1 .. MaxTime) /\ now \in 1 .. MaxTime /\ MaxTime \in Nat
        /\ log' = [log EXCEPT ![f] = Append(log[f], now)]
        /\ UNCHANGED <<now, stored, failed, lost>>
    BY SweepAssumption, <1>2 DEF Write, SweepTypeOK
  <2>2. /\ Len(Append(log[f], now)) = Len(log[f]) + 1
        /\ Append(log[f], now)[Len(log[f]) + 1] = now
        /\ \A i \in 1 .. Len(log[f]) : Append(log[f], now)[i] = log[f][i]
        /\ Len(log[f]) \in Nat
    BY <2>1
  <2>3. \A g \in Files : log'[g] = IF g = f THEN Append(log[f], now) ELSE log[g]
    BY <2>1 DEF SweepTypeOK
  <2>4. Grown
    BY <2>1, <2>2, <2>3 DEF Grown, SweepTypeOK
  <2>5. ASSUME NEW g \in Files, NEW i \in 1 .. Len(log'[g]) PROVE log'[g][i] <= now
    BY <2>1, <2>2, <2>3 DEF LogOrdered
  <2>6. ASSUME NEW g \in Files, NEW i \in 1 .. Len(log'[g]), NEW j \in 1 .. Len(log'[g]), i <= j
        PROVE  log'[g][i] <= log'[g][j]
    <3>1. CASE g # f
      BY <2>3, <2>6, <3>1 DEF LogOrdered
    <3>2. CASE g = f /\ j = Len(log[f]) + 1
      BY <2>2, <2>3, <2>5, <3>2
    <3>3. CASE g = f /\ j # Len(log[f]) + 1
      <4>1. i \in 1 .. Len(log[f]) /\ j \in 1 .. Len(log[f])
        <5>1. Len(log'[g]) = Len(log[f]) + 1
          BY <2>2, <2>3, <3>3
        <5> QED
          BY <2>2, <2>6, <3>3, <5>1
      <4> QED
        BY <2>2, <2>3, <2>6, <3>3, <4>1 DEF LogOrdered
    <3> QED
      BY <3>1, <3>2, <3>3
  <2> QED
    BY <2>1, <2>4, <2>5, <2>6 DEF LogOrdered
<1>3. ASSUME Tick PROVE Grown /\ LogOrdered'
  <2>1. UNCHANGED <<log, stored, failed, lost>> /\ now' >= now
    BY <1>3 DEF Tick, SweepTypeOK
  <2>2. \A f \in Files : Len(log[f]) \in Nat /\ \A i \in 1 .. Len(log[f]) : log[f][i] \in Nat
    BY SweepAssumption DEF SweepTypeOK
  <2>3. now \in Nat /\ now' \in Nat
    BY <1>3 DEF Tick, SweepTypeOK
  <2> QED
    BY <2>1, <2>2, <2>3 DEF Grown, LogOrdered
<1>4. ASSUME NEW s \in Sweepers,
             (\E f \in Files : Open(s, f)) \/ Step(s) \/ FailParse(s) \/ Kill(s)
      PROVE  Grown /\ LogOrdered'
  BY <1>1, <1>4 DEF Open, Step, Parse, FailParse, Skip, Store,
                    Finish, Leave, Kill
<1>5. ASSUME NEW f \in Files, Compact(f) PROVE Grown /\ LogOrdered'
  BY <1>1, <1>5 DEF Compact
<1> QED
  BY <1>1, <1>2, <1>3, <1>4, <1>5 DEF SweepNext, sweepVars

\* A message that is taken stays so.
LEMMA TakenStays ==
  ASSUME SweepTypeOK, Grown,
         NEW f \in Files, NEW i \in 1 .. Len(log[f]), Taken(<<f, i>>)
  PROVE  Taken(<<f, i>>)'
<1>1. CASE <<f, i>> \in stored \cup failed \cup lost
  BY <1>1 DEF Grown, Taken
<1>2. CASE Overtaken(<<f, i>>)
  <2>1. PICK other \in stored : /\ other[1] # f
                                /\ Session[other[1]] = Session[f]
                                /\ Time(other) > Time(<<f, i>>)
    BY <1>2 DEF Overtaken
  <2>2. Time(other)' = Time(other) /\ other \in stored'
    BY StoredTyped DEF Grown, Time
  <2>3. Time(<<f, i>>)' = Time(<<f, i>>)
    BY DEF Grown, Time
  <2>4. i <= Len(log'[f])
    <3>1. Len(log[f]) \in Nat /\ Len(log[f]) <= Len(log'[f])
      BY DEF Grown, SweepTypeOK
    <3> QED
      BY <3>1
  <2> QED
    BY <2>1, <2>2, <2>3, <2>4 DEF Taken, Overtaken
<1> QED
  BY <1>1, <1>2 DEF Taken

\* A busy sweeper is at a message of its transcript.
LEMMA BusyTyped ==
  ASSUME SweepInv, NEW s \in Sweepers, Busy(s)
  PROVE  /\ sweep[s].file \in Files /\ sweep[s].step = "store"
         /\ sweep[s].next \in Nat /\ sweep[s].next \in 1 .. Len(log[sweep[s].file])
         /\ sweep[s].next <= Len(log[sweep[s].file]) /\ Len(log[sweep[s].file]) \in Nat
         /\ log[sweep[s].file][sweep[s].next] \in 1 .. MaxTime
<1>1. HandTyped(sweep[s])
  BY HandsTyped DEF SweepInv
<1>2. /\ sweep[s].file \in Files /\ sweep[s].step = "store"
      /\ sweep[s].length <= Len(log[sweep[s].file]) /\ sweep[s].length \in Nat
      /\ sweep[s].next \in Nat /\ sweep[s].next >= 1 /\ sweep[s].next <= sweep[s].length
  BY SweepAssumption, <1>1 DEF HandTyped, Busy
<1>3. log[sweep[s].file] \in Seq(1 .. MaxTime)
  BY <1>2 DEF SweepInv, SweepTypeOK
<1>4. Len(log[sweep[s].file]) \in Nat
  BY <1>3
<1>5. sweep[s].next \in 1 .. Len(log[sweep[s].file])
  BY <1>2, <1>4
<1>6. log[sweep[s].file][sweep[s].next] \in 1 .. MaxTime
  BY SweepAssumption, <1>3, <1>5
<1> QED
  BY <1>2, <1>4, <1>5, <1>6

\* What a sweeper is about to pass over, or files, leaves nothing older out.
LEMMA OrderStep ==
  ASSUME SweepInv, Grown, [SweepNext]_sweepVars
  PROVE  FiledInOrder'
<1>1. ASSUME NEW msg \in stored, NEW i \in 1 .. msg[2] PROVE Taken(<<msg[1], i>>)'
  <2>1. msg[1] \in Files /\ msg[2] \in Nat /\ msg[2] \in 1 .. Len(log[msg[1]])
    BY StoredTyped DEF SweepInv
  <2>2. i \in 1 .. Len(log[msg[1]])
    BY <2>1
  <2>3. Taken(<<msg[1], i>>)
    BY DEF SweepInv, FiledInOrder
  <2> QED
    BY <2>1, <2>2, <2>3, TakenStays DEF SweepInv
<1>2. ASSUME NEW s \in Sweepers, Store(s), stored' = stored \cup {Current(s)},
             NEW f, NEW n, f = sweep[s].file, n = sweep[s].next, NEW i \in 1 .. n
      PROVE  Taken(<<f, i>>)'
  <2>1. /\ f \in Files /\ n \in Nat
        /\ n <= Len(log[f]) /\ Len(log[f]) \in Nat
        /\ sweep[s].step = "store"
    BY <1>2, BusyTyped DEF Store
  <2>2. CASE i = n
    BY <1>2, <2>2 DEF Taken, Current
  <2>3. CASE i # n
    <3> DEFINE last == Len(log[f])
    <3>1. i \in 1 .. n /\ n \in Nat /\ n <= last /\ last \in Nat
      BY <2>1
    <3> HIDE DEF last
    <3>2. i \in 1 .. n - 1 /\ i \in 1 .. last
      BY <2>3, <3>1
    <3>3. i \in 1 .. n - 1 /\ i \in 1 .. Len(log[f])
      BY <3>2 DEF last
    <3>4. \A j \in 1 .. sweep[s].next - 1 : Taken(<<sweep[s].file, j>>)
      BY <2>1 DEF SweepInv, BehindIsTaken
    <3>5. f = sweep[s].file /\ n = sweep[s].next
      BY <1>2
    <3>6. Taken(<<f, i>>)
      BY <3>3, <3>4, <3>5, Zenon
    <3> QED
      BY <2>1, <3>3, <3>6, TakenStays DEF SweepInv
  <2> QED
    BY <2>2, <2>3
<1>3. \/ stored' = stored
      \/ \E s \in Sweepers : Store(s) /\ stored' = stored \cup {Current(s)}
  BY DEF SweepNext, Step, sweepVars, Open, Parse, FailParse, Skip,
         Store, Finish, Leave, Kill, Write, Compact, Tick
<1>4. CASE stored' = stored
  BY <1>1, <1>4 DEF FiledInOrder
<1>5. ASSUME NEW s \in Sweepers, Store(s), stored' = stored \cup {Current(s)}
      PROVE  FiledInOrder'
  <2>1. ASSUME NEW msg \in stored', NEW i \in 1 .. msg[2] PROVE Taken(<<msg[1], i>>)'
    <3>1. CASE msg \in stored
      BY <1>1, <3>1
    <3>2. CASE msg[1] = sweep[s].file /\ msg[2] = sweep[s].next
      BY <1>2, <1>5, <2>1, <3>2
    <3> QED
      BY <1>5, <2>1, <3>1, <3>2 DEF Current
  <2> QED
    BY <2>1 DEF FiledInOrder
<1> QED
  BY <1>3, <1>4, <1>5

\* A compaction removes what is filed, or else it is lost.
LEMMA GoneStep ==
  ASSUME SweepInv, Grown, [SweepNext]_sweepVars
  PROVE  GoneIsTaken'
<1>1. ASSUME NEW f \in Files, NEW i \in 1 .. gone[f] PROVE Taken(<<f, i>>)'
  <2>1. i \in 1 .. Len(log[f])
    BY DEF SweepInv, SweepTypeOK
  <2>2. Taken(<<f, i>>)
    BY DEF SweepInv, GoneIsTaken
  <2> QED
    BY <2>1, <2>2, TakenStays DEF SweepInv
<1>2. CASE gone' = gone
  BY <1>1, <1>2 DEF GoneIsTaken
<1>3. ASSUME NEW f \in Files, Compact(f) PROVE GoneIsTaken'
  <2>1. PICK n \in gone[f] + 1 .. Len(log[f]) :
          /\ gone' = [gone EXCEPT ![f] = n]
          /\ lost' = lost \cup (({f} \X (gone[f] + 1 .. n)) \ stored)
          /\ stored' = stored
    BY <1>3 DEF Compact
  <2>2. gone[f] \in Nat /\ n \in Nat /\ gone \in [Files -> Nat]
    BY DEF SweepInv, SweepTypeOK
  <2>3. ASSUME NEW g \in Files, NEW i \in 1 .. gone'[g] PROVE Taken(<<g, i>>)'
    <3>1. CASE i \in 1 .. gone[g]
      BY <1>1, <3>1
    <3>2. CASE g = f /\ i \in gone[f] + 1 .. n
      BY <2>1, <3>2 DEF Taken
    <3> QED
      BY <2>1, <2>2, <3>1, <3>2
  <2> QED
    BY <2>3 DEF GoneIsTaken
<1> QED
  BY <1>2, <1>3 DEF SweepNext, Step, sweepVars, Open, Parse, FailParse, Skip,
         Store, Finish, Leave, Kill, Write, Tick

\* The drawer a cursor was taken from stays, with its time.
LEMMA CursorStep ==
  ASSUME SweepInv, Grown, [SweepNext]_sweepVars
  PROVE  CursorSeen'
<1>1. ASSUME NEW f, NEW c,
             \E msg \in stored : Session[msg[1]] = Session[f] /\ Time(msg) = c
      PROVE  \E msg \in stored' : Session[msg[1]] = Session[f] /\ Time(msg)' = c
  <2>1. PICK msg \in stored : Session[msg[1]] = Session[f] /\ Time(msg) = c
    BY <1>1
  <2>2. Time(msg)' = Time(msg) /\ msg \in stored'
    BY StoredTyped DEF SweepInv, Grown, Time
  <2> QED
    BY <2>1, <2>2
<1>2. ASSUME NEW s \in Sweepers, sweep'[s].step # "idle", sweep'[s].cursor # 0
      PROVE  \E msg \in stored : /\ Session[msg[1]] = Session[sweep'[s].file]
                                 /\ Time(msg) = sweep'[s].cursor
  <2> USE DEF SweepInv, SweepTypeOK
  <2>1. CASE /\ sweep[s].step # "idle"
             /\ sweep'[s].file = sweep[s].file /\ sweep'[s].cursor = sweep[s].cursor
    BY <1>2, <2>1 DEF CursorSeen
  <2>2. ASSUME NEW f \in Files, Open(s, f)
        PROVE  \E msg \in stored : /\ Session[msg[1]] = Session[sweep'[s].file]
                                   /\ Time(msg) = sweep'[s].cursor
    <3>1. sweep'[s].file = f /\ sweep'[s].cursor = Cursor(f)
      BY <2>2 DEF Open, Idle
    <3> QED
      BY <1>2, <3>1, CursorTyped
  <2>3. ASSUME NEW t \in Sweepers,
               \/ t # s /\ ((\E f \in Files : Open(t, f)) \/ Step(t) \/ FailParse(t) \/ Kill(t))
               \/ \E f \in Files : Write(f) \/ Compact(f)
               \/ Tick \/ UNCHANGED sweepVars
        PROVE  sweep'[s] = sweep[s]
    BY <2>3 DEF Step, sweepVars, Open, Parse, FailParse, Skip,
         Store, Advance, Finish, Leave, Kill,
         Write, Compact, Tick
  <2>4. ASSUME Step(s) \/ FailParse(s) \/ Kill(s)
        PROVE  /\ sweep[s].step # "idle"
               /\ sweep'[s].file = sweep[s].file /\ sweep'[s].cursor = sweep[s].cursor
    BY <1>2, <2>4 DEF Step, Parse, FailParse, Skip, Store,
         Busy, Advance, Finish, Leave, Kill, Idle
  <2> QED
    BY <1>2, <2>1, <2>2, <2>3, <2>4 DEF SweepNext
<1> QED
  BY <1>1, <1>2 DEF CursorSeen

\* What a sweep passes over is older than a drawer of the session: of another
\* transcript, or of its own, before which everything is taken.
LEMMA PassedIsTaken ==
  ASSUME SweepInv, NEW s \in Sweepers, Skip(s)
  PROVE  Taken(Current(s))
<1> DEFINE f == sweep[s].file
           n == sweep[s].next
<1>1. /\ f \in Files /\ n \in 1 .. Len(log[f]) /\ Len(log[f]) \in Nat
      /\ Current(s) = <<f, n>>
      /\ log[f][n] < sweep[s].cursor /\ log[f][n] \in 1 .. MaxTime
      /\ sweep[s].step = "store" /\ sweep[s].cursor \in 0 .. MaxTime
  <2>1. Busy(s) /\ log[f][n] < sweep[s].cursor /\ Current(s) = <<f, n>>
    BY DEF Skip, Time, Current
  <2>2. sweep[s].cursor \in 0 .. MaxTime
    BY DEF SweepInv, SweepTypeOK
  <2> QED
    BY <2>1, <2>2, BusyTyped
<1>2. PICK other \in stored : /\ Session[other[1]] = Session[f]
                              /\ Time(other) = sweep[s].cursor
  <2>1. sweep[s].cursor # 0
    BY SweepAssumption, <1>1
  <2> QED
    BY <1>1, <2>1 DEF SweepInv, CursorSeen
<1>3. /\ other[2] \in 1 .. Len(log[other[1]]) /\ other[2] \in Nat
      /\ Time(other) = log[other[1]][other[2]]
  BY StoredTyped DEF SweepInv, Time
<1>4. CASE other[1] # f
  BY <1>1, <1>2, <1>4 DEF Taken, Overtaken, Time
<1>5. CASE other[1] = f
  <2>1. ~ (other[2] <= n)
    <3>1. log[f][other[2]] \in 1 .. MaxTime
      BY <1>3, <1>5, StoredTyped DEF SweepInv, Time
    <3>2. other[2] <= n => log[f][other[2]] <= log[f][n]
      BY <1>1, <1>3, <1>5 DEF SweepInv, LogOrdered
    <3> QED
      BY SweepAssumption, <1>1, <1>2, <1>3, <1>5, <3>1, <3>2
  <2>2. n \in 1 .. other[2]
    BY <1>1, <1>3, <2>1
  <2> QED
    BY <1>1, <1>5, <2>2 DEF SweepInv, FiledInOrder
<1> QED
  BY <1>4, <1>5

\* What a sweep has behind it stays taken, and what it passes joins it.
LEMMA BehindStep ==
  ASSUME SweepInv, Grown, [SweepNext]_sweepVars
  PROVE  BehindIsTaken'
<1>1. ASSUME NEW s \in Sweepers, NEW f, NEW i, sweep[s].step \in {"store", "done"},
             f = sweep[s].file, i \in 1 .. sweep[s].next - 1
      PROVE  Taken(<<f, i>>)'
  <2>1. f \in Files /\ i \in 1 .. Len(log[f])
    BY SweepAssumption, <1>1, HandsTyped DEF HandTyped, SweepInv, SweepTypeOK
  <2>2. Taken(<<f, i>>)
    BY <1>1 DEF SweepInv, BehindIsTaken
  <2> QED
    BY <2>1, <2>2, TakenStays DEF SweepInv
<1>2. ASSUME NEW s \in Sweepers, NEW f, NEW i, Skip(s) \/ Store(s),
             f = sweep[s].file, i = sweep[s].next
      PROVE  Taken(<<f, i>>)'
  <2>1. CASE Skip(s)
    <3>1. Taken(<<f, i>>)
      BY <1>2, <2>1, PassedIsTaken DEF Current
    <3>2. f \in Files /\ i \in 1 .. Len(log[f])
      BY SweepAssumption, <1>2, HandsTyped DEF HandTyped, SweepInv, SweepTypeOK,
                              Skip, Store, Busy
    <3> QED
      BY <3>1, <3>2, TakenStays DEF SweepInv
  <2>2. CASE Store(s)
    <3>1. Current(s) \in stored' \cup failed'
      BY <2>2 DEF Store
    <3> QED
      BY <1>2, <3>1 DEF Taken, Current
  <2> QED
    BY <1>2, <2>1, <2>2
<1>3. ASSUME NEW s \in Sweepers, sweep'[s].step \in {"store", "done"}
      PROVE  \/ sweep'[s].next = 1
             \/ sweep'[s].file \in Files /\ sweep'[s].next = gone[sweep'[s].file] + 1
             \/ /\ sweep'[s].file = sweep[s].file
                /\ sweep[s].step \in {"store", "done"}
                /\ \/ sweep'[s].next = sweep[s].next
                   \/ /\ sweep'[s].next = sweep[s].next + 1
                      /\ Skip(s) \/ Store(s)
  <2> USE DEF SweepInv, SweepTypeOK
  <2>1. ASSUME NEW t \in Sweepers,
               \/ t # s /\ ((\E f \in Files : Open(t, f)) \/ Step(t) \/ FailParse(t) \/ Kill(t))
               \/ \E f \in Files : Write(f) \/ Compact(f)
               \/ Tick \/ UNCHANGED sweepVars
        PROVE  sweep'[s] = sweep[s]
    BY <2>1 DEF Step, sweepVars, Open, Parse, FailParse, Skip,
         Store, Advance, Finish, Leave, Kill,
         Write, Compact, Tick
  <2>2. ASSUME (\E f \in Files : Open(s, f)) \/ Leave(s) \/ Kill(s)
        PROVE  FALSE
    <3>1. ASSUME NEW f \in Files, Open(s, f) PROVE sweep'[s].step = "opened"
      BY <3>1 DEF Open, Idle
    <3>2. ASSUME Leave(s) \/ Kill(s) PROVE sweep'[s].step = "idle"
      BY <3>2 DEF Leave, Kill, Idle
    <3> QED
      BY <1>3, <2>2, <3>1, <3>2
  <2>3. CASE Parse(s) \/ FailParse(s)
    BY <2>3 DEF Parse, FailParse, SweepPlaced
  <2>4. CASE Skip(s) \/ Store(s)
    BY <2>4 DEF Skip, Store, Advance, Busy
  <2>5. CASE Finish(s)
    BY <2>5 DEF Finish
  <2> QED
    BY <1>3, <2>1, <2>2, <2>3, <2>4, <2>5 DEF SweepNext, Step
<1>4. ASSUME NEW s \in Sweepers, sweep'[s].step \in {"store", "done"},
             NEW f, f = sweep'[s].file, NEW i \in 1 .. sweep'[s].next - 1
      PROVE  Taken(<<f, i>>)'
  <2>1. sweep[s].next \in Nat /\ gone \in [Files -> Nat]
    BY DEF SweepInv, SweepTypeOK
  <2>2. CASE f \in Files /\ i \in 1 .. gone[f]
    <3>1. i \in 1 .. Len(log[f]) /\ Taken(<<f, i>>)
      BY <2>2 DEF SweepInv, SweepTypeOK, GoneIsTaken
    <3> QED
      BY <2>2, <3>1, TakenStays DEF SweepInv
  <2> QED
    BY <1>1, <1>2, <1>3, <1>4, <2>1, <2>2
<1> QED
  BY <1>4 DEF BehindIsTaken, Taken, Overtaken

\* It holds from the start, and every step of a sweep or a session keeps it.
LEMMA SweepInvariance == SweepSpec => []SweepInv
<1>1. SweepInit => SweepInv
  <2> SUFFICES ASSUME SweepInit PROVE SweepInv
    OBVIOUS
  <2>1. SweepTypeOK
    BY SweepAssumption DEF SweepInit, SweepTypeOK, Idle
  <2> QED
    BY <2>1 DEF SweepInit, Idle, SweepInv, SweepPlaced, LogOrdered, FiledInOrder,
                GoneIsTaken, CursorSeen, BehindIsTaken
<1>2. SweepInv /\ [SweepNext]_sweepVars => SweepInv'
  <2> SUFFICES ASSUME SweepInv, [SweepNext]_sweepVars PROVE SweepInv'
    OBVIOUS
  <2>1. SweepTypeOK' /\ SweepPlaced'
    BY SweepTypeStep DEF SweepInv
  <2>2. Grown /\ LogOrdered'
    BY GrownStep DEF SweepInv
  <2>3. FiledInOrder' /\ GoneIsTaken' /\ CursorSeen' /\ BehindIsTaken'
    BY <2>2, OrderStep, GoneStep, CursorStep, BehindStep
  <2> QED
    BY <2>1, <2>2, <2>3 DEF SweepInv
<1> QED
  BY <1>1, <1>2, PTL DEF SweepSpec

\* The sweepers keep their types.
THEOREM SweepTypeCorrectness == SweepSpec => []SweepTypeOK
<1>1. SweepInv => SweepTypeOK
  BY DEF SweepInv
<1> QED
  BY <1>1, SweepInvariance, PTL

\* The drawers of a transcript have no gaps before them: whatever is filed, each
\* older message of its transcript is filed too, or is one of the exceptions.
\* This is what lets a sweep trust the newest drawer it finds (sweeper.rs:243).
THEOREM FiledInOrderAlways == SweepSpec => []FiledInOrder
<1>1. SweepInv => FiledInOrder
  BY DEF SweepInv
<1> QED
  BY <1>1, SweepInvariance, PTL

\* A sweep leaves no message it read out, whatever other sweeps, crashes, failed
\* reads and inserts have left in the store, short of the stated exceptions.
THEOREM SweptIsFiledAlways == SweepSpec => []SweptIsFiled
<1>1. ASSUME SweepInv, NEW s \in Sweepers, sweep[s].step = "done", NEW i \in 1 .. sweep[s].length
      PROVE  Taken(<<sweep[s].file, i>>)
  <2>1. i \in 1 .. sweep[s].next - 1
    BY <1>1 DEF SweepInv, SweepPlaced, SweepTypeOK
  <2> QED
    BY <1>1, <2>1 DEF SweepInv, BehindIsTaken
<1>2. SweepInv => SweptIsFiled
  BY <1>1 DEF SweptIsFiled, Taken
<1> QED
  BY <1>2, SweepInvariance, PTL
=============================================================================
