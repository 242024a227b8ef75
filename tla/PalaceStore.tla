---------------------------- MODULE PalaceStore ----------------------------
(***************************************************************************)
(* Drawer storage (palace_db.rs, drawer_store.rs).  Every request, miner   *)
(* or daemon job opens its own PalaceDb handle on the same palace          *)
(* directory.  A handle keeps the whole collection in memory, inserts new  *)
(* drawers into the SQLite table one row at a time, and on a flush or a    *)
(* delete rewrites the whole JSON file from its memory.  Reads start from  *)
(* either of the two: PalaceDb::open loads the table when it is not empty, *)
(* the search path (open_with_embedder) loads the JSON file.               *)
(*                                                                         *)
(* Drawers are identified by id; their contents play no part in which      *)
(* drawers exist.  A drawer's source file is fixed by its id, because the  *)
(* miner derives ids from the source file.                                 *)
(***************************************************************************)
EXTENDS Naturals, FiniteSets

CONSTANTS
  Handles,     \* PalaceDb handles, in any processes
  Ids,         \* drawer ids
  Sources,     \* source files
  SourceOf,    \* the source file of each drawer
  BatchSize    \* rows per migration transaction (500 in the code)

ASSUME PalaceAssumption ==
  /\ SourceOf \in [Ids -> Sources]
  /\ BatchSize \in Nat \ {0}

VARIABLES
  rows,     \* drawers in the SQLite table
  json,     \* the JSON file: [kind, docs]
  state,    \* what each handle is doing
  docs,     \* each handle's in-memory collection
  kind,     \* how each handle was opened
  todo,     \* drawers a migration has still to insert
  dirty,    \* the handle added drawers it has not flushed
  mixed,    \* another save completed since this handle truncated the file
  acked,    \* history: drawers whose add was acknowledged and row inserted
  deleted,  \* history: drawers whose deletion was acknowledged
  owed,     \* history: drawers a migration read and nobody purged since
  upset     \* history: the gravest thing that has happened so far

handleVars  == <<state, docs, kind, todo, dirty, mixed>>
historyVars == <<acked, deleted, owed, upset>>
vars == <<rows, json, handleVars, historyVars>>

States == {"closed", "counted", "empty", "checked", "migrating", "open", "saving", "deleting"}
\* PalaceDb::open with a DrawerStore, without one, or the search path.
Kinds == {"none", "store", "fallback", "search"}

\* What has disturbed the palace so far, by gravity.
Nothing      == 0
Deletion     == 1  \* a drawer was deleted by id
Divergence   == 2  \* a purge, a failed insert or a fallback handle
Interruption == 3  \* a crash, or two handles at once

TypeOK ==
  /\ rows \subseteq Ids
  /\ json \in [kind : {"absent", "torn", "map"}, docs : SUBSET Ids]
  /\ json.kind # "map" => json.docs = {}
  /\ state \in [Handles -> States]
  /\ docs \in [Handles -> SUBSET Ids]
  /\ kind \in [Handles -> Kinds]
  /\ todo \in [Handles -> SUBSET Ids]
  /\ dirty \in [Handles -> SUBSET Ids]
  /\ mixed \in [Handles -> BOOLEAN]
  /\ acked \subseteq Ids
  /\ deleted \subseteq Ids
  /\ owed \in [Handles -> SUBSET Ids]
  /\ upset \in Nothing .. Interruption

\* A palace starts without files, or with the JSON file of an older release.
Init ==
  /\ rows = {}
  /\ \/ json = [kind |-> "absent", docs |-> {}]
     \/ \E legacy \in SUBSET Ids : json = [kind |-> "map", docs |-> legacy]
  /\ state = [h \in Handles |-> "closed"]
  /\ docs = [h \in Handles |-> {}]
  /\ kind = [h \in Handles |-> "none"]
  /\ todo = [h \in Handles |-> {}]
  /\ dirty = [h \in Handles |-> {}]
  /\ mixed = [h \in Handles |-> FALSE]
  /\ acked = {}
  /\ deleted = {}
  /\ owed = [h \in Handles |-> {}]
  /\ upset = Nothing

Happened(gravity) == upset' = IF gravity > upset THEN gravity ELSE upset
Active(h)   == state[h] # "closed"

-----------------------------------------------------------------------------
(***************************************************************************)
(* Opening a handle.                                                       *)
(***************************************************************************)

\* A new handle on the palace, while others may be in use.
NewHandle(h, how, loaded, next) ==
  /\ state[h] = "closed"
  /\ state' = [state EXCEPT ![h] = next]
  /\ kind' = [kind EXCEPT ![h] = how]
  /\ docs' = [docs EXCEPT ![h] = loaded]
  /\ Happened(IF \E g \in Handles : Active(g) THEN Interruption
              ELSE IF how = "fallback" THEN Divergence ELSE Nothing)
  /\ UNCHANGED <<rows, json, todo, dirty, mixed, acked, deleted, owed>>

\* PalaceDb::open counts the rows of the table.
OpenStore(h) == NewHandle(h, "store", {}, IF rows = {} THEN "empty" ELSE "counted")

\* The handle goes on with what it has loaded.
Proceed(h, from, loaded, next) ==
  /\ state[h] = from
  /\ state' = [state EXCEPT ![h] = next]
  /\ docs' = [docs EXCEPT ![h] = loaded]
  /\ UNCHANGED <<rows, json, kind, todo, dirty, mixed, historyVars>>

\* There were rows: they are loaded, by a second statement.
LoadStore(h) == Proceed(h, "counted", rows, "open")

\* There were none, and nothing is in the JSON file either.
OpenEmptyStore(h) ==
  /\ json.kind # "torn" /\ json.docs = {}
  /\ Proceed(h, "empty", {}, "open")

\* There were none, but the JSON file has drawers: migrate_from_json is next.
FindEmptyStore(h) ==
  /\ json.docs # {}
  /\ Proceed(h, "empty", {}, "checked")

\* DrawerStore::open failed: the handle lives on the JSON file alone.
OpenFallback(h) ==
  /\ json.kind # "torn"
  /\ NewHandle(h, "fallback", json.docs, "open")

\* open_with_embedder: the collection comes from the JSON file; an empty
\* table, when it can be opened, is migrated on the side.
OpenForSearch(h) ==
  /\ json.kind # "torn"
  /\ \/ NewHandle(h, "search", json.docs, "open")
     \/ /\ rows = {} /\ json.docs # {}
        /\ NewHandle(h, "search", json.docs, "checked")

-----------------------------------------------------------------------------
(***************************************************************************)
(* Migrating the JSON file into an empty table.                            *)
(***************************************************************************)

\* migrate_from_json looks at the table again and gives up when another
\* handle has filled it meanwhile; otherwise it reads the JSON file again.
\* The search path ignores a failure to read it, PalaceDb::open does not
\* (Crash).
StartMigration(h) ==
  /\ state[h] = "checked"
  /\ \/ /\ rows # {} \/ (kind[h] = "search" /\ json.kind = "torn")
        /\ todo' = todo
        /\ owed' = owed
     \/ /\ rows = {} /\ json.kind = "map"
        /\ todo' = [todo EXCEPT ![h] = json.docs]
        /\ owed' = [owed EXCEPT ![h] = json.docs]
  /\ state' = [state EXCEPT ![h] = "migrating"]
  /\ UNCHANGED <<rows, json, docs, kind, dirty, mixed, acked, deleted, upset>>

\* Mutant: only the first batch is inserted.
MigrateFirstBatch(h) ==
  /\ state[h] = "migrating" /\ todo[h] # {}
  /\ \E batch \in SUBSET todo[h] :
       /\ batch # {}
       /\ Cardinality(batch) = BatchSize \/ batch = todo[h]
       /\ Cardinality(batch) <= BatchSize
       /\ rows' = rows \cup batch
       /\ todo' = [todo EXCEPT ![h] = {}]
  /\ UNCHANGED <<json, state, docs, kind, dirty, mixed, historyVars>>

\* One transaction of insert_batch.
MigrateBatch(h) ==
  /\ state[h] = "migrating" /\ todo[h] # {}
  /\ \E batch \in SUBSET todo[h] :
       /\ batch # {}
       /\ Cardinality(batch) = BatchSize \/ batch = todo[h]
       /\ Cardinality(batch) <= BatchSize
       /\ rows' = rows \cup batch
       /\ todo' = [todo EXCEPT ![h] = @ \ batch]
  /\ UNCHANGED <<json, state, docs, kind, dirty, mixed, historyVars>>

\* Mutant: PalaceDb::open serves what it migrated without reading the table.
FinishWithoutReload(h) ==
  /\ state[h] = "migrating" /\ todo[h] = {}
  /\ docs' = [docs EXCEPT ![h] = IF kind[h] = "search" THEN @ ELSE owed[h]]
  /\ state' = [state EXCEPT ![h] = "open"]
  /\ owed' = [owed EXCEPT ![h] = {}]
  /\ UNCHANGED <<rows, json, kind, todo, dirty, mixed, acked, deleted, upset>>

\* insert_batch fails: the search path drops the error and goes on, with a table
\* that has a part of what it serves.  PalaceDb::open gives up (Crash).
IgnoreMigrationError(h) ==
  /\ state[h] = "migrating" /\ todo[h] # {} /\ kind[h] = "search"
  /\ state' = [state EXCEPT ![h] = "open"]
  /\ todo' = [todo EXCEPT ![h] = {}]
  /\ owed' = [owed EXCEPT ![h] = {}]
  /\ Happened(Divergence)
  /\ UNCHANGED <<rows, json, docs, kind, dirty, mixed, acked, deleted>>

\* Every batch is in: PalaceDb::open loads the table, the search path keeps
\* what it read from the JSON file.
FinishMigration(h) ==
  /\ state[h] = "migrating" /\ todo[h] = {}
  /\ docs' = [docs EXCEPT ![h] = IF kind[h] = "search" THEN @ ELSE rows]
  /\ state' = [state EXCEPT ![h] = "open"]
  /\ owed' = [owed EXCEPT ![h] = {}]
  /\ UNCHANGED <<rows, json, kind, todo, dirty, mixed, acked, deleted, upset>>

-----------------------------------------------------------------------------
(***************************************************************************)
(* Using and closing a handle.                                             *)
(***************************************************************************)

\* DrawerStore::insert, when there is a DrawerStore and the insert succeeds;
\* a failed one is only logged.
InsertRow(h, id) ==
  \/ /\ kind[h] = "store"
     /\ rows' = rows \cup {id}
     /\ UNCHANGED upset
  \/ /\ Happened(Divergence)
     /\ UNCHANGED rows

\* add / upsert_documents: memory first, then the row.
Add(h, id) ==
  /\ state[h] = "open" /\ kind[h] # "search"
  /\ docs' = [docs EXCEPT ![h] = @ \cup {id}]
  /\ dirty' = [dirty EXCEPT ![h] = @ \cup {id}]
  /\ deleted' = deleted \ {id}
  /\ InsertRow(h, id)
  /\ UNCHANGED <<json, state, kind, todo, mixed, acked, owed>>

\* Mutant: the file is opened without truncation.
OverwriteInPlace(h, next) ==
  /\ state' = [state EXCEPT ![h] = next]
  /\ json' = [json EXCEPT !.kind = "torn"]
  /\ mixed' = [mixed EXCEPT ![h] = FALSE]

\* std::fs::write truncates the file before it writes the new content.
Truncate(h, next) ==
  /\ state' = [state EXCEPT ![h] = next]
  /\ json' = [kind |-> "torn", docs |-> {}]
  /\ mixed' = [mixed EXCEPT ![h] = FALSE]

\* flush(): save the in-memory collection.
BeginFlush(h) ==
  /\ state[h] = "open" /\ kind[h] # "search"
  /\ Truncate(h, "saving")
  /\ UNCHANGED <<rows, docs, kind, todo, dirty, historyVars>>

\* delete_id on a drawer the handle knows: out of memory, then save.
BeginDelete(h, id) ==
  /\ state[h] = "open" /\ kind[h] # "search" /\ dirty[h] = {}
  /\ id \in docs[h]
  /\ docs' = [docs EXCEPT ![h] = @ \ {id}]
  /\ deleted' = deleted \cup {id}
  /\ acked' = acked \ {id}
  /\ Happened(Deletion)
  /\ Truncate(h, "deleting")
  /\ UNCHANGED <<rows, kind, todo, dirty, owed>>

\* Mutant: a write that fails half-way is taken for a success.
EndSaveAnyhow(h) ==
  /\ state[h] \in {"saving", "deleting"}
  /\ \/ json' = [kind |-> "map", docs |-> docs[h]]
     \/ json' = [kind |-> "torn", docs |-> {}]
  /\ mixed' = [g \in Handles |-> g # h /\ (mixed[g] \/ state[g] \in {"saving", "deleting"})]
  /\ acked' = acked \cup (dirty[h] \cap rows)
  /\ dirty' = [dirty EXCEPT ![h] = {}]
  /\ state' = [state EXCEPT ![h] = "open"]
  /\ UNCHANGED <<rows, docs, kind, todo, deleted, owed, upset>>

\* The new content is in the file.  It is written over whatever a save that
\* completed since the truncation left there, whose tail may remain.
EndSave(h) ==
  /\ state[h] \in {"saving", "deleting"}
  /\ \/ json' = [kind |-> "map", docs |-> docs[h]]
     \/ mixed[h] /\ json' = [kind |-> "torn", docs |-> {}]
  /\ mixed' = [g \in Handles |-> g # h /\ (mixed[g] \/ state[g] \in {"saving", "deleting"})]
  /\ acked' = acked \cup (dirty[h] \cap rows)
  /\ dirty' = [dirty EXCEPT ![h] = {}]
  /\ state' = [state EXCEPT ![h] = "open"]
  /\ UNCHANGED <<rows, docs, kind, todo, deleted, owed, upset>>

\* Mutant: a caller drops the handle without a flush.
CloseUnflushed(h) ==
  /\ state[h] = "open"
  /\ state' = [state EXCEPT ![h] = "closed"]
  /\ docs' = [docs EXCEPT ![h] = {}]
  /\ kind' = [kind EXCEPT ![h] = "none"]
  /\ dirty' = [dirty EXCEPT ![h] = {}]
  /\ UNCHANGED <<rows, json, todo, mixed, historyVars>>

\* The handle is dropped; every caller flushes before it drops.
Close(h) ==
  /\ state[h] = "open" /\ dirty[h] = {}
  /\ state' = [state EXCEPT ![h] = "closed"]
  /\ docs' = [docs EXCEPT ![h] = {}]
  /\ kind' = [kind EXCEPT ![h] = "none"]
  /\ UNCHANGED <<rows, json, todo, dirty, mixed, historyVars>>

\* The process dies, or an error ends an open half-way.
Crash(h) ==
  /\ Active(h)
  /\ state' = [state EXCEPT ![h] = "closed"]
  /\ docs' = [docs EXCEPT ![h] = {}]
  /\ kind' = [kind EXCEPT ![h] = "none"]
  /\ todo' = [todo EXCEPT ![h] = {}]
  /\ dirty' = [dirty EXCEPT ![h] = {}]
  /\ mixed' = [mixed EXCEPT ![h] = FALSE]
  /\ owed' = [owed EXCEPT ![h] = {}]
  /\ Happened(Interruption)
  /\ UNCHANGED <<rows, json, acked, deleted>>

\* What DrawerStore::delete_by_source deletes.
RowsFrom(src) == {id \in Ids : SourceOf[id] = src}

\* The MCP tool delete_by_source works on the table alone, and only when
\* the JSON file exists.
PurgeSource(src) ==
  LET gone == RowsFrom(src)
  IN  /\ json.kind # "absent"
      /\ rows' = rows \ gone
      /\ acked' = acked \ gone
      /\ owed' = [h \in Handles |-> owed[h] \ gone]
      /\ Happened(Divergence)
      /\ UNCHANGED <<json, handleVars, deleted>>

Next ==
  \/ \E h \in Handles :
       \/ OpenStore(h)
       \/ LoadStore(h)
       \/ OpenEmptyStore(h)
       \/ FindEmptyStore(h)
       \/ OpenFallback(h)
       \/ OpenForSearch(h)
       \/ StartMigration(h)
       \/ MigrateBatch(h)
       \/ IgnoreMigrationError(h)
       \/ FinishMigration(h)
       \/ \E id \in Ids : Add(h, id) \/ BeginDelete(h, id)
       \/ BeginFlush(h)
       \/ EndSave(h)
       \/ Close(h)
       \/ Crash(h)
  \/ \E src \in Sources : PurgeSource(src)

Spec == Init /\ [][Next]_vars

-----------------------------------------------------------------------------
(***************************************************************************)
(* Properties.                                                             *)
(***************************************************************************)
Saving(h) == state[h] \in {"saving", "deleting"}

\* Once an add is acknowledged and its row is in, every handle that later
\* opens through the store serves that drawer until it is deleted or its
\* source is purged, whatever stale handles have written to the JSON file,
\* whatever crashed, and however a migration interleaved.  Except: a handle
\* that found neither rows nor a file to migrate serves nothing, what is
\* acknowledged while it looks included.
AckedDrawersAreServed ==
  [][\A h \in Handles :
       /\ state[h] \in {"closed", "counted", "checked", "migrating"}
       /\ state'[h] = "open"
       /\ kind'[h] = "store"
       => acked \subseteq docs'[h]]_vars

\* A migration all of whose batches succeed loses nothing: every drawer it read
\* from the JSON file, and that no purge removed meanwhile, is in the table,
\* whatever other handles migrate, add, save and delete at the same time.
MigrationIsLossless ==
  [][\A h \in Handles :
       state[h] = "migrating" /\ todo[h] = {} /\ state'[h] = "open"
       => owed[h] \subseteq rows']_vars

\* The JSON file is unreadable only while some handle is saving, or after a
\* crash or an overlap of two handles.
TornOnlyByAccident ==
  json.kind = "torn" =>
    (\E h \in Handles : Saving(h)) \/ upset = Interruption

\* In serial use without accidents the two views of the palace agree at
\* rest: what PalaceDb::open loads is what the search path loads.
ViewsAgreeAtRest ==
  upset = Nothing /\ (\A h \in Handles : ~Active(h)) /\ rows # {} =>
    json.kind = "map" /\ json.docs = rows

\* What the MCP tool promises (mcp_server.rs:940, website mcp-tools.md:140):
\* "Delete a drawer by ID. Irreversible."  Once the deletion is
\* acknowledged, PalaceDb::open does not serve the drawer again unless it is
\* added again.
DeleteIsIrreversible ==
  [][\A h \in Handles :
       state[h] \in {"closed", "counted", "empty"} /\ state'[h] = "open" /\ upset <= Deletion
       => docs'[h] \cap deleted = {}]_vars
=============================================================================
