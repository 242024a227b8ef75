---------------------------- MODULE ShardedIndex ----------------------------
(***************************************************************************)
(* The sharded persistence of the vector index                             *)
(* (palace/store/usearch_sqlite.rs, flush_sharded and try_load_sharded).   *)
(* A flush takes the generation after the highest that has a manifest,     *)
(* writes its shards one by one, each in place, and at last the manifest   *)
(* that lists them.  A load takes the highest manifest, refuses it if its  *)
(* dimension is not the one expected, and reads the shards it lists.       *)
(* Nothing is ever removed but the shards of a flush that fails, and no    *)
(* lock covers the files: flushes of several stores overlap, and may even  *)
(* take the same generation.                                               *)
(*                                                                         *)
(* Every flush saves a version of the index of its own: its number.  A     *)
(* shard is known by the version it is a piece of, and a manifest by the   *)
(* version whose shards it lists; its generation determines their names.   *)
(***************************************************************************)
EXTENDS Integers

CONSTANTS
  Flushers,    \* stores that flush, in one process or several
  Loaders,     \* processes that load
  MaxFlush,    \* bound on the flushes begun, and so on the generations
  MaxShards,   \* the most shards an index is cut into
  Width,       \* how many shards each version is cut into
  Readable     \* the versions flushed with the dimension that loads expect:
               \* not with the 0 of flush_sharded_async

ASSUME IndexAssumption ==
  /\ MaxFlush \in Nat /\ MaxShards \in Nat
  /\ Width \in [1..MaxFlush -> 1..MaxShards]
  /\ Readable \subseteq 1..MaxFlush

VARIABLES
  shard,     \* files: shard[generation][number]
  manifest,  \* files: manifest[generation]
  started,   \* flushes begun
  flush,     \* the flush of each store
  load,      \* the load of each process
  got,       \* what each process's last load returned
  shared,    \* history: generations that two flushes in flight have taken
  current,   \* history: the last version that loads have come to return
  seen       \* history: what the highest generation and the one a process is
             \* loading have held since its load began; {} between loads

files == <<shard, manifest>>
vars  == <<shard, manifest, started, flush, load, got, shared, current, seen>>

Versions == 1..MaxFlush
Absent  == 0   \* no such file
Torn    == -1  \* created or truncated, and not written to its end
Garbage == -2  \* bytes that are no version of the index
Mixed   == -3  \* whatever two flushes into one generation make of it

Flush == [at : {"idle", "create", "write", "manifest", "commit"},
          gen : 0..MaxFlush, version : 0..MaxFlush, seq : 0..MaxShards]
Load  == [at : {"idle", "scanned", "reading"},
          gen : 0..MaxFlush, count : 0..MaxShards, seq : 0..MaxShards,
          buffer : Versions \cup {Absent, Torn, Garbage}]

NoFlush == [at |-> "idle", gen |-> 0, version |-> 0, seq |-> 0]
NoLoad  == [at |-> "idle", gen |-> 0, count |-> 0, seq |-> 0, buffer |-> Absent]

TypeOK ==
  /\ shard \in [Versions -> [1..MaxShards -> Versions \cup {Absent, Torn}]]
  /\ manifest \in [Versions -> Versions \cup {Absent, Torn}]
  /\ started \in 0..MaxFlush
  /\ flush \in [Flushers -> Flush]
  /\ load \in [Loaders -> Load]
  /\ got \in [Loaders -> Versions \cup {Absent, Torn, Garbage}]
  /\ shared \subseteq Versions
  /\ current \in 0..MaxFlush
  /\ seen \in [Loaders -> SUBSET (Versions \cup {Absent, Torn, Mixed})]

Init ==
  /\ shard = [g \in Versions |-> [s \in 1..MaxShards |-> Absent]]
  /\ manifest = [g \in Versions |-> Absent]
  /\ started = 0
  /\ flush = [w \in Flushers |-> NoFlush]
  /\ load = [r \in Loaders |-> NoLoad]
  /\ got = [r \in Loaders |-> Absent]
  /\ shared = {}
  /\ current = 0
  /\ seen = [r \in Loaders |-> {}]

-----------------------------------------------------------------------------
\* The highest generation with a manifest, whole or torn; 0 without one.
HasTop(m, g) == /\ g # 0 => m[g] # Absent
                /\ \A k \in Versions : k > g => m[k] = Absent
Top == CHOOSE g \in 0..MaxFlush : HasTop(manifest, g)

\* What a load returns that begins and ends now and finds generation g.
Content(g) ==
  IF g = 0 THEN Absent
  ELSE IF g \in shared THEN Mixed
  ELSE IF manifest[g] \in Readable THEN manifest[g] ELSE Torn

Value == Content(Top)

\* The manifest of generation g has changed: the loads under way live to see it
\* if it is the highest one, or the one they have found.
Observe(g) ==
  LET now == [h \in 0..MaxFlush |-> Content(h)']
  IN  seen' = [r \in Loaders |->
                 IF load[r].at = "idle" THEN {}
                 ELSE IF Top' = g \/ load[r].gen = g THEN seen[r] \cup {now[g]}
                 ELSE seen[r]]

\* One file operation of store w has succeeded, the next is at.
GoTo(w, at) == flush' = [flush EXCEPT ![w].at = at]
EndFlush(w) == flush' = [flush EXCEPT ![w] = NoFlush]

\* Content written through a handle opened with truncation: nothing if the file
\* has been removed since, and perhaps a mixture if another flush wrote to it.
Landed(old, new) ==
  IF old = Absent THEN {Absent} ELSE IF old = Torn THEN {new} ELSE {new, Torn}

-----------------------------------------------------------------------------
(***************************************************************************)
(* flush_sharded.                                                          *)
(***************************************************************************)

\* Mutant: the next generation is the highest one itself.
TakeTop == IF Top = 0 THEN 1 ELSE Top

\* max(existing) + 1.
NextGeneration == Top + 1

\* The scan for the highest manifest, and the serialisation.
BeginFlush(w) ==
  /\ flush[w].at = "idle"
  /\ started < MaxFlush
  /\ started' = started + 1
  /\ \/ /\ \E u \in Flushers : flush[u].at # "idle" /\ flush[u].gen = NextGeneration
        /\ shared' = shared \cup {NextGeneration}
     \/ /\ \A u \in Flushers : flush[u].at # "idle" => flush[u].gen # NextGeneration
        /\ shared' = shared \ {NextGeneration}
  /\ flush' = [flush EXCEPT ![w] = [at |-> "create", gen |-> NextGeneration,
                                    version |-> started + 1, seq |-> 1]]
  /\ UNCHANGED <<files, load, got, current, seen>>

CreateShard(w) ==
  LET f == flush[w]
  IN  /\ f.at = "create"
      /\ shard' = [shard EXCEPT ![f.gen][f.seq] = Torn]
      /\ GoTo(w, "write")
      /\ UNCHANGED <<manifest, started, load, got, shared, current, seen>>

\* Mutant: one shard too many.
WritePastEnd(w) ==
  LET f == flush[w]
  IN  /\ f.at = "write"
      /\ \E c \in Landed(shard[f.gen][f.seq], f.version) :
           shard' = [shard EXCEPT ![f.gen][f.seq] = c]
      /\ IF f.seq > Width[f.version]
           THEN GoTo(w, "manifest")
           ELSE flush' = [flush EXCEPT ![w].at = "create", ![w].seq = @ + 1]
      /\ UNCHANGED <<manifest, started, load, got, shared, current, seen>>

\* Mutant: the manifest is published after the first shard.
WriteFirstShard(w) ==
  LET f == flush[w]
  IN  /\ f.at = "write"
      /\ \E c \in Landed(shard[f.gen][f.seq], f.version) :
           shard' = [shard EXCEPT ![f.gen][f.seq] = c]
      /\ GoTo(w, "manifest")
      /\ UNCHANGED <<manifest, started, load, got, shared, current, seen>>

\* write_all and sync_all, then the next shard or the manifest.
WriteShard(w) ==
  LET f == flush[w]
  IN  /\ f.at = "write"
      /\ \E c \in Landed(shard[f.gen][f.seq], f.version) :
           shard' = [shard EXCEPT ![f.gen][f.seq] = c]
      /\ IF f.seq = Width[f.version]
           THEN GoTo(w, "manifest")
           ELSE flush' = [flush EXCEPT ![w].at = "create", ![w].seq = @ + 1]
      /\ UNCHANGED <<manifest, started, load, got, shared, current, seen>>

\* The rollback removes the shards below number n.  A removal may fail, unnoticed,
\* and the process may die before the last one.
RollBack(g, n) ==
  \E kept \in SUBSET (1..MaxShards) :
    shard' = [shard EXCEPT ![g] =
               [s \in 1..MaxShards |-> IF s < n /\ s \notin kept THEN Absent ELSE shard[g][s]]]

\* The shard that cannot be written stays as it is: it is not on the list yet.
FailShard(w) ==
  LET f == flush[w]
  IN  /\ f.at \in {"create", "write"}
      /\ RollBack(f.gen, f.seq)
      /\ EndFlush(w)
      /\ UNCHANGED <<manifest, started, load, got, shared, current, seen>>

\* fs::write truncates first ...
CreateManifest(w) ==
  LET f == flush[w]
  IN  /\ f.at = "manifest"
      /\ manifest' = [manifest EXCEPT ![f.gen] = Torn]
      /\ GoTo(w, "commit")
      /\ UNCHANGED <<shard, started, load, got, shared, current>>
      /\ Observe(f.gen)

\* ... and writes then.  With this the flush has succeeded, though a later one
\* may have published a higher generation before.
WriteManifest(w) ==
  LET f == flush[w]
  IN  /\ f.at = "commit"
      /\ \E c \in Landed(manifest[f.gen], f.version) :
           manifest' = [manifest EXCEPT ![f.gen] = c]
      /\ EndFlush(w)
      /\ UNCHANGED <<shard, started, load, got, shared>>
      /\ current' = IF Value' = Value THEN current ELSE f.version
      /\ Observe(f.gen)

\* The shards are removed, the manifest stays as it is.
FailManifest(w) ==
  LET f == flush[w]
  IN  /\ f.at \in {"manifest", "commit"}
      /\ RollBack(f.gen, Width[f.version] + 1)
      /\ EndFlush(w)
      /\ UNCHANGED <<manifest, started, load, got, shared, current, seen>>

\* The process dies between two file operations.
Crash(w) ==
  /\ flush[w].at # "idle"
  /\ EndFlush(w)
  /\ UNCHANGED <<files, started, load, got, shared, current, seen>>

-----------------------------------------------------------------------------
(***************************************************************************)
(* try_load_sharded.                                                       *)
(***************************************************************************)

Return(r, v) ==
  /\ got' = [got EXCEPT ![r] = v]
  /\ load' = [load EXCEPT ![r] = NoLoad]
  /\ seen' = [seen EXCEPT ![r] = {}]
  /\ UNCHANGED <<files, started, flush, shared, current>>

\* The names in the directory: the highest manifest is remembered by its path.
Scan(r) ==
  /\ load[r].at = "idle"
  /\ load' = [load EXCEPT ![r] = [@ EXCEPT !.at = "scanned", !.gen = Top]]
  /\ seen' = [seen EXCEPT ![r] = {Value}]
  /\ UNCHANGED <<files, started, flush, got, shared, current>>

\* Nothing without a manifest, an error if it cannot be parsed or has another
\* dimension.
ReadManifest(r) ==
  LET g == load[r].gen
  IN  /\ load[r].at = "scanned"
      /\ \/ g = 0 /\ Return(r, Absent)
         \/ g # 0 /\ manifest[g] \notin Readable /\ Return(r, Torn)
         \/ /\ g # 0 /\ manifest[g] \in Readable
            /\ load' = [load EXCEPT ![r].at = "reading", ![r].count = Width[manifest[g]],
                                    ![r].seq = 1]
            /\ UNCHANGED <<files, started, flush, got, shared, current, seen>>

\* The pieces so far and the next one: nothing compares them.
Joined(l, piece) ==
  IF piece # Torn /\ (l.seq = 1 \/ l.buffer = piece) THEN piece ELSE Garbage

\* A missing shard is an error, any other is appended; the last one completes
\* the buffer, which is a version if it has all of its pieces.
ReadShard(r) ==
  LET l     == load[r]
      piece == shard[l.gen][l.seq]
      all   == Joined(l, piece)
  IN  /\ l.at = "reading"
      /\ \/ piece = Absent /\ Return(r, Torn)
         \/ /\ piece # Absent /\ l.seq = l.count
            /\ Return(r, IF all \in Versions /\ Width[all] = l.count THEN all ELSE Garbage)
         \/ /\ piece # Absent /\ l.seq # l.count
            /\ load' = [load EXCEPT ![r].seq = @ + 1, ![r].buffer = all]
            /\ UNCHANGED <<files, started, flush, got, shared, current, seen>>

-----------------------------------------------------------------------------
Next ==
  \/ \E w \in Flushers :
       \/ BeginFlush(w) \/ CreateShard(w) \/ WriteShard(w) \/ FailShard(w)
       \/ CreateManifest(w) \/ WriteManifest(w) \/ FailManifest(w) \/ Crash(w)
  \/ \E r \in Loaders : Scan(r) \/ ReadManifest(r) \/ ReadShard(r)

Spec == Init /\ [][Next]_vars

-----------------------------------------------------------------------------
(***************************************************************************)
(* Properties.                                                             *)
(***************************************************************************)

\* A generation that has been published stays whole: whatever later flushes
\* write, leave behind or roll back, and however flushes overlap, the shards
\* its manifest lists are there and are pieces of its version (the atomicity
\* boundary, usearch_sqlite.rs:469).  Only flushes that have taken the same
\* generation, as max + 1 lets them (usearch_sqlite.rs:396), spoil it for each
\* other.
PublishedIsWhole ==
  \A g \in Versions \ shared : manifest[g] \in Versions =>
    \A s \in 1..Width[manifest[g]] : shard[g][s] = manifest[g]

\* The files implement a register: versions are published in order, and every
\* load, however long it takes, returns what the register held meanwhile, or
\* fails because a flush was publishing, had been cut short at it or had another
\* dimension (usearch_sqlite.rs:390, 491, 527).
Register == INSTANCE IndexRegister WITH value <- Value
ImplementsRegister == Register!Spec
=============================================================================
