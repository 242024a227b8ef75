------------------------- MODULE ShardedIndexProofs -------------------------
(***************************************************************************)
(* Theorems about ShardedIndex, for any number of stores whose flushes     *)
(* overlap as they like: types, that published generations stay whole, and *)
(* that the files implement a register.                                    *)
(***************************************************************************)
EXTENDS ShardedIndex, TLAPS

\* Where a flush and a load can be.
Bounded ==
  /\ \E g \in 0..started : HasTop(manifest, g)
  /\ \A w \in Flushers : flush[w].at # "idle" =>
       /\ flush[w].gen \in 1..started
       /\ flush[w].version \in 1..started
       /\ flush[w].seq \in 1..Width[flush[w].version]
  /\ \A r \in Loaders :
       /\ load[r].at # "idle" /\ load[r].gen # 0 => manifest[load[r].gen] # Absent
       /\ load[r].at = "reading" => load[r].gen # 0 /\ load[r].seq \in 1..load[r].count

\* A generation that two flushes are at is known to be shared.
Claimed ==
  \A u, w \in Flushers :
    u # w /\ flush[u].at # "idle" /\ flush[w].at # "idle" /\ flush[u].gen = flush[w].gen
      => flush[u].gen \in shared

\* Flushes work at most one generation above the highest manifest, and those
\* that can still publish it have a later version than the last one.
Ranked ==
  /\ current <= started
  /\ \A w \in Flushers : flush[w].at # "idle" =>
       /\ flush[w].gen <= Top + 1
       /\ flush[w].gen >= Top => flush[w].version > current
  /\ \A u, w \in Flushers :
       flush[u].at # "idle" /\ flush[w].at # "idle" /\ flush[u].gen < flush[w].gen
         => flush[u].version < flush[w].version

\* The generation of a flush that does not share it has no manifest, or at the
\* end a torn one, and the shards written so far are those of its version.
Proper(w) ==
  LET f == flush[w]
  IN  f.at # "idle" /\ f.gen \notin shared =>
        /\ f.at \in {"create", "write", "manifest"} => manifest[f.gen] = Absent
        /\ f.at = "commit" => manifest[f.gen] = Torn
        /\ f.at \in {"create", "write"} => \A s \in 1..MaxShards : s < f.seq => shard[f.gen][s] = f.version
        /\ f.at = "write" => shard[f.gen][f.seq] = Torn
        /\ f.at \in {"manifest", "commit"} => \A s \in 1..Width[f.version] : shard[f.gen][s] = f.version

\* What a load is going to return has been the value since it began.
Witnessed ==
  \A r \in Loaders :
    /\ load[r].at = "idle" <=> seen[r] = {}
    /\ load[r].at # "idle" => Content(load[r].gen) \in seen[r]
    /\ load[r].at = "reading" /\ load[r].gen \notin shared =>
         /\ manifest[load[r].gen] \in Readable
         /\ load[r].count = Width[manifest[load[r].gen]]
         /\ load[r].seq > 1 => load[r].buffer = manifest[load[r].gen]

Safe == Claimed /\ Ranked /\ (\A w \in Flushers : Proper(w)) /\ PublishedIsWhole /\ Witnessed

IndexInv == TypeOK /\ Bounded /\ Safe

-----------------------------------------------------------------------------
(***************************************************************************)
(* The highest generation.                                                 *)
(***************************************************************************)

\* At most one generation is the highest.
LEMMA TopUnique ==
  ASSUME NEW m, NEW g \in 0..MaxFlush, NEW h \in 0..MaxFlush, HasTop(m, g), HasTop(m, h)
  PROVE  g = h
BY IndexAssumption DEF HasTop, Versions

\* Top is the highest generation, when there is one.
LEMMA TopIs ==
  ASSUME NEW g \in 0..MaxFlush, HasTop(manifest, g)
  PROVE  Top = g
<1>1. Top \in 0..MaxFlush /\ HasTop(manifest, Top)
  BY DEF Top
<1> QED  BY <1>1, TopUnique

\* The same in the state a step leads to.
LEMMA TopIsNext ==
  ASSUME NEW g \in 0..MaxFlush, HasTop(manifest', g)
  PROVE  Top' = g
<1>1. Top' \in 0..MaxFlush /\ HasTop(manifest', Top')
  BY DEF Top
<1> QED  BY <1>1, TopUnique

\* In every state of the specification Top exists.
LEMMA TopExists ==
  ASSUME TypeOK, Bounded
  PROVE  Top \in 0..started /\ Top \in 0..MaxFlush /\ HasTop(manifest, Top)
<1>1. PICK g \in 0..started : HasTop(manifest, g)
  BY DEF Bounded
<1>2. g \in 0..MaxFlush
  BY IndexAssumption DEF TypeOK
<1> QED  BY <1>1, <1>2, TopIs

\* The value is what the highest generation holds.
LEMMA ValueOf ==
  ASSUME NEW g \in 0..MaxFlush, HasTop(manifest, g)
  PROVE  Value = Content(g)
<1>1. Top = g
  BY TopIs
<1> HIDE DEF Top
<1> QED  BY <1>1 DEF Value

\* The same in the state a step leads to.
LEMMA ValueOfNext ==
  ASSUME NEW g \in 0..MaxFlush, HasTop(manifest', g)
  PROVE  Value' = Content(g)'
<1>1. Top' = g
  BY TopIsNext
<1> HIDE DEF Top
<1> QED  BY <1>1 DEF Value

\* A generation holds a version, nothing, an error or a mixture, and so does the
\* value.
LEMMA ContentType ==
  ASSUME NEW g
  PROVE  /\ Content(g) \in Versions \cup {Absent, Torn, Mixed}
         /\ Content(g)' \in Versions \cup {Absent, Torn, Mixed}
BY IndexAssumption DEF Content, Versions

-----------------------------------------------------------------------------
(***************************************************************************)
(* Types and bounds.                                                       *)
(***************************************************************************)

\* Every version has at least one shard.
LEMMA Widths == ASSUME NEW v \in Versions
                PROVE  Width[v] \in 1..MaxShards /\ 1 \in 1..MaxShards
BY IndexAssumption DEF Versions

\* A shard that is not the last one is followed by another.
LEMMA NextShard ==
  ASSUME NEW n \in 1..MaxShards, NEW s \in 1..n, s # n
  PROVE  s + 1 \in 1..n /\ s + 1 \in 0..MaxShards
BY IndexAssumption

\* The shards below the next number are those below this one, and this one.
LEMMA Below ==
  ASSUME NEW s \in 1..MaxShards, NEW q \in 1..MaxShards, q < s + 1
  PROVE  q < s \/ q = s
OBVIOUS

\* No version is one of the marks, and only versions are readable.
LEMMA Marks ==
  /\ Readable \subseteq Versions
  /\ Absent \notin Versions /\ Torn \notin Versions
  /\ Absent \notin Readable /\ Torn \notin Readable
BY IndexAssumption DEF Versions, Absent, Torn

\* What every step of a flush does to types: a shard or a manifest is written
\* within its bounds, and the flush goes on within its own.
LEMMA FlushStep ==
  ASSUME TypeOK, Bounded, NEW w \in Flushers, flush[w].at # "idle"
  PROVE  LET f == flush[w]
         IN  /\ f.gen \in Versions /\ f.gen \in 0..started /\ f.version \in Versions
             /\ f.seq \in 1..MaxShards /\ f.seq \in 1..Width[f.version]
             /\ Width[f.version] \in 1..MaxShards
<1>1. flush[w].gen \in 1..started /\ flush[w].version \in 1..started /\ started \in 0..MaxFlush
  BY DEF Bounded, TypeOK
<1>2. flush[w].gen \in Versions /\ flush[w].version \in Versions /\ flush[w].gen \in 0..started
  BY <1>1, IndexAssumption DEF Versions
<1>3. Width[flush[w].version] \in 1..MaxShards
  BY <1>2, Widths
<1>4. flush[w].seq \in 1..Width[flush[w].version]
  BY DEF Bounded
<1>5. flush[w].seq \in 1..MaxShards
  BY <1>3, <1>4, IndexAssumption
<1> QED  BY <1>2, <1>3, <1>4, <1>5

\* Steps that leave manifests and loads alone keep the bounds if the flushes do.
LEMMA BoundedKept ==
  ASSUME Bounded, UNCHANGED <<manifest, load>>, started \in Nat, started' \in Nat, started <= started',
         \A w \in Flushers : flush'[w].at # "idle" =>
           /\ flush'[w].gen \in 1..started' /\ flush'[w].version \in 1..started'
           /\ flush'[w].seq \in 1..Width[flush'[w].version]
  PROVE  Bounded'
<1>1. PICK g \in 0..started : HasTop(manifest, g)
  BY DEF Bounded
<1>2. g \in 0..started' /\ HasTop(manifest', g)
  BY <1>1 DEF HasTop
<1> QED  BY <1>2 DEF Bounded

\* The end of a flush keeps types and bounds.
LEMMA EndKept ==
  ASSUME TypeOK, Bounded, NEW w \in Flushers, EndFlush(w)
  PROVE  /\ flush' \in [Flushers -> Flush]
         /\ \A u \in Flushers : flush'[u].at # "idle" => flush'[u] = flush[u]
<1>1. NoFlush \in Flush /\ NoFlush.at = "idle"
  BY IndexAssumption DEF NoFlush, Flush
<1> QED  BY <1>1 DEF EndFlush, TypeOK

\* Going on to another kind of operation does.
LEMMA GoToKept ==
  ASSUME TypeOK, NEW w \in Flushers, NEW a \in {"create", "write", "manifest", "commit"}, GoTo(w, a)
  PROVE  /\ flush' \in [Flushers -> Flush]
         /\ flush'[w].at = a /\ flush'[w].gen = flush[w].gen
         /\ flush'[w].version = flush[w].version /\ flush'[w].seq = flush[w].seq
         /\ \A u \in Flushers : u # w => flush'[u] = flush[u]
BY DEF GoTo, TypeOK, Flush

\* Rolling back leaves files or none.
LEMMA RollBackType ==
  ASSUME TypeOK, NEW g \in Versions, NEW n \in Nat, RollBack(g, n)
  PROVE  /\ shard' \in [Versions -> [1..MaxShards -> Versions \cup {Absent, Torn}]]
         /\ \A k \in Versions : k # g => shard'[k] = shard[k]
<1>1. PICK kept \in SUBSET (1..MaxShards) :
        shard' = [shard EXCEPT ![g] =
                   [s \in 1..MaxShards |-> IF s < n /\ s \notin kept THEN Absent ELSE shard[g][s]]]
  BY DEF RollBack
<1>2. [s \in 1..MaxShards |-> IF s < n /\ s \notin kept THEN Absent ELSE shard[g][s]]
        \in [1..MaxShards -> Versions \cup {Absent, Torn}]
  <2>1. shard[g] \in [1..MaxShards -> Versions \cup {Absent, Torn}]
    BY DEF TypeOK
  <2> QED  BY <2>1
<1> QED  BY <1>1, <1>2 DEF TypeOK

\* Writing a shard in its place.
LEMMA ShardType ==
  ASSUME TypeOK, NEW g \in Versions, NEW n \in 1..MaxShards, NEW c \in Versions \cup {Absent, Torn},
         shard' = [shard EXCEPT ![g][n] = c]
  PROVE  /\ shard' \in [Versions -> [1..MaxShards -> Versions \cup {Absent, Torn}]]
         /\ \A k \in Versions : k # g => shard'[k] = shard[k]
         /\ shard'[g][n] = c
         /\ \A s \in 1..MaxShards : s # n => shard'[g][s] = shard[g][s]
BY DEF TypeOK

\* What loads see of a change of the manifest of flush w.
LEMMA Observed ==
  ASSUME NEW w \in Flushers, NEW g \in 0..MaxFlush, g = flush[w].gen, Observe(flush[w].gen)
  PROVE  seen' = [r \in Loaders |->
                    IF load[r].at = "idle" THEN {}
                    ELSE IF Top' = g \/ load[r].gen = g THEN seen[r] \cup {Content(g)'}
                    ELSE seen[r]]
<1> DEFINE now == [h \in 0..MaxFlush |-> Content(h)']
<1>1. now[g] = Content(g)'
  OBVIOUS
<1>2. seen' = [r \in Loaders |->
                 IF load[r].at = "idle" THEN {}
                 ELSE IF Top' = g \/ load[r].gen = g THEN seen[r] \cup {now[g]}
                 ELSE seen[r]]
  BY DEF Observe
<1> HIDE DEF now
<1> QED  BY <1>1, <1>2

\* What those who watch see is a value.
LEMMA ObserveType ==
  ASSUME TypeOK, NEW w \in Flushers, NEW g \in 0..MaxFlush, g = flush[w].gen, Observe(flush[w].gen)
  PROVE  seen' \in [Loaders -> SUBSET (Versions \cup {Absent, Torn, Mixed})]
<1>1. Content(g)' \in Versions \cup {Absent, Torn, Mixed}
  BY ContentType
<1>2. \A r \in Loaders : seen[r] \subseteq Versions \cup {Absent, Torn, Mixed}
  BY DEF TypeOK
<1> QED  BY <1>1, <1>2, Observed

\* Whoever flushes and loads, and whenever they die, types and bounds hold.
LEMMA TypeStep ==
  TypeOK /\ Bounded /\ [Next]_vars => TypeOK' /\ Bounded'
<1> SUFFICES ASSUME TypeOK, Bounded, [Next]_vars PROVE TypeOK' /\ Bounded'
  OBVIOUS
<1> USE IndexAssumption
<1>0. started \in 0..MaxFlush /\ started \in Nat
  BY DEF TypeOK
<1>1. ASSUME NEW w \in Flushers, BeginFlush(w) PROVE TypeOK' /\ Bounded'
  <2>1. started + 1 \in Versions /\ started' = started + 1
    BY <1>0, <1>1 DEF BeginFlush, Versions
  <2>2. Top + 1 \in 1..(started + 1) /\ 1 \in 1..Width[started + 1] /\ 1 \in 1..MaxShards
    BY <1>0, <2>1, TopExists, Widths
  <2>3. flush' = [flush EXCEPT ![w] = [at |-> "create", gen |-> Top + 1, version |-> started + 1, seq |-> 1]]
    BY <1>1 DEF BeginFlush, NextGeneration
  <2>4. flush' \in [Flushers -> Flush]
    <3>1. [at |-> "create", gen |-> Top + 1, version |-> started + 1, seq |-> 1] \in Flush
      BY <1>0, <2>1, <2>2 DEF Flush, Versions
    <3> QED  BY <2>3, <3>1 DEF TypeOK
  <2>5. TypeOK'
    <3>1. NextGeneration \in Versions
      BY <1>0, <2>1, <2>2 DEF NextGeneration, Versions
    <3>2. shared' \subseteq Versions
      BY <1>1, <3>1 DEF BeginFlush, TypeOK
    <3> QED  BY <1>1, <2>1, <2>4, <3>2 DEF BeginFlush, TypeOK, files, Versions
  <2>6. ASSUME NEW u \in Flushers, flush'[u].at # "idle"
        PROVE  /\ flush'[u].gen \in 1..started' /\ flush'[u].version \in 1..started'
               /\ flush'[u].seq \in 1..Width[flush'[u].version]
    <3>1. CASE u = w
      BY <1>0, <2>1, <2>2, <2>3, <3>1 DEF TypeOK
    <3>2. CASE u # w
      BY <1>0, <2>1, <2>3, <2>6, <3>2 DEF Bounded, TypeOK
    <3> QED  BY <3>1, <3>2
  <2>7. UNCHANGED <<manifest, load>>
    BY <1>1 DEF BeginFlush, files
  <2> QED  BY <1>0, <2>1, <2>5, <2>6, <2>7, BoundedKept
<1>2. ASSUME NEW w \in Flushers, CreateShard(w) PROVE TypeOK' /\ Bounded'
  <2>1. flush[w].at # "idle" /\ GoTo(w, "write") /\ UNCHANGED <<manifest, started, load, got, shared, current, seen>>
        /\ shard' = [shard EXCEPT ![flush[w].gen][flush[w].seq] = Torn]
    BY <1>2 DEF CreateShard
  <2>2. shard' \in [Versions -> [1..MaxShards -> Versions \cup {Absent, Torn}]]
    BY <2>1, FlushStep, ShardType
  <2>3. \A u \in Flushers : flush'[u].at # "idle" =>
           /\ flush'[u].gen \in 1..started' /\ flush'[u].version \in 1..started'
           /\ flush'[u].seq \in 1..Width[flush'[u].version]
    BY <2>1, GoToKept DEF Bounded
  <2> QED  BY <1>0, <2>1, <2>2, <2>3, GoToKept, BoundedKept DEF TypeOK
<1>3. ASSUME NEW w \in Flushers, WriteShard(w) PROVE TypeOK' /\ Bounded'
  <2> DEFINE f == flush[w]
  <2>1. f.at = "write" /\ UNCHANGED <<manifest, started, load, got, shared, current, seen>>
    BY <1>3 DEF WriteShard
  <2>2. PICK c \in Landed(shard[f.gen][f.seq], f.version) : shard' = [shard EXCEPT ![f.gen][f.seq] = c]
    BY <1>3 DEF WriteShard
  <2>3. c \in Versions \cup {Absent, Torn}
    BY <2>1, FlushStep DEF Landed
  <2>4. shard' \in [Versions -> [1..MaxShards -> Versions \cup {Absent, Torn}]]
    BY <2>1, <2>2, <2>3, FlushStep, ShardType
  <2>5. CASE f.seq = Width[f.version] /\ GoTo(w, "manifest")
    <3>1. \A u \in Flushers : flush'[u].at # "idle" =>
             /\ flush'[u].gen \in 1..started' /\ flush'[u].version \in 1..started'
             /\ flush'[u].seq \in 1..Width[flush'[u].version]
      BY <2>1, <2>5, GoToKept DEF Bounded
    <3> QED  BY <1>0, <2>1, <2>4, <2>5, <3>1, GoToKept, BoundedKept DEF TypeOK
  <2>6. CASE f.seq # Width[f.version] /\ flush' = [flush EXCEPT ![w].at = "create", ![w].seq = @ + 1]
    <3>1. f.seq + 1 \in 1..Width[f.version] /\ f.seq + 1 \in 0..MaxShards
      <4>1. f.seq \in 1..Width[f.version] /\ Width[f.version] \in 1..MaxShards
        BY <2>1, FlushStep
      <4> HIDE DEF f
      <4> QED  BY <2>6, <4>1, NextShard
    <3>2. /\ flush' \in [Flushers -> Flush]
          /\ flush'[w].gen = f.gen /\ flush'[w].version = f.version /\ flush'[w].seq = f.seq + 1
          /\ \A u \in Flushers : u # w => flush'[u] = flush[u]
      BY <2>6, <3>1 DEF TypeOK, Flush
    <3>3. \A u \in Flushers : flush'[u].at # "idle" =>
             /\ flush'[u].gen \in 1..started' /\ flush'[u].version \in 1..started'
             /\ flush'[u].seq \in 1..Width[flush'[u].version]
      BY <2>1, <3>1, <3>2 DEF Bounded
    <3> QED  BY <1>0, <2>1, <2>4, <3>2, <3>3, BoundedKept DEF TypeOK
  <2> QED  BY <1>3, <2>5, <2>6 DEF WriteShard
<1>4. ASSUME NEW w \in Flushers, FailShard(w) \/ FailManifest(w) PROVE TypeOK' /\ Bounded'
  <2> DEFINE f == flush[w]
  <2>1. /\ f.at # "idle" /\ EndFlush(w) /\ UNCHANGED <<manifest, started, load, got, shared, current, seen>>
        /\ RollBack(f.gen, f.seq) \/ RollBack(f.gen, Width[f.version] + 1)
    BY <1>4 DEF FailShard, FailManifest
  <2>2. f.gen \in Versions /\ f.seq \in Nat /\ Width[f.version] + 1 \in Nat
    BY <2>1, FlushStep
  <2>3. shard' \in [Versions -> [1..MaxShards -> Versions \cup {Absent, Torn}]]
    BY <2>1, <2>2, RollBackType
  <2>4. \A u \in Flushers : flush'[u].at # "idle" =>
           /\ flush'[u].gen \in 1..started' /\ flush'[u].version \in 1..started'
           /\ flush'[u].seq \in 1..Width[flush'[u].version]
    BY <2>1, EndKept DEF Bounded
  <2> QED  BY <1>0, <2>1, <2>3, <2>4, EndKept, BoundedKept DEF TypeOK
<1>5. ASSUME NEW w \in Flushers, CreateManifest(w) PROVE TypeOK' /\ Bounded'
  <2> DEFINE f == flush[w]
  <2>1. /\ f.at # "idle" /\ GoTo(w, "commit") /\ UNCHANGED <<shard, started, load, got, shared, current>> /\ Observe(f.gen)
        /\ manifest' = [manifest EXCEPT ![f.gen] = Torn]
    BY <1>5 DEF CreateManifest
  <2>2. f.gen \in Versions /\ f.gen \in 0..started
    BY <2>1, FlushStep
  <2>3. manifest' \in [Versions -> Versions \cup {Absent, Torn}]
    BY <2>1, <2>2 DEF TypeOK
  <2>4. \E g \in 0..started : HasTop(manifest', g)
    <3>1. PICK g \in 0..started : HasTop(manifest, g)
      BY DEF Bounded
    <3>2. /\ manifest'[f.gen] = Torn /\ Torn # Absent
          /\ \A k \in Versions : k # f.gen => manifest'[k] = manifest[k]
      BY <2>1, <2>2 DEF TypeOK, Absent, Torn
    <3>3. g \in Nat /\ f.gen \in Nat /\ Versions \subseteq Nat /\ (g # 0 => g \in Versions)
      BY <1>0, <2>2 DEF Versions
    <3>4. CASE g >= f.gen
      <4>1. g # 0 => manifest'[g] # Absent
        BY <3>1, <3>2, <3>3 DEF HasTop
      <4>2. \A k \in Versions : k > g => k # f.gen
        BY <3>3, <3>4
      <4>3. \A k \in Versions : k > g => manifest'[k] = Absent
        BY <3>1, <3>2, <4>2 DEF HasTop
      <4> QED  BY <3>1, <4>1, <4>3 DEF HasTop
    <3>5. CASE g < f.gen
      <4>1. HasTop(manifest', f.gen)
        BY <2>2, <3>1, <3>2, <3>3, <3>5 DEF HasTop
      <4> QED  BY <2>2, <4>1
    <3> QED  BY <3>3, <3>4, <3>5
  <2>5. \A r \in Loaders :
          load'[r].at # "idle" /\ load'[r].gen # 0 => manifest'[load'[r].gen] # Absent
    <3>1. \A r \in Loaders : load[r].gen \in 0..MaxFlush
      BY DEF TypeOK, Load
    <3> QED  BY <2>1, <2>2, <3>1 DEF Bounded, TypeOK, Versions, Absent, Torn
  <2>6. \A u \in Flushers : flush'[u].at # "idle" =>
           /\ flush'[u].gen \in 1..started' /\ flush'[u].version \in 1..started'
           /\ flush'[u].seq \in 1..Width[flush'[u].version]
    BY <2>1, GoToKept DEF Bounded
  <2>7. Bounded'
    BY <2>1, <2>4, <2>5, <2>6 DEF Bounded
  <2>8. seen' \in [Loaders -> SUBSET (Versions \cup {Absent, Torn, Mixed})]
    <3>1. PICK g \in 0..MaxFlush : g = f.gen
      BY <2>2 DEF Versions
    <3> QED  BY <2>1, <3>1, ObserveType
  <2> QED  BY <2>1, <2>3, <2>7, <2>8, GoToKept DEF TypeOK
<1>6. ASSUME NEW w \in Flushers, WriteManifest(w) PROVE TypeOK' /\ Bounded'
  <2> DEFINE f == flush[w]
  <2>1. /\ f.at # "idle" /\ EndFlush(w) /\ UNCHANGED <<shard, started, load, got, shared>>
        /\ Observe(f.gen) /\ current' \in {f.version, current}
    BY <1>6 DEF WriteManifest
  <2>2. PICK c \in Landed(manifest[f.gen], f.version) : manifest' = [manifest EXCEPT ![f.gen] = c]
    BY <1>6 DEF WriteManifest
  <2>3. f.gen \in Versions /\ f.version \in Versions
    BY <2>1, FlushStep
  <2>4. c \in Versions \cup {Absent, Torn} /\ (c = Absent <=> manifest[f.gen] = Absent)
    BY <2>2, <2>3 DEF Landed, Versions, Absent, Torn
  <2>5. /\ manifest' \in [Versions -> Versions \cup {Absent, Torn}]
        /\ \A g \in Versions : manifest'[g] = Absent <=> manifest[g] = Absent
    BY <2>2, <2>3, <2>4 DEF TypeOK
  <2>6. \E g \in 0..started : HasTop(manifest', g)
    <3>1. PICK g \in 0..started : HasTop(manifest, g)
      BY DEF Bounded
    <3>2. g # 0 => g \in Versions
      BY <1>0 DEF Versions
    <3> QED  BY <2>5, <3>1, <3>2 DEF HasTop
  <2>7. \A r \in Loaders :
          load'[r].at # "idle" /\ load'[r].gen # 0 => manifest'[load'[r].gen] # Absent
    <3>1. \A r \in Loaders : load[r].gen \in 0..MaxFlush
      BY DEF TypeOK, Load
    <3> QED  BY <2>1, <2>5, <3>1 DEF Bounded, Versions
  <2>8. \A u \in Flushers : flush'[u].at # "idle" =>
           /\ flush'[u].gen \in 1..started' /\ flush'[u].version \in 1..started'
           /\ flush'[u].seq \in 1..Width[flush'[u].version]
    BY <2>1, EndKept DEF Bounded
  <2>9. Bounded'
    BY <2>1, <2>6, <2>7, <2>8 DEF Bounded
  <2>11. seen' \in [Loaders -> SUBSET (Versions \cup {Absent, Torn, Mixed})]
    <3>1. PICK g \in 0..MaxFlush : g = f.gen
      BY <2>3 DEF Versions
    <3> QED  BY <2>1, <3>1, ObserveType
  <2>12. current' \in 0..MaxFlush /\ flush' \in [Flushers -> Flush]
    <3>1. f.version \in 0..MaxFlush
      BY <2>3 DEF Versions
    <3> QED  BY <2>1, <3>1, EndKept DEF TypeOK
  <2> QED  BY <2>1, <2>5, <2>9, <2>11, <2>12 DEF TypeOK
<1>7. ASSUME NEW w \in Flushers, Crash(w) PROVE TypeOK' /\ Bounded'
  <2>1. /\ EndFlush(w) /\ UNCHANGED <<shard, manifest, started, load, got, shared, current, seen>>
    BY <1>7 DEF Crash, files
  <2>2. \A u \in Flushers : flush'[u].at # "idle" =>
           /\ flush'[u].gen \in 1..started' /\ flush'[u].version \in 1..started'
           /\ flush'[u].seq \in 1..Width[flush'[u].version]
    BY <2>1, EndKept DEF Bounded
  <2> QED  BY <1>0, <2>1, <2>2, EndKept, BoundedKept DEF TypeOK
<1>8. ASSUME NEW r \in Loaders, Scan(r) PROVE TypeOK' /\ Bounded'
  <2>1. /\ load' = [load EXCEPT ![r] = [@ EXCEPT !.at = "scanned", !.gen = Top]]
        /\ seen' = [seen EXCEPT ![r] = {Value}]
        /\ UNCHANGED <<shard, manifest, started, flush, got, shared, current>>
    BY <1>8 DEF Scan, files
  <2>2. /\ Top \in 0..MaxFlush /\ HasTop(manifest, Top)
        /\ Value \in Versions \cup {Absent, Torn, Mixed}
    BY TopExists, ContentType DEF Value
  <2> HIDE DEF Top, Value
  <2>3. /\ load' \in [Loaders -> Load] /\ load'[r].at = "scanned" /\ load'[r].gen = Top
        /\ \A q \in Loaders : q # r => load'[q] = load[q]
    <3>1. [load[r] EXCEPT !.at = "scanned", !.gen = Top] \in Load
      <4>1. load[r] \in Load
        BY DEF TypeOK
      <4>2. Top \in 0..MaxFlush
        BY <2>2
      <4> QED  BY <4>1, <4>2 DEF Load
    <3>2. load' = [load EXCEPT ![r] = [load[r] EXCEPT !.at = "scanned", !.gen = Top]]
      BY <2>1
    <3> HIDE DEF Load
    <3>3. load \in [Loaders -> Load]
      BY DEF TypeOK
    <3>4. load' \in [Loaders -> Load]
      BY <3>1, <3>2, <3>3
    <3>5. load'[r].at = "scanned" /\ load'[r].gen = Top
      BY <3>2, <3>3 DEF Load
    <3> QED  BY <3>2, <3>3, <3>4, <3>5
  <2>4. TypeOK'
    BY <2>1, <2>2, <2>3 DEF TypeOK
  <2>5. Bounded'
    BY <2>1, <2>2, <2>3 DEF Bounded, HasTop
  <2> QED  BY <2>4, <2>5
<1>9. ASSUME NEW r \in Loaders, NEW v \in Versions \cup {Absent, Torn, Garbage}, Return(r, v)
      PROVE  TypeOK' /\ Bounded'
  <2>1. /\ got' = [got EXCEPT ![r] = v] /\ load' = [load EXCEPT ![r] = NoLoad]
        /\ seen' = [seen EXCEPT ![r] = {}] /\ UNCHANGED <<shard, manifest, started, flush, shared, current>>
    BY <1>9 DEF Return, files
  <2>2. NoLoad \in Load /\ NoLoad.at = "idle"
    BY DEF NoLoad, Load
  <2>3. TypeOK'
    BY <2>1, <2>2 DEF TypeOK
  <2>4. Bounded'
    BY <2>1, <2>2 DEF Bounded, TypeOK
  <2> QED  BY <2>3, <2>4
<1>10. ASSUME NEW r \in Loaders, ReadManifest(r) PROVE TypeOK' /\ Bounded'
  <2> DEFINE g == load[r].gen
  <2>1. CASE Return(r, Absent) \/ Return(r, Torn)
    BY <1>9, <2>1
  <2> DEFINE n == Width[manifest[g]]
  <2>2. CASE /\ load[r].at = "scanned" /\ g # 0 /\ manifest[g] \in Readable
             /\ load' = [load EXCEPT ![r].at = "reading", ![r].count = n, ![r].seq = 1]
             /\ UNCHANGED <<files, started, flush, got, shared, current, seen>>
    <3>1. n \in 1..MaxShards /\ 1 \in 1..n /\ 1 \in 0..MaxShards
      BY <2>2, Widths DEF Versions
    <3> HIDE DEF n
    <3>2. /\ load' \in [Loaders -> Load] /\ load'[r].at = "reading"
          /\ load'[r].gen = g /\ load'[r].seq = 1 /\ load'[r].count = n
          /\ \A q \in Loaders : q # r => load'[q] = load[q]
      <4> DEFINE new == [load[r] EXCEPT !.at = "reading", !.count = n, !.seq = 1]
      <4>1. load[r] \in Load /\ n \in 0..MaxShards
        BY <3>1 DEF TypeOK
      <4>2. new \in Load /\ new.at = "reading" /\ new.gen = g /\ new.seq = 1 /\ new.count = n
        BY <3>1, <4>1 DEF Load
      <4>3. load' = [load EXCEPT ![r] = new]
        BY <2>2
      <4> HIDE DEF new
      <4> QED  BY <4>2, <4>3 DEF TypeOK
    <3>3. UNCHANGED <<shard, manifest, started, flush, got, shared, current, seen>>
      BY <2>2 DEF files
    <3>4. TypeOK'
      BY <3>2, <3>3 DEF TypeOK
    <3>5. Bounded'
      BY <2>2, <3>1, <3>2, <3>3 DEF Bounded
    <3> QED  BY <3>4, <3>5
  <2> QED  BY <1>10, <2>1, <2>2 DEF ReadManifest
<1>11. ASSUME NEW r \in Loaders, ReadShard(r) PROVE TypeOK' /\ Bounded'
  <2> DEFINE l     == load[r]
             piece == shard[l.gen][l.seq]
             all   == Joined(l, piece)
  <2>1. /\ l.gen \in Versions /\ l.seq \in 1..l.count /\ l.count \in 0..MaxShards /\ l.seq \in 1..MaxShards
    <3>1. l.at = "reading" /\ l.gen \in 0..MaxFlush /\ l.count \in 0..MaxShards
      BY <1>11 DEF ReadShard, TypeOK, Load
    <3>2. l.gen # 0 /\ l.seq \in 1..l.count
      BY <3>1 DEF Bounded
    <3> QED  BY <3>1, <3>2 DEF Versions
  <2>2. piece \in Versions \cup {Absent, Torn}
    BY <2>1 DEF TypeOK
  <2>3. all \in Versions \cup {Absent, Torn, Garbage}
    BY <2>2 DEF Joined
  <2>4. CASE \/ Return(r, Torn)
             \/ Return(r, IF all \in Versions /\ Width[all] = l.count THEN all ELSE Garbage)
    BY <1>9, <2>3, <2>4
  <2>5. CASE /\ l.at = "reading" /\ l.seq # l.count
             /\ load' = [load EXCEPT ![r].seq = @ + 1, ![r].buffer = all]
             /\ UNCHANGED <<files, started, flush, got, shared, current, seen>>
    <3>1. l.seq + 1 \in 1..l.count /\ l.seq + 1 \in 0..MaxShards
      BY <2>1, <2>5
    <3> HIDE DEF all
    <3>2. /\ load' \in [Loaders -> Load] /\ load'[r].at = "reading"
          /\ load'[r].gen = l.gen /\ load'[r].seq = l.seq + 1 /\ load'[r].count = l.count
          /\ \A q \in Loaders : q # r => load'[q] = load[q]
      BY <2>3, <2>5, <3>1 DEF TypeOK, Load
    <3>3. UNCHANGED <<shard, manifest, started, flush, got, shared, current, seen>>
      BY <2>5 DEF files
    <3>4. TypeOK'
      BY <3>2, <3>3 DEF TypeOK
    <3>5. Bounded'
      BY <2>5, <3>1, <3>2, <3>3 DEF Bounded
    <3> QED  BY <3>4, <3>5
  <2> QED  BY <1>11, <2>4, <2>5 DEF ReadShard
<1>12. CASE UNCHANGED vars
  BY <1>12 DEF vars, TypeOK, Bounded, HasTop
<1> QED
  BY <1>1, <1>2, <1>3, <1>4, <1>5, <1>6, <1>7, <1>8, <1>10, <1>11, <1>12 DEF Next

-----------------------------------------------------------------------------
(***************************************************************************)
(* Published generations stay whole, and the files implement the register. *)
(***************************************************************************)

RegisterStep == Register!Next \/ UNCHANGED <<Value, current, seen, got>>

\* A step of one flush leaves what the others rely on, for they are at other
\* generations, or share theirs.
LEMMA OthersProper ==
  ASSUME TypeOK, Bounded, Claimed, NEW w \in Flushers, flush[w].at # "idle",
         NEW u \in Flushers, u # w, flush'[u] = flush[u], Proper(u), shared' = shared,
         \A k \in Versions \ {flush[w].gen} : shard'[k] = shard[k] /\ manifest'[k] = manifest[k]
  PROVE  Proper(u)'
<1>1. flush[u].at # "idle" /\ flush[u].gen \notin shared => flush[u].gen \in Versions \ {flush[w].gen}
  BY FlushStep DEF Claimed
<1> QED  BY <1>1 DEF Proper

\* The order of the flushes outlives the steps in which one goes on or ends.
LEMMA OrderKept ==
  ASSUME TypeOK, Claimed, Ranked, NEW w \in Flushers, flush[w].at # "idle",
         \A u \in Flushers : u # w => flush'[u] = flush[u],
         flush'[w].at # "idle" =>
           flush'[w].gen = flush[w].gen /\ flush'[w].version = flush[w].version,
         Top \in Nat, Top' \in Nat, Top <= Top', UNCHANGED <<shared, current, started>>
  PROVE  Claimed' /\ Ranked'
<1> HIDE DEF Top
<1>2. \A u \in Flushers : flush'[u].at # "idle" =>
        flush[u].at # "idle" /\ flush'[u].gen = flush[u].gen /\ flush'[u].version = flush[u].version
  OBVIOUS
<1>3. Claimed'
  BY <1>2 DEF Claimed
<1>4. Ranked'
  <2>1. \A u \in Flushers : flush[u].at # "idle" => flush[u].gen \in Nat
    BY DEF TypeOK, Flush
  <2>2. \A u \in Flushers : flush'[u].at # "idle" => flush'[u].gen <= Top' + 1
    BY <1>2, <2>1 DEF Ranked
  <2>3. \A u \in Flushers : flush'[u].at # "idle" /\ flush'[u].gen >= Top' => flush'[u].version > current
    BY <1>2, <2>1 DEF Ranked
  <2> QED  BY <1>2, <2>2, <2>3 DEF Ranked
<1> QED  BY <1>3, <1>4

\* Without a change of the manifests the highest one stays the highest.
LEMMA TopKept ==
  ASSUME TypeOK, Bounded, manifest' = manifest
  PROVE  Top \in Nat /\ Top' \in Nat /\ Top <= Top'
<1>1. Top \in Nat
  BY TopExists
<1>2. Top' = Top
  BY DEF Top, HasTop
<1> HIDE DEF Top
<1> QED  BY <1>1, <1>2

\* What happens to the shards of a flush's generation, no load can tell, unless
\* the generation is shared.
LEMMA Unnoticed ==
  ASSUME TypeOK, Bounded, Safe, NEW w \in Flushers, flush[w].at # "idle",
         \A k \in Versions : k # flush[w].gen => shard'[k] = shard[k],
         UNCHANGED <<manifest, load, got, shared, current, seen>>
  PROVE  RegisterStep /\ PublishedIsWhole' /\ Witnessed'
<1>1. flush[w].gen \notin shared => manifest[flush[w].gen] \notin Versions
  <2>1. flush[w].at \in {"create", "write", "manifest", "commit"}
    BY DEF TypeOK, Flush
  <2>2. Absent \notin Versions /\ Torn \notin Versions
    BY DEF Absent, Torn, Versions
  <2> QED  BY <2>1, <2>2 DEF Safe, Proper
<1>2. PublishedIsWhole'
  BY <1>1 DEF Safe, PublishedIsWhole
<1>3. Value' = Value
  BY DEF Value, Content, Top, HasTop
<1>4. Witnessed'
  BY DEF Safe, Witnessed, Content
<1> QED  BY <1>2, <1>3, <1>4 DEF RegisterStep

\* A step of one load leaves the others as they are.
LEMMA OthersWitnessed ==
  ASSUME Witnessed, NEW r \in Loaders, UNCHANGED <<manifest, shared>>,
         \A q \in Loaders : q # r => load'[q] = load[q] /\ seen'[q] = seen[q],
         /\ load'[r].at = "idle" <=> seen'[r] = {}
         /\ load'[r].at # "idle" => Content(load'[r].gen) \in seen'[r]
         /\ load'[r].at = "reading" /\ load'[r].gen \notin shared =>
              /\ manifest[load'[r].gen] \in Readable
              /\ load'[r].count = Width[manifest[load'[r].gen]]
              /\ load'[r].seq > 1 => load'[r].buffer = manifest[load'[r].gen]
  PROVE  Witnessed'
BY DEF Witnessed, Content

\* A change of a manifest that was there, or is at a generation no load has
\* found, leaves the loads what they have been promised.
LEMMA ChangeWitnessed ==
  ASSUME TypeOK, Bounded, Witnessed, NEW w \in Flushers, NEW g \in Versions, g = flush[w].gen,
         Observe(flush[w].gen), UNCHANGED <<load, shared>>,
         \A k \in Versions : k # g => manifest'[k] = manifest[k],
         g \notin shared => manifest[g] \in {Absent, Torn}
  PROVE  Witnessed'
<1>1. g \in 0..MaxFlush
  BY DEF Versions
<1>2. seen' = [r \in Loaders |->
                 IF load[r].at = "idle" THEN {}
                 ELSE IF Top' = g \/ load[r].gen = g THEN seen[r] \cup {Content(g)'}
                 ELSE seen[r]]
  BY <1>1, Observed
<1> HIDE DEF Top
<1>3. ASSUME NEW r \in Loaders
      PROVE  /\ load[r].at = "idle" <=> seen'[r] = {}
             /\ load[r].at # "idle" => Content(load[r].gen)' \in seen'[r]
             /\ load[r].at = "reading" /\ load[r].gen \notin shared =>
                  /\ manifest'[load[r].gen] \in Readable
                  /\ load[r].count = Width[manifest'[load[r].gen]]
                  /\ load[r].seq > 1 => load[r].buffer = manifest'[load[r].gen]
  <2>1. load[r].gen \in 0..MaxFlush
    BY DEF TypeOK, Load
  <2>2. load[r].at = "idle" <=> seen'[r] = {}
    BY <1>2 DEF Witnessed
  <2>3. CASE load[r].gen = g
    <3>1. load[r].at # "idle" => Content(load[r].gen)' \in seen'[r]
      BY <1>2, <2>3
    <3>2. load[r].at = "reading" => g \in shared
      BY <2>3, Marks DEF Witnessed
    <3> QED  BY <2>2, <2>3, <3>1, <3>2
  <2>4. CASE load[r].gen # g
    <3>1. Content(load[r].gen)' = Content(load[r].gen)
      <4>1. load[r].gen # 0 => load[r].gen \in Versions
        BY <2>1 DEF Versions
      <4> QED  BY <2>4, <4>1 DEF Content
    <3>2. load[r].at = "reading" => load[r].gen \in Versions
      BY <2>1 DEF Bounded, Versions
    <3>3. load[r].at # "idle" => seen[r] \subseteq seen'[r]
      BY <1>2
    <3>4. load[r].at = "reading" => manifest'[load[r].gen] = manifest[load[r].gen]
      BY <2>4, <3>2
    <3>5. load[r].at # "idle" => Content(load[r].gen) \in seen[r]
      BY DEF Witnessed
    <3>6. load[r].at = "reading" /\ load[r].gen \notin shared =>
            /\ manifest[load[r].gen] \in Readable
            /\ load[r].count = Width[manifest[load[r].gen]]
            /\ load[r].seq > 1 => load[r].buffer = manifest[load[r].gen]
      BY DEF Witnessed
    <3> HIDE DEF Content
    <3> QED  BY <2>2, <3>1, <3>3, <3>4, <3>5, <3>6
  <2> QED  BY <2>3, <2>4
<1> QED  BY <1>3 DEF Witnessed

\* Every step of a flush or of a load keeps the invariant, and is a step of the
\* register or leaves it as it is.
LEMMA SafeStep ==
  ASSUME TypeOK, Bounded, Safe, [Next]_vars
  PROVE  Safe' /\ RegisterStep
<1> USE IndexAssumption
<1>0. Claimed /\ Ranked /\ (\A w \in Flushers : Proper(w)) /\ PublishedIsWhole /\ Witnessed
  BY DEF Safe
<1>1. ASSUME NEW w \in Flushers, BeginFlush(w) PROVE Safe' /\ RegisterStep
  <2>0. Top \in Nat /\ Top \in 0..started /\ HasTop(manifest, Top) /\ started \in Nat /\ started < MaxFlush
    BY <1>1, TopExists DEF BeginFlush, TypeOK
  <2>1. PICK g \in Versions : g = Top + 1
    BY <2>0 DEF Versions
  <2>2. /\ flush[w].at = "idle"
        /\ started' = started + 1 /\ UNCHANGED <<shard, manifest, load, got, current, seen>>
        /\ flush' = [flush EXCEPT ![w] = [at |-> "create", gen |-> g,
                                           version |-> started + 1, seq |-> 1]]
    BY <1>1, <2>1 DEF BeginFlush, files, NextGeneration
  <2>3. /\ g \notin shared' => \A u \in Flushers : flush[u].at # "idle" => flush[u].gen # g
        /\ \A k \in Versions : k # g => (k \in shared' <=> k \in shared)
    BY <1>1, <2>1 DEF BeginFlush, NextGeneration
  <2>4. Top' = Top
    BY <2>2 DEF Top, HasTop
  <2>5. manifest[g] = Absent
    BY <2>0, <2>1 DEF HasTop
  <2> HIDE DEF Top
  <2>6. /\ flush'[w].at = "create" /\ flush'[w].gen = g /\ flush'[w].version = started + 1
        /\ flush'[w].seq = 1 /\ \A u \in Flushers : u # w => flush'[u] = flush[u]
    BY <2>2 DEF TypeOK
  <2>7. Claimed'
    <3>1. \A u \in Flushers : flush[u].at # "idle" => flush[u].gen \in Versions
      BY FlushStep
    <3> QED  BY <1>0, <2>3, <2>6, <3>1 DEF Claimed
  <2>8. Ranked'
    <3>1. \A u \in Flushers : flush[u].at # "idle" =>
            /\ flush[u].gen <= g /\ flush[u].version < started + 1
            /\ flush[u].gen \in Nat /\ flush[u].version \in Nat
      BY <1>0, <2>0, <2>1 DEF Ranked, Bounded
    <3>2. current <= started + 1 /\ started + 1 > current
      BY <1>0, <2>0 DEF Ranked, TypeOK
    <3> QED  BY <1>0, <2>0, <2>1, <2>2, <2>4, <2>6, <3>1, <3>2 DEF Ranked
  <2>9. ASSUME NEW u \in Flushers PROVE Proper(u)'
    <3>1. CASE u = w
      BY <2>2, <2>5, <2>6, <3>1 DEF Proper
    <3>2. CASE u # w
      <4>1. flush[u].at # "idle" /\ flush[u].gen \notin shared' => flush[u].gen \notin shared
        BY <2>3, FlushStep
      <4> QED  BY <1>0, <2>2, <2>6, <3>2, <4>1 DEF Proper
    <3> QED  BY <3>1, <3>2
  <2>10. PublishedIsWhole'
    <3>1. Absent \notin Versions
      BY DEF Absent, Versions
    <3> QED  BY <1>0, <2>2, <2>3, <2>5, <3>1 DEF PublishedIsWhole
  <2>11. \A k \in 0..MaxFlush : k # g => Content(k)' = Content(k)
    BY <2>2, <2>3 DEF Content, Versions
  <2>12. Witnessed'
    <3>1. \A r \in Loaders : load[r].at # "idle" => load[r].gen # g /\ load[r].gen \in 0..MaxFlush
      BY <2>5 DEF Bounded, Versions, TypeOK, Load
    <3>2. \A r \in Loaders : load[r].at = "reading" => load[r].gen \in Versions
      BY <3>1 DEF Bounded, Versions
    <3>3. ASSUME NEW r \in Loaders, load[r].at # "idle" PROVE Content(load[r].gen)' \in seen[r]
      <4>1. PICK k \in 0..MaxFlush : k = load[r].gen
        BY <3>1, <3>3
      <4>2. Content(k)' = Content(k) /\ Content(k) \in seen[r]
        BY <1>0, <2>11, <3>1, <3>3, <4>1 DEF Witnessed
      <4>3. load' = load
        BY <2>2
      <4> QED  BY <4>1, <4>2, <4>3
    <3>4. UNCHANGED <<load, seen, manifest>>
      BY <2>2
    <3> QED  BY <1>0, <2>3, <3>1, <3>2, <3>3, <3>4 DEF Witnessed
  <2>13. Value' = Value
    <3>1. PICK h \in 0..MaxFlush : h = Top
      BY <2>0
    <3>2. h # g
      BY <2>0, <2>1, <3>1
    <3>3. Value = Content(h) /\ Value' = Content(h)'
      BY <2>4, <3>1 DEF Value
    <3> QED  BY <2>11, <3>2, <3>3
  <2> QED  BY <2>2, <2>7, <2>8, <2>9, <2>10, <2>12, <2>13 DEF Safe, RegisterStep
<1>2. ASSUME NEW w \in Flushers, CreateShard(w) PROVE Safe' /\ RegisterStep
  <2> DEFINE f == flush[w]
  <2>1. /\ f.at = "create" /\ GoTo(w, "write")
        /\ UNCHANGED <<manifest, started, load, got, shared, current, seen>>
        /\ shard' = [shard EXCEPT ![f.gen][f.seq] = Torn]
    BY <1>2 DEF CreateShard
  <2>2. f.gen \in Versions /\ f.seq \in 1..MaxShards
    BY <2>1, FlushStep
  <2>3. /\ \A k \in Versions : k # f.gen => shard'[k] = shard[k]
        /\ shard'[f.gen][f.seq] = Torn
        /\ \A s \in 1..MaxShards : s # f.seq => shard'[f.gen][s] = shard[f.gen][s]
    BY <2>1, <2>2 DEF TypeOK
  <2>4. RegisterStep /\ PublishedIsWhole' /\ Witnessed'
    BY <2>1, <2>3, Unnoticed
  <2>5. /\ flush'[w].at = "write" /\ flush'[w].gen = f.gen /\ flush'[w].version = f.version
        /\ flush'[w].seq = f.seq /\ \A u \in Flushers : u # w => flush'[u] = flush[u]
    BY <2>1, GoToKept
  <2>6. Claimed' /\ Ranked'
    BY <1>0, <2>1, <2>5, OrderKept, TopKept
  <2>7. Proper(w)'
    <3>1. \A s \in 1..MaxShards : s < f.seq => shard'[f.gen][s] = shard[f.gen][s]
      BY <2>2, <2>3
    <3> QED  BY <1>0, <2>1, <2>3, <2>5, <3>1 DEF Proper
  <2>8. \A u \in Flushers : Proper(u)'
    BY <1>0, <2>1, <2>3, <2>5, <2>7, OthersProper
  <2> QED  BY <2>4, <2>6, <2>8 DEF Safe
<1>3. ASSUME NEW w \in Flushers, WriteShard(w) PROVE Safe' /\ RegisterStep
  <2> DEFINE f == flush[w]
  <2>1. f.at = "write" /\ UNCHANGED <<manifest, started, load, got, shared, current, seen>>
    BY <1>3 DEF WriteShard
  <2>2. f.gen \in Versions /\ f.seq \in 1..MaxShards /\ f.seq \in 1..Width[f.version]
        /\ Width[f.version] \in 1..MaxShards /\ f.version \in Versions
    BY <2>1, FlushStep
  <2>3. PICK c \in Landed(shard[f.gen][f.seq], f.version) : shard' = [shard EXCEPT ![f.gen][f.seq] = c]
    BY <1>3 DEF WriteShard
  <2>4. f.gen \notin shared => c = f.version
    <3>1. f.gen \notin shared => shard[f.gen][f.seq] = Torn
      BY <1>0, <2>1 DEF Proper
    <3> QED  BY <2>3, <3>1 DEF Landed, Absent, Torn
  <2>5. /\ \A k \in Versions : k # f.gen => shard'[k] = shard[k]
        /\ shard'[f.gen][f.seq] = c
        /\ \A s \in 1..MaxShards : s # f.seq => shard'[f.gen][s] = shard[f.gen][s]
    BY <2>2, <2>3 DEF TypeOK
  <2>6. RegisterStep /\ PublishedIsWhole' /\ Witnessed'
    BY <2>1, <2>5, Unnoticed
  <2>7. f.gen \notin shared =>
          /\ \A s \in 1..MaxShards : s < f.seq + 1 => shard'[f.gen][s] = f.version
          /\ manifest[f.gen] = Absent
    <3>1. f.gen \notin shared =>
            /\ \A s \in 1..MaxShards : s < f.seq => shard[f.gen][s] = f.version
            /\ manifest[f.gen] = Absent
      BY <1>0, <2>1 DEF Proper
    <3>2. \A s \in 1..MaxShards : s < f.seq + 1 => s < f.seq \/ s = f.seq
      BY <2>2, Below
    <3> HIDE DEF f
    <3> QED  BY <2>2, <2>4, <2>5, <3>1, <3>2
  <2>8. /\ flush'[w].gen = f.gen /\ flush'[w].version = f.version
        /\ \/ flush'[w].at = "manifest" /\ f.seq = Width[f.version]
           \/ flush'[w].at = "create" /\ flush'[w].seq = f.seq + 1
        /\ \A u \in Flushers : u # w => flush'[u] = flush[u]
    <3>1. CASE f.seq = Width[f.version] /\ GoTo(w, "manifest")
      BY <3>1, GoToKept
    <3>2. CASE flush' = [flush EXCEPT ![w].at = "create", ![w].seq = @ + 1]
      BY <3>2 DEF TypeOK, Flush
    <3> QED  BY <1>3, <3>1, <3>2 DEF WriteShard
  <2>9. Claimed' /\ Ranked'
    BY <1>0, <2>1, <2>8, OrderKept, TopKept
  <2>10. Proper(w)'
    <3>1. CASE flush'[w].at = "manifest" /\ f.seq = Width[f.version]
      <4>1. f.gen \notin shared => \A s \in 1..Width[f.version] : shard'[f.gen][s] = f.version
        BY <2>2, <2>7, <3>1
      <4> QED  BY <2>1, <2>7, <2>8, <3>1, <4>1 DEF Proper
    <3>2. CASE flush'[w].at = "create" /\ flush'[w].seq = f.seq + 1
      BY <2>1, <2>7, <2>8, <3>2 DEF Proper
    <3> QED  BY <2>8, <3>1, <3>2
  <2>11. \A u \in Flushers : Proper(u)'
    BY <1>0, <2>1, <2>5, <2>8, <2>10, OthersProper
  <2> QED  BY <2>6, <2>9, <2>11 DEF Safe
<1>4. ASSUME NEW w \in Flushers, FailShard(w) \/ FailManifest(w) \/ Crash(w)
      PROVE  Safe' /\ RegisterStep
  <2> DEFINE f == flush[w]
  <2>1. /\ f.at # "idle" /\ EndFlush(w)
        /\ UNCHANGED <<manifest, started, load, got, shared, current, seen>>
        /\ RollBack(f.gen, f.seq) \/ RollBack(f.gen, Width[f.version] + 1) \/ shard' = shard
    BY <1>4 DEF FailShard, FailManifest, Crash, files
  <2>2. f.gen \in Versions /\ f.seq \in Nat /\ Width[f.version] + 1 \in Nat
    BY <2>1, FlushStep
  <2>3. \A k \in Versions : k # f.gen => shard'[k] = shard[k]
    BY <2>1, <2>2, RollBackType
  <2>4. RegisterStep /\ PublishedIsWhole' /\ Witnessed'
    BY <2>1, <2>3, Unnoticed
  <2>5. flush'[w].at = "idle" /\ \A u \in Flushers : u # w => flush'[u] = flush[u]
    BY <2>1 DEF EndFlush, NoFlush, TypeOK
  <2>6. Claimed' /\ Ranked'
    BY <1>0, <2>1, <2>5, OrderKept, TopKept
  <2>7. Proper(w)'
    BY <2>5 DEF Proper
  <2>8. \A u \in Flushers : Proper(u)'
    BY <1>0, <2>1, <2>3, <2>5, <2>7, OthersProper
  <2> QED  BY <2>4, <2>6, <2>8 DEF Safe
<1>5. ASSUME NEW w \in Flushers, CreateManifest(w) PROVE Safe' /\ RegisterStep
  <2>1. PICK g \in Versions : g = flush[w].gen
    BY <1>5, FlushStep DEF CreateManifest
  <2>2. /\ flush[w].at = "manifest" /\ GoTo(w, "commit") /\ Observe(flush[w].gen)
        /\ UNCHANGED <<shard, started, load, got, shared, current>>
        /\ manifest' = [manifest EXCEPT ![g] = Torn]
    BY <1>5, <2>1 DEF CreateManifest
  <2>3. PICK t \in 0..MaxFlush : t = Top /\ HasTop(manifest, t)
    BY TopExists
  <2>4. /\ manifest'[g] = Torn /\ \A k \in Versions : k # g => manifest'[k] = manifest[k]
        /\ g \notin shared => manifest[g] = Absent
        /\ g \in 0..MaxFlush /\ g # 0
    BY <1>0, <2>1, <2>2 DEF TypeOK, Proper, Versions
  <2>5. seen' = [r \in Loaders |->
                   IF load[r].at = "idle" THEN {}
                   ELSE IF Top' = g \/ load[r].gen = g THEN seen[r] \cup {Content(g)'}
                   ELSE seen[r]]
    BY <2>1, <2>2, <2>4, Observed
  <2>6. Value = Content(t)
    BY <2>3, ValueOf
  <2>7. /\ flush'[w].at = "commit" /\ flush'[w].gen = flush[w].gen /\ flush'[w].version = flush[w].version
        /\ flush'[w].seq = flush[w].seq /\ \A u \in Flushers : u # w => flush'[u] = flush[u]
    BY <2>2, GoToKept
  <2>8. Witnessed'
    BY <1>0, <2>1, <2>2, <2>4, ChangeWitnessed
  <2>9. PublishedIsWhole'
    BY <1>0, <2>2, <2>4 DEF PublishedIsWhole, Torn, Versions
  <2>10. Proper(w)'
    BY <1>0, <2>1, <2>2, <2>4, <2>7 DEF Proper
  <2>11. \A u \in Flushers : Proper(u)'
    <3>1. \A k \in Versions \ {flush[w].gen} : shard'[k] = shard[k] /\ manifest'[k] = manifest[k]
      BY <2>1, <2>2, <2>4
    <3> QED  BY <1>0, <2>2, <2>7, <2>10, <3>1, OthersProper
  <2>12. \A r \in Loaders : seen[r] = {} <=> load[r].at = "idle"
    BY <1>0 DEF Witnessed
  <2>13. Content(g)' = IF g \in shared THEN Mixed ELSE Torn
    <3>1. Torn \notin Readable
      BY DEF Torn
    <3> QED  BY <2>2, <2>4, <3>1 DEF Content
  <2>14. ASSUME Top' = g, Value' = Content(g)' PROVE RegisterStep
    <3>1. seen' = [r \in Loaders |-> IF seen[r] = {} THEN {} ELSE seen[r] \cup {Content(g)'}]
      BY <2>5, <2>12, <2>14
    <3>2. CASE g \in shared
      <4>1. Register!Clash
        BY <2>2, <2>13, <2>14, <3>1, <3>2 DEF Register!Clash, Register!Assign, Register!Mixed, Mixed
      <4> QED  BY <4>1 DEF RegisterStep, Register!Next
    <3>3. CASE g \notin shared
      <4>1. Register!Spoil
        BY <2>2, <2>13, <2>14, <3>1, <3>3 DEF Register!Spoil, Register!Assign, Register!Unreadable, Torn
      <4> QED  BY <4>1 DEF RegisterStep, Register!Next
    <3> QED  BY <3>2, <3>3
  <2>15. CASE g >= t
    <3>1. HasTop(manifest', g)
      BY <2>3, <2>4, <2>15 DEF HasTop, Versions, Absent, Torn
    <3>2. Top' = g /\ Value' = Content(g)'
      BY <2>4, <3>1, TopIsNext, ValueOfNext
    <3>3. Claimed' /\ Ranked'
      <4>1. Top \in Nat /\ Top' \in Nat /\ Top <= Top'
        <5> HIDE DEF Top
        <5> QED  BY <2>3, <2>4, <2>15, <3>2
      <4> QED  BY <1>0, <2>2, <2>7, <4>1, OrderKept
    <3> QED  BY <2>8, <2>9, <2>11, <2>14, <3>2, <3>3 DEF Safe
  <2>16. CASE g < t
    <3>1. HasTop(manifest', t)
      BY <2>3, <2>4, <2>16 DEF HasTop, Versions
    <3>2. Top' = t /\ Value' = Content(t)'
      BY <3>1, TopIsNext, ValueOfNext
    <3>3. Value' = Value
      <4>1. t \in Versions /\ t # g
        BY <2>16, <2>4 DEF Versions
      <4> QED  BY <2>2, <2>4, <2>6, <3>2, <4>1 DEF Content
    <3>4. Claimed' /\ Ranked'
      <4>1. Top \in Nat /\ Top' \in Nat /\ Top <= Top'
        <5> HIDE DEF Top
        <5> QED  BY <2>3, <3>2
      <4> QED  BY <1>0, <2>2, <2>7, <4>1, OrderKept
    <3>5. seen' = seen
      <4>1. ASSUME NEW r \in Loaders, load[r].at # "idle", load[r].gen = g
            PROVE  Content(g)' \in seen[r]
        <5>1. g \in shared
          BY <2>4, <4>1 DEF Bounded
        <5>2. Content(g) = Mixed
          BY <2>4, <5>1 DEF Content
        <5> QED  BY <1>0, <2>13, <4>1, <5>1, <5>2 DEF Witnessed
      <4>2. Top' # g
        BY <2>4, <2>16, <3>2
      <4>3. \A r \in Loaders : seen'[r] = seen[r]
        BY <2>5, <2>12, <4>1, <4>2
      <4>4. seen' = [r \in Loaders |-> seen'[r]]
        BY <2>5
      <4> QED  BY <4>3, <4>4 DEF TypeOK
    <3> QED  BY <2>2, <2>8, <2>9, <2>11, <3>3, <3>4, <3>5 DEF Safe, RegisterStep
  <2> QED  BY <2>4, <2>15, <2>16
<1>6. ASSUME NEW w \in Flushers, WriteManifest(w) PROVE Safe' /\ RegisterStep
  <2>1. PICK g \in Versions, v \in Versions : g = flush[w].gen /\ v = flush[w].version
    BY <1>6, FlushStep DEF WriteManifest
  <2>2. /\ flush[w].at = "commit" /\ EndFlush(w) /\ Observe(flush[w].gen)
        /\ UNCHANGED <<shard, started, load, got, shared>>
        /\ current' = IF Value' = Value THEN current ELSE v
    BY <1>6, <2>1 DEF WriteManifest
  <2>3. PICK c \in Landed(manifest[g], v) : manifest' = [manifest EXCEPT ![g] = c]
    BY <1>6, <2>1 DEF WriteManifest
  <2>4. PICK t \in 0..MaxFlush : t = Top /\ HasTop(manifest, t)
    BY TopExists
  <2>5. g \notin shared => manifest[g] = Torn /\ c = v
    <3>1. g \notin shared => manifest[g] = Torn
      BY <1>0, <2>1, <2>2 DEF Proper
    <3> QED  BY <2>3, <3>1 DEF Landed, Absent, Torn
  <2>6. /\ manifest'[g] = c /\ \A k \in Versions : k # g => manifest'[k] = manifest[k]
        /\ c = Absent <=> manifest[g] = Absent
        /\ g \in 0..MaxFlush /\ g # 0
    BY <2>1, <2>3 DEF TypeOK, Landed, Versions, Absent, Torn
  <2>7. seen' = [r \in Loaders |->
                   IF load[r].at = "idle" THEN {}
                   ELSE IF Top' = g \/ load[r].gen = g THEN seen[r] \cup {Content(g)'}
                   ELSE seen[r]]
    BY <2>1, <2>2, <2>6, Observed
  <2>8. Top' = t /\ Value' = Content(t)' /\ Value = Content(t)
    <3>1. HasTop(manifest', t)
      BY <2>4, <2>6 DEF HasTop, Versions
    <3> QED  BY <2>4, <3>1, TopIsNext, ValueOf, ValueOfNext
  <2>9. t # g => Value' = Value
    <3>1. t # 0 => t \in Versions
      BY DEF Versions
    <3> QED  BY <2>2, <2>6, <2>8, <3>1 DEF Content
  <2>10. /\ Content(g)' = IF g \in shared THEN Mixed ELSE IF v \in Readable THEN v ELSE Torn
         /\ Content(g) = IF g \in shared THEN Mixed ELSE Torn
    <3>1. Torn \notin Readable
      BY DEF Torn
    <3> QED  BY <2>2, <2>5, <2>6, <3>1 DEF Content
  <2>11. flush'[w].at = "idle" /\ \A u \in Flushers : u # w => flush'[u] = flush[u]
    BY <2>2 DEF EndFlush, NoFlush, TypeOK
  <2>12. Witnessed'
    BY <1>0, <2>1, <2>2, <2>5, <2>6, ChangeWitnessed
  <2>13. PublishedIsWhole'
    <3>1. g \notin shared => \A s \in 1..Width[v] : shard[g][s] = v
      BY <1>0, <2>1, <2>2 DEF Proper
    <3> QED  BY <1>0, <2>2, <2>5, <2>6, <3>1 DEF PublishedIsWhole
  <2>14. \A u \in Flushers : Proper(u)'
    <3>1. \A k \in Versions \ {flush[w].gen} : shard'[k] = shard[k] /\ manifest'[k] = manifest[k]
      BY <2>1, <2>2, <2>6
    <3>2. Proper(w)'
      BY <2>11 DEF Proper
    <3> QED  BY <1>0, <2>2, <2>11, <3>1, <3>2, OthersProper
  <2>15. Claimed'
    BY <1>0, <2>2, <2>11 DEF Claimed
  <2>16. g = t => v > current
    <3>1. g = t => flush[w].gen >= Top
      BY <2>1, <2>4, <2>6
    <3> HIDE DEF Top
    <3> QED  BY <1>0, <2>1, <2>2, <3>1 DEF Ranked
  <2>17. current' = current \/ (current' = v /\ t = g /\ g \notin shared)
    BY <2>2, <2>8, <2>9, <2>10
  <2>18. Ranked'
    <3>1. v <= started /\ started' = started
      BY <2>1, <2>2 DEF Bounded
    <3>2. Top' = Top
      BY <2>4, <2>8
    <3> HIDE DEF Top
    <3>3. ASSUME NEW u \in Flushers, flush'[u].at # "idle", flush'[u].gen >= Top', current' = v,
                 t = g, g \notin shared
          PROVE  flush'[u].version > v
      <4>1. u # w /\ flush[u].at # "idle" /\ flush'[u] = flush[u] /\ flush[u].gen \in Nat
        BY <2>11, <3>3 DEF TypeOK, Flush
      <4>2. flush[u].gen # g
        BY <1>0, <2>1, <2>2, <3>3, <4>1 DEF Claimed
      <4>3. flush[w].gen < flush[u].gen
        BY <2>1, <2>4, <3>2, <3>3, <4>1, <4>2 DEF Versions
      <4> QED  BY <1>0, <2>1, <2>2, <4>1, <4>3 DEF Ranked, TypeOK, Flush, Versions
    <3> QED  BY <1>0, <2>11, <2>17, <3>1, <3>2, <3>3 DEF Ranked
  <2>19. \A r \in Loaders : seen[r] = {} <=> load[r].at = "idle"
    BY <1>0 DEF Witnessed
  <2>20. RegisterStep
    <3>1. CASE t = g
      <4>1. seen' = [r \in Loaders |-> IF seen[r] = {} THEN {} ELSE seen[r] \cup {Content(g)'}]
        BY <2>7, <2>8, <2>19, <3>1
      <4>2. CASE g \in shared
        <5>1. Register!Clash
          BY <2>2, <2>8, <2>10, <3>1, <4>1, <4>2
             DEF Register!Clash, Register!Assign, Register!Mixed, Mixed
        <5> QED  BY <5>1 DEF RegisterStep, Register!Next
      <4>3. CASE g \notin shared /\ v \notin Readable
        <5>1. Register!Spoil
          BY <2>2, <2>8, <2>10, <3>1, <4>1, <4>3
             DEF Register!Spoil, Register!Assign, Register!Unreadable, Torn
        <5> QED  BY <5>1 DEF RegisterStep, Register!Next
      <4>4. CASE g \notin shared /\ v \in Readable
        <5>1. v # Torn
          BY DEF Versions, Torn
        <5>2. Value = Torn /\ Value' = v /\ current' = v
          BY <2>2, <2>8, <2>10, <3>1, <4>4, <5>1
        <5>3. Register!Publish(v)
          BY <2>2, <2>10, <2>16, <3>1, <4>1, <4>4, <5>2
             DEF Register!Publish, Register!Assign, Register!Unreadable, Torn
        <5> QED  BY <4>4, <5>3 DEF RegisterStep, Register!Next
      <4> QED  BY <4>2, <4>3, <4>4
    <3>2. CASE t # g
      <4>1. Value' = Value /\ current' = current
        BY <2>2, <2>9, <3>2
      <4>2. \A r \in Loaders : load[r].at # "idle" /\ load[r].gen = g => Content(g) \in seen[r]
        BY <1>0 DEF Witnessed
      <4>3. CASE g \notin shared /\ v \in Readable
        <5> DEFINE late == {r \in Loaders : load[r].at # "idle" /\ load[r].gen = g}
        <5>1. late \in SUBSET {r \in Loaders : Torn \in seen[r]}
          BY <2>10, <4>2, <4>3
        <5>2. seen' = [r \in Loaders |-> IF r \in late THEN seen[r] \cup {v} ELSE seen[r]]
          BY <2>7, <2>8, <2>10, <2>19, <3>2, <4>3
        <5> HIDE DEF late
        <5>3. Register!ComeLate(v)
          BY <2>2, <4>1, <5>1, <5>2 DEF Register!ComeLate, Register!Unreadable, Torn
        <5> QED  BY <4>3, <5>3 DEF RegisterStep, Register!Next
      <4>4. CASE g \in shared \/ v \notin Readable
        <5>1. Content(g)' = Content(g)
          BY <2>10, <4>4
        <5>2. \A r \in Loaders : seen'[r] = seen[r]
          BY <2>7, <2>8, <2>19, <3>2, <4>2, <5>1
        <5>3. seen' = [r \in Loaders |-> seen'[r]]
          BY <2>7
        <5>4. seen' = seen
          BY <5>2, <5>3 DEF TypeOK
        <5> QED  BY <2>2, <4>1, <5>4 DEF RegisterStep
      <4> QED  BY <4>3, <4>4
    <3> QED  BY <3>1, <3>2
  <2> QED  BY <2>12, <2>13, <2>14, <2>15, <2>18, <2>20 DEF Safe
<1>7. ASSUME UNCHANGED <<shard, manifest, started, flush, shared, current>>, Witnessed'
      PROVE  Safe' /\ Value' = Value
  BY <1>0, <1>7 DEF Safe, Claimed, Ranked, Proper, PublishedIsWhole, HasTop, Value, Content, Top
<1>8. ASSUME NEW r \in Loaders, Scan(r) PROVE Safe' /\ RegisterStep
  <2>1. /\ load[r].at = "idle" /\ load' = [load EXCEPT ![r] = [@ EXCEPT !.at = "scanned", !.gen = Top]]
        /\ seen' = [seen EXCEPT ![r] = {Value}]
        /\ UNCHANGED <<shard, manifest, started, flush, got, shared, current>>
    BY <1>8 DEF Scan, files
  <2>2. Top \in 0..MaxFlush /\ Value = Content(Top)
    BY TopExists DEF Value
  <2> HIDE DEF Top, Value
  <2>3. /\ load'[r].at = "scanned" /\ load'[r].gen = Top /\ seen'[r] = {Value}
        /\ \A q \in Loaders : q # r => load'[q] = load[q] /\ seen'[q] = seen[q]
    BY <2>1 DEF TypeOK, Load
  <2>4. Witnessed'
    <3>1. seen'[r] # {} /\ Content(load'[r].gen) \in seen'[r]
      BY <2>2, <2>3
    <3> QED  BY <1>0, <2>1, <2>3, <3>1, OthersWitnessed
  <2>5. Safe' /\ Value' = Value
    BY <1>7, <2>1, <2>4
  <2>6. Register!BeginLoad(r)
    BY <1>0, <2>1, <2>5 DEF Register!BeginLoad, Witnessed
  <2> QED  BY <2>5, <2>6 DEF RegisterStep, Register!Next
<1>9. ASSUME NEW r \in Loaders, NEW v \in Register!Results, v \in seen[r] \/ Mixed \in seen[r],
             Return(r, v)
      PROVE  Safe' /\ RegisterStep
  <2>1. /\ got' = [got EXCEPT ![r] = v] /\ load' = [load EXCEPT ![r] = NoLoad]
        /\ seen' = [seen EXCEPT ![r] = {}]
        /\ UNCHANGED <<shard, manifest, started, flush, shared, current>>
    BY <1>9 DEF Return, files
  <2>2. /\ load'[r].at = "idle" /\ seen'[r] = {}
        /\ \A q \in Loaders : q # r => load'[q] = load[q] /\ seen'[q] = seen[q]
    BY <2>1 DEF TypeOK, NoLoad
  <2>3. Witnessed'
    BY <1>0, <2>1, <2>2, OthersWitnessed
  <2>4. Safe' /\ Value' = Value
    BY <1>7, <2>1, <2>3
  <2>5. Register!EndLoad(r)
    BY <1>9, <2>1, <2>4 DEF Register!EndLoad, Register!Mixed, Mixed
  <2> QED  BY <2>4, <2>5 DEF RegisterStep, Register!Next
<1>10. ASSUME NEW r \in Loaders, ReadManifest(r) PROVE Safe' /\ RegisterStep
  <2>1. PICK g \in 0..MaxFlush : g = load[r].gen
    BY DEF TypeOK, Load
  <2>2. load[r].at = "scanned" /\ Content(g) \in seen[r] /\ seen[r] # {}
    BY <1>0, <1>10, <2>1 DEF ReadManifest, Witnessed
  <2>3. Absent \in Register!Results /\ Torn \in Register!Results
    BY DEF Register!Results, Register!Nothing, Register!Unreadable, Absent, Torn
  <2>4. CASE g = 0 /\ Return(r, Absent)
    BY <1>9, <2>2, <2>3, <2>4 DEF Content
  <2>5. CASE g # 0 /\ manifest[g] \notin Readable /\ Return(r, Torn)
    BY <1>9, <2>2, <2>3, <2>5 DEF Content
  <2>6. CASE /\ g # 0 /\ manifest[g] \in Readable
             /\ load' = [load EXCEPT ![r].at = "reading", ![r].count = Width[manifest[g]],
                                     ![r].seq = 1]
             /\ UNCHANGED <<files, started, flush, got, shared, current, seen>>
    <3>1. /\ load'[r].at = "reading" /\ load'[r].gen = g /\ load'[r].seq = 1
          /\ load'[r].count = Width[manifest[g]]
          /\ \A q \in Loaders : q # r => load'[q] = load[q]
      BY <2>1, <2>6 DEF TypeOK, Load
    <3>2. UNCHANGED <<shard, manifest, started, flush, got, shared, current, seen>>
      BY <2>6 DEF files
    <3>3. Witnessed'
      <4>1. ~(load'[r].seq > 1) /\ Content(load'[r].gen) \in seen'[r] /\ seen'[r] # {}
        BY <2>2, <3>1, <3>2
      <4> QED  BY <1>0, <2>6, <3>1, <3>2, <4>1, OthersWitnessed
    <3> QED  BY <1>7, <3>2, <3>3 DEF RegisterStep
  <2> QED  BY <1>10, <2>1, <2>4, <2>5, <2>6 DEF ReadManifest
<1>11. ASSUME NEW r \in Loaders, ReadShard(r) PROVE Safe' /\ RegisterStep
  <2> DEFINE l     == load[r]
             piece == shard[l.gen][l.seq]
             all   == Joined(l, piece)
             whole == IF all \in Versions /\ Width[all] = l.count THEN all ELSE Garbage
  <2>1. PICK g \in Versions : g = l.gen
    BY <1>11 DEF ReadShard, Bounded, TypeOK, Load, Versions
  <2>2. l.at = "reading" /\ l.seq \in 1..l.count /\ Content(g) \in seen[r] /\ seen[r] # {}
    BY <1>0, <1>11, <2>1 DEF ReadShard, Bounded, Witnessed
  <2>3. /\ Torn \in Register!Results /\ Garbage \in Register!Results
        /\ Versions \subseteq Register!Results
    BY DEF Register!Results, Register!Garbage, Register!Unreadable, Garbage, Torn
  <2>4. whole \in Register!Results
    BY <2>3
  <2>5. g \in shared => Mixed \in seen[r]
    BY <2>2 DEF Content, Versions
  <2>6. ASSUME g \notin shared
        PROVE  /\ piece = manifest[g] /\ all = manifest[g] /\ whole = manifest[g]
               /\ manifest[g] \in seen[r] /\ piece # Absent
    <3>1. /\ manifest[g] \in Readable /\ l.count = Width[manifest[g]]
          /\ l.seq > 1 => l.buffer = manifest[g]
      BY <1>0, <2>1, <2>2, <2>6 DEF Witnessed
    <3>2. manifest[g] \in Versions /\ Absent \notin Versions /\ Torn \notin Versions
      BY <3>1, Marks
    <3>3. piece = manifest[g]
      BY <1>0, <2>1, <2>2, <2>6, <3>1, <3>2 DEF PublishedIsWhole
    <3>4. all = manifest[g]
      <4>1. l.seq = 1 \/ l.buffer = piece
        BY <2>2, <3>1, <3>2, <3>3, Widths
      <4> QED  BY <3>2, <3>3, <4>1 DEF Joined
    <3>5. Content(g) = manifest[g]
      BY <2>6, <3>1 DEF Content, Versions
    <3> HIDE DEF all, piece
    <3> QED  BY <2>2, <3>1, <3>2, <3>3, <3>4, <3>5
  <2> HIDE DEF all
  <2>7. CASE piece = Absent /\ Return(r, Torn)
    BY <1>9, <2>3, <2>5, <2>6, <2>7
  <2>8. CASE Return(r, whole)
    <3> HIDE DEF whole
    <3> QED  BY <1>9, <2>4, <2>5, <2>6, <2>8
  <2>9. CASE /\ l.seq # l.count
             /\ load' = [load EXCEPT ![r].seq = @ + 1, ![r].buffer = all]
             /\ UNCHANGED <<files, started, flush, got, shared, current, seen>>
    <3>1. /\ load'[r].at = "reading" /\ load'[r].gen = g /\ load'[r].count = l.count
          /\ load'[r].buffer = all /\ \A q \in Loaders : q # r => load'[q] = load[q]
      BY <2>1, <2>2, <2>9 DEF TypeOK, Load
    <3>2. UNCHANGED <<shard, manifest, started, flush, got, shared, current, seen>>
      BY <2>9 DEF files
    <3>3. g \notin shared => manifest[g] \in Readable /\ l.count = Width[manifest[g]]
      BY <1>0, <2>1, <2>2 DEF Witnessed
    <3>4. Content(load'[r].gen) \in seen'[r] /\ seen'[r] # {}
      BY <2>2, <3>1, <3>2
    <3>5. Witnessed'
      BY <1>0, <2>6, <3>1, <3>2, <3>3, <3>4, OthersWitnessed
    <3> QED  BY <1>7, <3>2, <3>5 DEF RegisterStep
  <2> QED  BY <1>11, <2>7, <2>8, <2>9 DEF ReadShard, all
<1>12. CASE UNCHANGED vars
  <2>1. Witnessed'
    BY <1>0, <1>12 DEF Witnessed, Content, vars
  <2> QED  BY <1>7, <1>12, <2>1 DEF vars, RegisterStep
<1> QED
  BY <1>1, <1>2, <1>3, <1>4, <1>5, <1>6, <1>8, <1>10, <1>11, <1>12 DEF Next

-----------------------------------------------------------------------------
\* At first there are no files, and the register holds nothing.
LEMMA InitInv == Init => IndexInv /\ Register!Init
<1> SUFFICES ASSUME Init PROVE IndexInv /\ Register!Init
  OBVIOUS
<1> USE IndexAssumption
<1>1. HasTop(manifest, 0) /\ 0 \in 0..MaxFlush
  BY DEF Init, HasTop
<1>2. Value = Absent
  BY <1>1, ValueOf DEF Content
<1>3. TypeOK
  BY DEF Init, TypeOK, NoFlush, NoLoad, Flush, Load, Versions
<1>4. Bounded
  BY <1>1 DEF Init, Bounded, NoFlush, NoLoad
<1>5. Safe
  <2>1. Claimed /\ Ranked /\ \A w \in Flushers : Proper(w)
    BY DEF Init, Claimed, Ranked, Proper, NoFlush
  <2>2. PublishedIsWhole
    BY DEF Init, PublishedIsWhole, Versions, Absent
  <2>3. Witnessed
    BY DEF Init, Witnessed, NoLoad
  <2> QED  BY <2>1, <2>2, <2>3 DEF Safe
<1>6. Register!Init
  BY <1>2 DEF Init, Register!Init, Register!Nothing, Absent
<1> QED  BY <1>3, <1>4, <1>5, <1>6 DEF IndexInv

\* The invariant holds in every reachable state.
LEMMA Invariance == Spec => []IndexInv
<1>1. Init => IndexInv
  BY InitInv
<1>2. IndexInv /\ [Next]_vars => IndexInv'
  BY TypeStep, SafeStep DEF IndexInv
<1> QED
  BY <1>1, <1>2, PTL DEF Spec

\* Whoever flushes and loads, files hold pieces of versions, and flushes and
\* loads keep within the generations there are.
THEOREM TypeCorrectness == Spec => []TypeOK
<1>1. IndexInv => TypeOK
  BY DEF IndexInv
<1> QED
  BY <1>1, Invariance, PTL

\* A published generation that no two flushes have taken stays whole for ever,
\* whatever other flushes do at the same time or later, wherever they fail or
\* die (usearch_sqlite.rs:469).
THEOREM PublishedIsWholeAlways == Spec => []PublishedIsWhole
<1>1. IndexInv => PublishedIsWhole
  BY DEF IndexInv, Safe
<1> QED
  BY <1>1, Invariance, PTL

\* The shards, the manifests and the loads that read them step by step, next to
\* flushes that overlap, implement a register that is read in one piece
\* (usearch_sqlite.rs:387, 497).
THEOREM Refinement == Spec => ImplementsRegister
<1>1. Init => Register!Init
  BY InitInv
<1>2. IndexInv /\ [Next]_vars => [Register!Next]_(Register!vars)
  BY SafeStep DEF IndexInv, RegisterStep, Register!vars
<1> QED
  BY <1>1, <1>2, Invariance, PTL DEF Spec, ImplementsRegister, Register!Spec
=============================================================================
