---------------------------- MODULE DedupWindow ----------------------------
(***************************************************************************)
(* The online rolling-window filter in front of the drawer store           *)
(* (dedup_window.rs): threads hash an observation, read the monotonic      *)
(* clock, then take the filter's mutex and either record the hash (Fresh)  *)
(* or learn that it is already recorded (Duplicate).                       *)
(*                                                                         *)
(* A hash stands for the SHA-256 digest of the trimmed content.  The       *)
(* instant kept as the value of the `seen` map is never read by the code,  *)
(* so `seen` is the set of its keys.                                       *)
(***************************************************************************)
EXTENDS Integers, Sequences

CONSTANTS
  Threads,             \* callers of check_and_record
  Hashes,              \* digests of trimmed observations
  Window,              \* the rolling window, in clock ticks
  ConfiguredCapacity,  \* the capacity passed to WindowedDedup::new
  MaxStall,            \* longest delay between reading the clock and locking
  MaxClock             \* bound of the model: the last clock tick

ASSUME DedupAssumption ==
  /\ Window \in Nat
  /\ ConfiguredCapacity \in Nat
  /\ MaxStall \in Nat
  /\ MaxClock \in Nat

\* new() normalises a capacity of zero up to one.
Capacity == IF ConfiguredCapacity = 0 THEN 1 ELSE ConfiguredCapacity

VARIABLES
  clock,   \* the monotonic clock behind Instant::now()
  call,    \* call[t]: thread t's current or last check_and_record
  queue,   \* insert-order log of [hash, at]
  seen,    \* keys of the membership index
  last,    \* history: instant of the latest admission of a hash, or Never
  since,   \* history: admissions after the latest one of a hash, up to Capacity
  latest   \* history: the greatest instant any purge has used

vars == <<clock, call, queue, seen, last, since, latest>>
history == <<last, since, latest>>

Never == -1
Entry == [hash : Hashes, at : Nat]
Call  == [state : {"idle", "waiting", "Fresh", "Duplicate"},
          hash  : Hashes,
          now   : Nat]

TypeOK ==
  /\ clock \in Nat
  /\ call \in [Threads -> Call]
  /\ queue \in Seq(Entry)
  /\ seen \subseteq Hashes
  /\ last \in [Hashes -> Nat \cup {Never}]
  /\ since \in [Hashes -> 0 .. Capacity]
  /\ latest \in Nat

Init ==
  /\ clock = 0
  /\ \E h \in Hashes : call = [t \in Threads |-> [state |-> "idle", hash |-> h, now |-> 0]]
  /\ queue = << >>
  /\ seen = {}
  /\ last = [h \in Hashes |-> Never]
  /\ since = [h \in Hashes |-> 0]
  /\ latest = 0

-----------------------------------------------------------------------------
(***************************************************************************)
(* Operators on the insert-order log.                                      *)
(***************************************************************************)
DropFront(q, n)   == SubSeq(q, n + 1, Len(q))
FrontHashes(q, n) == {q[i].hash : i \in 1 .. n}

\* Mutant: an entry expires at the very end of its window.
ExpiredEarly(e, now) == now - e.at >= Window

\* now.saturating_duration_since(t) > window
Expired(e, now) == now - e.at > Window

\* Mutant: the lookup runs before anything is purged.
PurgeNothing(q, now) == {0}

\* How many entries the purge loop pops: it stops at the first live one.
PurgeCounts(q, now) ==
  {n \in 0 .. Len(q) : /\ \A i \in 1 .. n : Expired(q[i], now)
                       /\ n < Len(q) => ~Expired(q[n + 1], now)}

\* How many entries the capacity loop pops.
Overflow(q) == IF Len(q) > Capacity THEN Len(q) - Capacity ELSE 0

Later(a, b) == IF a > b THEN a ELSE b

-----------------------------------------------------------------------------
(***************************************************************************)
(* Actions.                                                                *)
(***************************************************************************)

\* Mutant: the start of the window is computed instead, and underflows.
ReadCutoff(t, h) ==
  /\ call[t].state # "waiting"
  /\ call' = [call EXCEPT ![t] = [state |-> "waiting", hash |-> h, now |-> clock - Window]]
  /\ UNCHANGED <<clock, queue, seen, history>>

\* check_and_record evaluates Instant::now() before it asks for the mutex.
ReadClock(t, h) ==
  /\ call[t].state # "waiting"
  /\ call' = [call EXCEPT ![t] = [state |-> "waiting", hash |-> h, now |-> clock]]
  /\ UNCHANGED <<clock, queue, seen, history>>

\* The hash is still recorded after the purge: only the purge takes effect.
Refuse(t, n) ==
  /\ call[t].hash \in seen \ FrontHashes(queue, n)
  /\ call' = [call EXCEPT ![t].state = "Duplicate"]
  /\ queue' = DropFront(queue, n)
  /\ seen' = seen \ FrontHashes(queue, n)
  /\ UNCHANGED <<last, since>>

\* Mutant: what the capacity loop pops stays in the index.
AdmitKeepingEvicted(t, n) ==
  LET h      == call[t].hash
      pushed == Append(DropFront(queue, n), [hash |-> h, at |-> call[t].now])
  IN  /\ h \notin seen \ FrontHashes(queue, n)
      /\ call' = [call EXCEPT ![t].state = "Fresh"]
      /\ queue' = DropFront(pushed, Overflow(pushed))
      /\ seen' = (seen \ FrontHashes(queue, n)) \cup {h}
      /\ last' = [last EXCEPT ![h] = call[t].now]
      /\ since' = [x \in Hashes |->
                     IF x = h \/ last[x] = Never THEN 0
                     ELSE IF since[x] < Capacity THEN since[x] + 1 ELSE Capacity]

\* The hash is new: record it, then evict the oldest beyond the capacity.
Admit(t, n) ==
  LET h      == call[t].hash
      pushed == Append(DropFront(queue, n), [hash |-> h, at |-> call[t].now])
      over   == Overflow(pushed)
  IN  /\ h \notin seen \ FrontHashes(queue, n)
      /\ call' = [call EXCEPT ![t].state = "Fresh"]
      /\ queue' = DropFront(pushed, over)
      /\ seen' = ((seen \ FrontHashes(queue, n)) \cup {h}) \ FrontHashes(pushed, over)
      /\ last' = [last EXCEPT ![h] = call[t].now]
      /\ since' = [x \in Hashes |->
                     IF x = h \/ last[x] = Never THEN 0
                     ELSE IF since[x] < Capacity THEN since[x] + 1 ELSE Capacity]

\* check_and_record_at under the mutex: purge, look up, record, evict.
CheckAndRecord(t) ==
  /\ call[t].state = "waiting"
  /\ \E n \in PurgeCounts(queue, call[t].now) : Refuse(t, n) \/ Admit(t, n)
  /\ latest' = Later(latest, call[t].now)
  /\ UNCHANGED clock

\* purge_expired reads the clock with the mutex already held.
PurgeExpired ==
  /\ \E n \in PurgeCounts(queue, clock) :
       /\ queue' = DropFront(queue, n)
       /\ seen' = seen \ FrontHashes(queue, n)
  /\ latest' = Later(latest, clock)
  /\ UNCHANGED <<clock, call, last, since>>

\* Time passes; no thread waits for the mutex longer than MaxStall.
Tick ==
  /\ clock < MaxClock
  /\ \A t \in Threads : call[t].state = "waiting" => clock - call[t].now < MaxStall
  /\ clock' = clock + 1
  /\ UNCHANGED <<call, queue, seen, history>>

Next ==
  \/ \E t \in Threads, h \in Hashes : ReadClock(t, h)
  \/ \E t \in Threads : CheckAndRecord(t)
  \/ PurgeExpired
  \/ Tick

Spec == Init /\ [][Next]_vars

-----------------------------------------------------------------------------
(***************************************************************************)
(* Properties.                                                             *)
(***************************************************************************)

\* The log and the membership index describe the same entries: a hash is
\* logged at most once, is a key of `seen` exactly while it is logged, and
\* the log never exceeds the capacity after a call (dedup_window.rs keeps the
\* two structures by hand, in three places).
LogMatchesIndex ==
  /\ \A i, j \in 1 .. Len(queue) : queue[i].hash = queue[j].hash => i = j
  /\ seen = FrontHashes(queue, Len(queue))
  /\ Len(queue) <= Capacity

\* A recorded hash is forgotten only for one of the two documented reasons:
\* some purge used an instant past its window, or Capacity younger
\* admissions pushed it out.
ForgottenOnlyWhenDue ==
  \A h \in Hashes :
    last[h] # Never /\ h \notin seen =>
      latest - last[h] > Window \/ since[h] = Capacity

\* A second Fresh verdict for the same content is possible only when the
\* first admission was due to be forgotten: replays inside the window are
\* admitted once, however the callers interleave.
ReadmittedOnlyWhenDue ==
  [][\A t \in Threads :
       /\ call[t].state = "waiting"
       /\ call'[t].state = "Fresh"
       /\ last[call[t].hash] # Never
       => \/ latest' - last[call[t].hash] > Window
          \/ since[call[t].hash] = Capacity]_vars

\* A Duplicate verdict is never given for content whose latest admission is
\* older than the window plus the longest wait for the mutex: entries that
\* sit behind a younger front outlive the window by no more than that.
DuplicatesAreRecent ==
  [][\A t \in Threads :
       call[t].state = "waiting" /\ call'[t].state = "Duplicate" =>
         /\ last[call[t].hash] # Never
         /\ call[t].now - last[call[t].hash] <= Window + MaxStall]_vars
=============================================================================
