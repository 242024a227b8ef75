------------------------- MODULE DedupWindowProofs -------------------------
(***************************************************************************)
(* Safety of the rolling-window filter for every set of threads and        *)
(* hashes, every window, capacity and stall bound.                         *)
(*                                                                         *)
(* The invariants are not inductive alone: that a forgotten hash was due   *)
(* needs to know how many admissions each logged entry has seen, and that  *)
(* is its distance from the back of the log; that a Duplicate verdict is   *)
(* recent needs a bound on how far the log can be out of order.  Inv adds  *)
(* both.                                                                   *)
(***************************************************************************)
EXTENDS DedupWindow, TLAPS

Unique(q) == \A i, j \in 1 .. Len(q) : q[i].hash = q[j].hash => i = j

\* The history agrees with the log: an entry at distance d from the back has
\* seen exactly d younger admissions.
HistoryMatchesLog ==
  \A i \in 1 .. Len(queue) :
    /\ last[queue[i].hash] = queue[i].at
    /\ since[queue[i].hash] = Len(queue) - i

\* No reading of the clock is older than MaxStall, so an entry can precede a
\* younger-stamped one by at most MaxStall.
SkewBounded ==
  /\ \A t \in Threads : call[t].state = "waiting" =>
       call[t].now <= clock /\ clock - call[t].now <= MaxStall
  /\ \A i \in 1 .. Len(queue) : queue[i].at <= clock
  /\ \A i, j \in 1 .. Len(queue) : i <= j => queue[i].at - queue[j].at <= MaxStall

Inv ==
  /\ TypeOK
  /\ LogMatchesIndex
  /\ HistoryMatchesLog
  /\ ForgottenOnlyWhenDue
  /\ SkewBounded

-----------------------------------------------------------------------------
(***************************************************************************)
(* Facts about the operators on the log.                                   *)
(***************************************************************************)

\* The capacity is positive whatever was configured (new() clamps it).
LEMMA CapacityPositive == Capacity \in Nat /\ Capacity >= 1
  BY DedupAssumption DEF Capacity

\* Dropping n entries from the front keeps the others, n places earlier.
LEMMA DropFrontFacts ==
  ASSUME NEW q \in Seq(Entry), NEW n \in 0 .. Len(q)
  PROVE  /\ DropFront(q, n) \in Seq(Entry)
         /\ Len(DropFront(q, n)) = Len(q) - n
         /\ \A i \in 1 .. Len(q) - n : DropFront(q, n)[i] = q[n + i]
  BY DEF DropFront

\* When every hash is logged once, dropping n entries removes exactly their
\* hashes from the set of logged ones.
LEMMA DropFrontHashes ==
  ASSUME NEW q \in Seq(Entry), NEW n \in 0 .. Len(q), Unique(q)
  PROVE  /\ Unique(DropFront(q, n))
         /\ FrontHashes(DropFront(q, n), Len(DropFront(q, n)))
              = FrontHashes(q, Len(q)) \ FrontHashes(q, n)
<1> DEFINE d == DropFront(q, n)
<1>1. /\ d \in Seq(Entry)
      /\ Len(d) = Len(q) - n
      /\ \A i \in 1 .. Len(q) - n : d[i] = q[n + i]
  BY DropFrontFacts
<1> HIDE DEF d
<1>2. Unique(d)
  <2> SUFFICES ASSUME NEW i \in 1 .. Len(d), NEW j \in 1 .. Len(d), d[i].hash = d[j].hash
               PROVE  i = j
    BY DEF Unique
  <2>1. q[n + i].hash = q[n + j].hash /\ n + i \in 1 .. Len(q) /\ n + j \in 1 .. Len(q)
    BY <1>1
  <2> QED BY <2>1 DEF Unique
<1>3. ASSUME NEW h \in FrontHashes(d, Len(d))
      PROVE  h \in FrontHashes(q, Len(q)) \ FrontHashes(q, n)
  <2>1. PICK i \in 1 .. Len(d) : h = d[i].hash
    BY <1>3 DEF FrontHashes
  <2>2. h = q[n + i].hash /\ n + i \in 1 .. Len(q)
    BY <1>1, <2>1
  <2>3. \A k \in 1 .. n : q[k].hash # h
    BY <2>2 DEF Unique
  <2> QED BY <2>2, <2>3 DEF FrontHashes
<1>4. ASSUME NEW h \in FrontHashes(q, Len(q)) \ FrontHashes(q, n)
      PROVE  h \in FrontHashes(d, Len(d))
  <2>1. PICK k \in 1 .. Len(q) : h = q[k].hash
    BY <1>4 DEF FrontHashes
  <2>2. k > n
    BY <1>4, <2>1 DEF FrontHashes
  <2>3. k - n \in 1 .. Len(d) /\ d[k - n] = q[k]
    BY <1>1, <2>2
  <2> QED BY <2>1, <2>3 DEF FrontHashes
<1> QED BY <1>2, <1>3, <1>4 DEF d

-----------------------------------------------------------------------------
(***************************************************************************)
(* What the purge does to the log, under the invariant.  Both              *)
(* check_and_record and purge_expired start with it.                       *)
(***************************************************************************)

\* After the purge the log and the index still agree, the history still
\* matches up to the length of the log, and every hash it dropped was expired.
LEMMA PurgeFacts ==
  ASSUME Inv, NEW now \in Nat, NEW n \in PurgeCounts(queue, now)
  PROVE  LET q == DropFront(queue, n)
             s == seen \ FrontHashes(queue, n)
         IN  /\ q \in Seq(Entry)
             /\ n \in 0 .. Len(queue)
             /\ Len(q) = Len(queue) - n
             /\ Len(q) <= Capacity
             /\ \A i \in 1 .. Len(q) : q[i] = queue[n + i]
             /\ Unique(q)
             /\ s = FrontHashes(q, Len(q))
             /\ \A i \in 1 .. Len(q) : /\ last[q[i].hash] = q[i].at
                                       /\ since[q[i].hash] = Len(q) - i
                                       /\ q[i].at <= clock
             /\ \A i, j \in 1 .. Len(q) : i <= j => q[i].at - q[j].at <= MaxStall
             /\ \A h \in FrontHashes(queue, n) : now - last[h] > Window
<1> DEFINE q == DropFront(queue, n)
           s == seen \ FrontHashes(queue, n)
<1>1. n \in 0 .. Len(queue) /\ queue \in Seq(Entry) /\ Unique(queue)
  BY DEF Inv, TypeOK, PurgeCounts, LogMatchesIndex, Unique
<1>2. /\ q \in Seq(Entry)
      /\ Len(q) = Len(queue) - n
      /\ \A i \in 1 .. Len(q) : q[i] = queue[n + i]
  BY <1>1, DropFrontFacts
<1>3. Unique(q) /\ s = FrontHashes(q, Len(q))
  BY <1>1, DropFrontHashes DEF Inv, LogMatchesIndex
<1>4. Len(q) <= Capacity
  BY <1>1, <1>2, CapacityPositive DEF Inv, LogMatchesIndex
<1>5. \A i \in 1 .. Len(q) : /\ last[q[i].hash] = q[i].at
                             /\ since[q[i].hash] = Len(q) - i
                             /\ q[i].at <= clock
  <2> SUFFICES ASSUME NEW i \in 1 .. Len(q)
               PROVE  /\ last[q[i].hash] = q[i].at
                      /\ since[q[i].hash] = Len(q) - i
                      /\ q[i].at <= clock
    OBVIOUS
  <2>1. n + i \in 1 .. Len(queue) /\ q[i] = queue[n + i]
    BY <1>1, <1>2
  <2> HIDE DEF q
  <2> QED BY <1>1, <1>2, <2>1 DEF Inv, HistoryMatchesLog, SkewBounded
<1>6. \A i, j \in 1 .. Len(q) : i <= j => q[i].at - q[j].at <= MaxStall
  <2> SUFFICES ASSUME NEW i \in 1 .. Len(q), NEW j \in 1 .. Len(q), i <= j
               PROVE  q[i].at - q[j].at <= MaxStall
    OBVIOUS
  <2>1. /\ n + i \in 1 .. Len(queue) /\ q[i] = queue[n + i]
        /\ n + j \in 1 .. Len(queue) /\ q[j] = queue[n + j]
        /\ n + i <= n + j
    BY <1>1, <1>2
  <2>2. queue[n + i].at - queue[n + j].at <= MaxStall
    BY <2>1 DEF Inv, SkewBounded
  <2> HIDE DEF q
  <2> QED BY <2>1, <2>2
<1>7. \A h \in FrontHashes(queue, n) : now - last[h] > Window
  <2> SUFFICES ASSUME NEW i \in 1 .. n PROVE now - last[queue[i].hash] > Window
    BY DEF FrontHashes
  <2>1. now - queue[i].at > Window
    BY DEF PurgeCounts, Expired
  <2>2. last[queue[i].hash] = queue[i].at
    BY <1>1 DEF Inv, HistoryMatchesLog
  <2> QED BY <2>1, <2>2
<1> HIDE DEF q, s
<1> QED BY <1>1, <1>2, <1>3, <1>4, <1>5, <1>6, <1>7 DEF q, s

-----------------------------------------------------------------------------
(***************************************************************************)
(* Every action preserves the invariant.                                   *)
(***************************************************************************)

\* A call's reading of the clock, its hash and the new greatest instant.
LEMMA CallFacts ==
  ASSUME Inv, NEW t \in Threads, call[t].state = "waiting"
  PROVE  /\ call[t].hash \in Hashes
         /\ call[t].now \in Nat
         /\ call[t].now <= clock
         /\ clock - call[t].now <= MaxStall
         /\ clock \in Nat
  BY DEF Inv, TypeOK, Call, SkewBounded

\* An answered call leaves the readings of the calls still waiting alone.
LEMMA AnswerKeepsReadings ==
  ASSUME Inv, NEW t \in Threads, NEW v \in {"Fresh", "Duplicate"},
         call' = [call EXCEPT ![t].state = v], clock' = clock
  PROVE  /\ call' \in [Threads -> Call]
         /\ \A u \in Threads : call'[u].state = "waiting" =>
              call'[u].now <= clock' /\ clock' - call'[u].now <= MaxStall
  BY DEF Inv, TypeOK, Call, SkewBounded

\* The verdict a call gets tells which branch it took.
LEMMA VerdictFacts ==
  ASSUME Inv, NEW t \in Threads, NEW n
  PROVE  /\ Refuse(t, n) => call'[t].state = "Duplicate"
         /\ Admit(t, n) => call'[t].state = "Fresh"
<1>1. call[t] \in [state : {"idle", "waiting", "Fresh", "Duplicate"}, hash : Hashes, now : Nat]
      /\ t \in DOMAIN call
  BY DEF Inv, TypeOK, Call
<1>2. ASSUME NEW v, call' = [call EXCEPT ![t].state = v]
      PROVE  call'[t].state = v
  BY <1>1, <1>2
<1> QED BY <1>2 DEF Refuse, Admit

\* The greatest instant only grows, so a hash that was due stays due.
LEMMA LaterFacts ==
  ASSUME NEW a \in Nat, NEW b \in Nat
  PROVE  Later(a, b) \in Nat /\ Later(a, b) >= a /\ Later(a, b) >= b
  BY DEF Later

\* A purge alone preserves everything but the caller's state.
LEMMA PurgeStep ==
  ASSUME Inv, NEW now \in Nat, NEW n \in PurgeCounts(queue, now),
         queue' = DropFront(queue, n),
         seen' = seen \ FrontHashes(queue, n),
         latest' = Later(latest, now),
         UNCHANGED <<clock, last, since>>
  PROVE  /\ queue' \in Seq(Entry) /\ seen' \subseteq Hashes /\ latest' \in Nat
         /\ LogMatchesIndex' /\ HistoryMatchesLog' /\ ForgottenOnlyWhenDue'
         /\ \A i \in 1 .. Len(queue') : queue'[i].at <= clock'
         /\ \A i, j \in 1 .. Len(queue') :
              i <= j => queue'[i].at - queue'[j].at <= MaxStall
<1> DEFINE q == DropFront(queue, n)
           s == seen \ FrontHashes(queue, n)
<1>1. /\ q \in Seq(Entry)
      /\ Len(q) <= Capacity
      /\ Unique(q)
      /\ s = FrontHashes(q, Len(q))
      /\ \A i \in 1 .. Len(q) : /\ last[q[i].hash] = q[i].at
                                /\ since[q[i].hash] = Len(q) - i
                                /\ q[i].at <= clock
      /\ \A i, j \in 1 .. Len(q) : i <= j => q[i].at - q[j].at <= MaxStall
      /\ \A h \in FrontHashes(queue, n) : now - last[h] > Window
  BY PurgeFacts
<1>2. queue' = q /\ seen' = s
  OBVIOUS
<1>3. latest' \in Nat /\ latest' >= latest /\ latest' >= now /\ latest \in Nat
  BY LaterFacts DEF Inv, TypeOK
<1>4. seen' \subseteq Hashes
  BY DEF Inv, TypeOK
<1>5. ForgottenOnlyWhenDue'
  <2> SUFFICES ASSUME NEW h \in Hashes, last[h] # Never, h \notin seen'
               PROVE  latest' - last[h] > Window \/ since[h] = Capacity
    BY DEF ForgottenOnlyWhenDue, Capacity
  <2>1. last[h] \in Nat
    BY DEF Inv, TypeOK
  <2>2. CASE h \in FrontHashes(queue, n)
    <3>1. now - last[h] > Window
      BY <1>1, <2>2
    <3> QED BY <1>3, <2>1, <3>1, DedupAssumption
  <2>3. CASE h \notin seen
    <3>1. latest - last[h] > Window \/ since[h] = Capacity
      BY <2>3 DEF Inv, ForgottenOnlyWhenDue
    <3> QED BY <1>3, <2>1, <3>1, DedupAssumption
  <2> QED BY <2>2, <2>3
<1> HIDE DEF q, s
<1>6. LogMatchesIndex'
  <2>1. \A i, j \in 1 .. Len(queue') : queue'[i].hash = queue'[j].hash => i = j
    BY <1>1, <1>2 DEF Unique
  <2>2. seen' = {queue'[i].hash : i \in 1 .. Len(queue')}
    BY <1>1, <1>2 DEF FrontHashes
  <2> QED BY <1>1, <1>2, <2>1, <2>2 DEF LogMatchesIndex, FrontHashes
<1>7. HistoryMatchesLog'
  BY <1>1, <1>2 DEF HistoryMatchesLog
<1> QED BY <1>1, <1>2, <1>3, <1>4, <1>5, <1>6, <1>7

\* A Duplicate verdict preserves the invariant.
LEMMA RefuseStep ==
  ASSUME Inv, NEW t \in Threads, call[t].state = "waiting",
         NEW n \in PurgeCounts(queue, call[t].now), Refuse(t, n),
         latest' = Later(latest, call[t].now), clock' = clock
  PROVE  Inv'
<1>1. /\ queue' \in Seq(Entry) /\ seen' \subseteq Hashes /\ latest' \in Nat
      /\ LogMatchesIndex' /\ HistoryMatchesLog' /\ ForgottenOnlyWhenDue'
      /\ \A i \in 1 .. Len(queue') : queue'[i].at <= clock'
      /\ \A i, j \in 1 .. Len(queue') : i <= j => queue'[i].at - queue'[j].at <= MaxStall
  BY CallFacts, PurgeStep DEF Refuse
<1>2. /\ call' \in [Threads -> Call]
      /\ \A u \in Threads : call'[u].state = "waiting" =>
           call'[u].now <= clock' /\ clock' - call'[u].now <= MaxStall
  BY AnswerKeepsReadings DEF Refuse
<1>3. TypeOK'
  BY <1>1, <1>2 DEF Inv, TypeOK, Refuse, Capacity
<1>4. SkewBounded'
  BY <1>1, <1>2 DEF SkewBounded
<1> QED BY <1>1, <1>3, <1>4 DEF Inv

\* What Admit appends to: the purged log with the new entry at the back.
LEMMA PushFacts ==
  ASSUME NEW q \in Seq(Entry), NEW e \in Entry, Unique(q),
         e.hash \notin FrontHashes(q, Len(q))
  PROVE  LET p == Append(q, e)
         IN  /\ p \in Seq(Entry)
             /\ Len(p) = Len(q) + 1
             /\ \A i \in 1 .. Len(q) : p[i] = q[i]
             /\ p[Len(p)] = e
             /\ Unique(p)
             /\ FrontHashes(p, Len(p)) = FrontHashes(q, Len(q)) \cup {e.hash}
<1> DEFINE p == Append(q, e)
<1>1. /\ p \in Seq(Entry)
      /\ Len(p) = Len(q) + 1
      /\ \A i \in 1 .. Len(q) : p[i] = q[i]
      /\ p[Len(p)] = e
  OBVIOUS
<1> HIDE DEF p
<1>2. \A i \in 1 .. Len(q) : p[i].hash # e.hash
  BY <1>1 DEF FrontHashes
<1>3. Unique(p)
  <2> SUFFICES ASSUME NEW i \in 1 .. Len(p), NEW j \in 1 .. Len(p), p[i].hash = p[j].hash
               PROVE  i = j
    BY DEF Unique
  <2>1. CASE i \in 1 .. Len(q) /\ j \in 1 .. Len(q)
    BY <1>1, <2>1 DEF Unique
  <2>2. CASE i = Len(p) \/ j = Len(p)
    BY <1>1, <1>2, <2>2
  <2> QED BY <1>1, <2>1, <2>2
<1>4. FrontHashes(p, Len(p)) = FrontHashes(q, Len(q)) \cup {e.hash}
  <2>1. ASSUME NEW h \in FrontHashes(p, Len(p))
        PROVE  h \in FrontHashes(q, Len(q)) \cup {e.hash}
    <3>1. PICK i \in 1 .. Len(p) : h = p[i].hash
      BY <2>1 DEF FrontHashes
    <3> QED BY <1>1, <3>1 DEF FrontHashes
  <2>2. ASSUME NEW h \in FrontHashes(q, Len(q)) \cup {e.hash}
        PROVE  h \in FrontHashes(p, Len(p))
    <3>1. CASE h = e.hash
      <4>1. Len(p) \in 1 .. Len(p)
        BY <1>1
      <4> QED BY <1>1, <3>1, <4>1 DEF FrontHashes
    <3>2. CASE h \in FrontHashes(q, Len(q))
      <4>1. PICK i \in 1 .. Len(q) : h = q[i].hash
        BY <3>2 DEF FrontHashes
      <4>2. i \in 1 .. Len(p) /\ h = p[i].hash
        BY <1>1, <4>1
      <4> QED BY <4>2 DEF FrontHashes
    <3> QED BY <2>2, <3>1, <3>2
  <2> QED BY <2>1, <2>2
<1> QED BY <1>1, <1>3, <1>4 DEF p

\* The capacity loop pops at most one entry, and never the new one.
LEMMA OverflowFacts ==
  ASSUME NEW p \in Seq(Entry), Len(p) >= 1, Len(p) <= Capacity + 1
  PROVE  /\ Overflow(p) \in {0, 1}
         /\ Overflow(p) < Len(p)
         /\ Len(p) - Overflow(p) <= Capacity
         /\ Overflow(p) = 1 => Len(p) = Capacity + 1
  BY CapacityPositive DEF Overflow

\* A Fresh verdict preserves the invariant.
LEMMA AdmitStep ==
  ASSUME Inv, NEW t \in Threads, call[t].state = "waiting",
         NEW n \in PurgeCounts(queue, call[t].now), Admit(t, n),
         latest' = Later(latest, call[t].now), clock' = clock
  PROVE  Inv'
<1> DEFINE now  == call[t].now
           h    == call[t].hash
           e    == [hash |-> h, at |-> now]
           q    == DropFront(queue, n)
           s    == seen \ FrontHashes(queue, n)
           p    == Append(q, e)
           over == Overflow(p)
<1>1. now \in Nat /\ h \in Hashes /\ clock \in Nat /\ now <= clock /\ clock - now <= MaxStall
  BY CallFacts
<1>2. /\ q \in Seq(Entry)
      /\ Len(q) <= Capacity
      /\ Unique(q)
      /\ s = FrontHashes(q, Len(q))
      /\ \A i \in 1 .. Len(q) : /\ last[q[i].hash] = q[i].at
                                /\ since[q[i].hash] = Len(q) - i
                                /\ q[i].at <= clock
      /\ \A i, j \in 1 .. Len(q) : i <= j => q[i].at - q[j].at <= MaxStall
      /\ \A x \in FrontHashes(queue, n) : now - last[x] > Window
  BY <1>1, PurgeFacts
<1>3. /\ h \notin s
      /\ call' = [call EXCEPT ![t].state = "Fresh"]
      /\ queue' = DropFront(p, over)
      /\ seen' = (s \cup {h}) \ FrontHashes(p, over)
      /\ last' = [last EXCEPT ![h] = now]
      /\ since' = [x \in Hashes |->
                     IF x = h \/ last[x] = Never THEN 0
                     ELSE IF since[x] < Capacity THEN since[x] + 1 ELSE Capacity]
  BY DEF Admit
<1>4. e \in Entry /\ e.hash = h /\ e.at = now
  BY <1>1 DEF Entry
<1>5. latest' \in Nat /\ latest' >= latest /\ latest' >= now /\ latest \in Nat
  BY <1>1, LaterFacts DEF Inv, TypeOK
<1>6. /\ call' \in [Threads -> Call]
      /\ \A u \in Threads : call'[u].state = "waiting" =>
           call'[u].now <= clock' /\ clock' - call'[u].now <= MaxStall
  BY <1>3, AnswerKeepsReadings
<1>7. /\ last \in [Hashes -> Nat \cup {Never}]
      /\ since \in [Hashes -> 0 .. Capacity]
      /\ seen \subseteq Hashes
  BY DEF Inv, TypeOK
<1>8. \A x \in FrontHashes(queue, n) \cup s : x \in FrontHashes(queue, n) \/ x \in s
  OBVIOUS
<1> HIDE DEF now, h, e, q, s
<1>9. /\ p \in Seq(Entry)
      /\ Len(p) = Len(q) + 1
      /\ \A i \in 1 .. Len(q) : p[i] = q[i]
      /\ p[Len(p)] = e
      /\ Unique(p)
      /\ FrontHashes(p, Len(p)) = s \cup {h}
  BY <1>2, <1>3, <1>4, PushFacts
<1>10. Len(q) \in Nat
  BY <1>2
<1> HIDE DEF p
<1>11. /\ over \in {0, 1}
       /\ over < Len(p)
       /\ Len(p) - over <= Capacity
       /\ over = 1 => Len(p) = Capacity + 1
  BY <1>2, <1>9, <1>10, CapacityPositive, OverflowFacts
<1> HIDE DEF over
<1>12. over \in 0 .. Len(p)
  BY <1>9, <1>10, <1>11
<1>13. /\ queue' \in Seq(Entry)
       /\ Len(queue') = Len(p) - over
       /\ \A i \in 1 .. Len(queue') : queue'[i] = p[over + i]
  BY <1>3, <1>9, <1>12, DropFrontFacts
<1>14. Unique(queue') /\ FrontHashes(queue', Len(queue')) = seen'
  BY <1>3, <1>9, <1>12, DropFrontHashes
<1>15. \A i \in 1 .. Len(queue') :
         \/ /\ i = Len(queue')
            /\ queue'[i] = e
         \/ /\ over + i \in 1 .. Len(q)
            /\ i < Len(queue')
            /\ queue'[i] = q[over + i]
            /\ q[over + i].hash # h
  <2> SUFFICES ASSUME NEW i \in 1 .. Len(queue')
               PROVE  \/ i = Len(queue') /\ queue'[i] = e
                      \/ /\ over + i \in 1 .. Len(q)
                         /\ i < Len(queue')
                         /\ queue'[i] = q[over + i]
                         /\ q[over + i].hash # h
    OBVIOUS
  <2>1. CASE i = Len(queue')
    BY <1>9, <1>10, <1>11, <1>13, <2>1
  <2>2. CASE i # Len(queue')
    <3>1. over + i \in 1 .. Len(q) /\ i < Len(queue') /\ queue'[i] = q[over + i]
      BY <1>9, <1>10, <1>11, <1>13, <2>2
    <3>2. q[over + i].hash # h
      BY <1>2, <1>3, <3>1 DEF FrontHashes
    <3> QED BY <3>1, <3>2
  <2> QED BY <2>1, <2>2
<1>16. LogMatchesIndex'
  BY <1>11, <1>13, <1>14 DEF LogMatchesIndex, Unique
<1>17. HistoryMatchesLog'
  <2> SUFFICES ASSUME NEW i \in 1 .. Len(queue')
               PROVE  /\ last'[queue'[i].hash] = queue'[i].at
                      /\ since'[queue'[i].hash] = Len(queue') - i
    BY DEF HistoryMatchesLog
  <2>1. CASE i = Len(queue') /\ queue'[i] = e
    BY <1>1, <1>3, <1>4, <1>7, <1>13, <2>1
  <2>2. CASE /\ over + i \in 1 .. Len(q)
             /\ queue'[i] = q[over + i]
             /\ q[over + i].hash # h
    <3> DEFINE x == q[over + i].hash
    <3>1. q[over + i] \in Entry
      BY <1>2, <2>2
    <3>2. x \in Hashes /\ q[over + i].at \in Nat
      BY <3>1 DEF Entry
    <3>3. last[x] = q[over + i].at /\ since[x] = Len(q) - (over + i)
      BY <1>2, <2>2
    <3>4. last[x] # Never
      BY <3>2, <3>3 DEF Never
    <3>5. last'[x] = last[x]
      BY <1>3, <1>7, <2>2, <3>2
    <3>6. since[x] < Capacity
      BY <1>2, <1>10, <1>11, <2>2, <3>3, CapacityPositive
    <3>7. since'[x] = since[x] + 1
      BY <1>3, <2>2, <3>2, <3>4, <3>6
    <3>8. since'[x] = Len(queue') - i
      BY <1>9, <1>10, <1>11, <1>13, <3>3, <3>7
    <3> QED BY <2>2, <3>3, <3>5, <3>8
  <2> QED BY <1>15, <2>1, <2>2
<1>18. ForgottenOnlyWhenDue'
  <2> SUFFICES ASSUME NEW x \in Hashes, last'[x] # Never, x \notin seen'
               PROVE  latest' - last'[x] > Window \/ since'[x] = Capacity
    BY DEF ForgottenOnlyWhenDue
  <2>1. x # h
    <3>1. Len(queue') \in 1 .. Len(queue') /\ queue'[Len(queue')] = e
      BY <1>9, <1>10, <1>11, <1>13
    <3>2. h \in seen'
      BY <1>4, <1>14, <3>1 DEF FrontHashes
    <3> QED BY <3>2
  <2>2. last'[x] = last[x] /\ last[x] \in Nat
    BY <1>3, <1>7, <2>1
  <2>3. since'[x] = IF since[x] < Capacity THEN since[x] + 1 ELSE Capacity
    BY <1>3, <2>1, <2>2
  <2>4. CASE x \in FrontHashes(queue, n)
    <3>1. now - last[x] > Window
      BY <1>2, <2>4
    <3> QED BY <1>1, <1>5, <2>2, <3>1, DedupAssumption
  <2>5. CASE x \notin seen
    <3>1. latest - last[x] > Window \/ since[x] = Capacity
      BY <2>2, <2>5 DEF Inv, ForgottenOnlyWhenDue
    <3> QED BY <1>5, <2>2, <2>3, <3>1, DedupAssumption, CapacityPositive
  <2>6. CASE x \in s
    <3>1. x \in FrontHashes(p, over)
      BY <1>3, <2>6
    <3>2. over = 1 /\ x = p[1].hash
      BY <1>11, <3>1 DEF FrontHashes
    <3>3. 1 \in 1 .. Len(q) /\ p[1] = q[1]
      BY <1>9, <1>10, <1>11, <3>2, CapacityPositive
    <3>4. since[x] = Capacity - 1
      BY <1>2, <1>9, <1>10, <1>11, <3>2, <3>3, CapacityPositive
    <3> QED BY <2>3, <3>4, CapacityPositive
  <2> QED BY <2>4, <2>5, <2>6 DEF s
<1>19. SkewBounded'
  <2>1. \A i \in 1 .. Len(queue') : queue'[i].at <= clock'
    BY <1>1, <1>2, <1>4, <1>15
  <2>2. ASSUME NEW i \in 1 .. Len(queue'), NEW j \in 1 .. Len(queue'), i <= j
        PROVE  queue'[i].at - queue'[j].at <= MaxStall
    <3>1. CASE i = Len(queue')
      <4>1. i = j
        BY <1>13, <2>2, <3>1
      <4>2. queue'[i] \in Entry
        BY <1>13
      <4> QED BY <4>1, <4>2, DedupAssumption DEF Entry
    <3>2. CASE i # Len(queue') /\ j = Len(queue')
      <4>1. over + i \in 1 .. Len(q) /\ queue'[i] = q[over + i] /\ queue'[j] = e
        BY <1>15, <3>2
      <4>2. q[over + i].at <= clock /\ q[over + i] \in Entry
        BY <1>2, <4>1
      <4> QED BY <1>1, <1>4, <4>1, <4>2, DedupAssumption DEF Entry
    <3>3. CASE i # Len(queue') /\ j # Len(queue')
      <4>1. /\ over + i \in 1 .. Len(q) /\ queue'[i] = q[over + i]
            /\ over + j \in 1 .. Len(q) /\ queue'[j] = q[over + j]
        BY <1>15, <3>3
      <4>2. over + i <= over + j
        BY <1>11, <2>2
      <4> QED BY <1>2, <4>1, <4>2
    <3> QED BY <3>1, <3>2, <3>3
  <2> QED BY <1>6, <2>1, <2>2 DEF SkewBounded
<1>20. TypeOK'
  <2>1. seen' \subseteq Hashes
    BY <1>1, <1>3, <1>7 DEF s
  <2>2. last' \in [Hashes -> Nat \cup {Never}]
    BY <1>1, <1>3, <1>7
  <2>3. since' \in [Hashes -> 0 .. Capacity]
    BY <1>3, <1>7, CapacityPositive
  <2> QED BY <1>1, <1>5, <1>6, <1>13, <2>1, <2>2, <2>3 DEF TypeOK
<1> QED BY <1>16, <1>17, <1>18, <1>19, <1>20 DEF Inv

\* The empty filter satisfies the invariant.
LEMMA InitInv == Init => Inv
  BY DedupAssumption, CapacityPositive
     DEF Init, Inv, TypeOK, Call, Entry, Never, LogMatchesIndex, HistoryMatchesLog,
         ForgottenOnlyWhenDue, SkewBounded, FrontHashes

\* Every step of a thread, the purge and the clock preserve the invariant.
LEMMA NextInv == Inv /\ [Next]_vars => Inv'
<1> SUFFICES ASSUME Inv, [Next]_vars PROVE Inv'
  OBVIOUS
<1>1. ASSUME NEW t \in Threads, NEW h \in Hashes, ReadClock(t, h)
      PROVE  Inv'
  <2>1. /\ call' = [call EXCEPT ![t] = [state |-> "waiting", hash |-> h, now |-> clock]]
        /\ UNCHANGED <<clock, queue, seen, last, since, latest>>
    BY <1>1 DEF ReadClock, history
  <2>2. call' \in [Threads -> Call] /\ clock \in Nat
    BY <2>1 DEF Inv, TypeOK, Call
  <2>3. TypeOK'
    BY <2>1, <2>2 DEF Inv, TypeOK
  <2>4. SkewBounded'
    BY <2>1, <2>2, DedupAssumption DEF Inv, TypeOK, SkewBounded
  <2>5. LogMatchesIndex' /\ HistoryMatchesLog' /\ ForgottenOnlyWhenDue'
    BY <2>1 DEF Inv, LogMatchesIndex, FrontHashes, HistoryMatchesLog, ForgottenOnlyWhenDue
  <2> QED BY <2>3, <2>4, <2>5 DEF Inv
<1>2. ASSUME NEW t \in Threads, CheckAndRecord(t)
      PROVE  Inv'
  BY <1>2, RefuseStep, AdmitStep DEF CheckAndRecord
<1>3. CASE PurgeExpired
  <2>1. clock \in Nat /\ call' = call /\ clock' = clock
    BY <1>3 DEF PurgeExpired, Inv, TypeOK
  <2>2. /\ queue' \in Seq(Entry) /\ seen' \subseteq Hashes /\ latest' \in Nat
        /\ LogMatchesIndex' /\ HistoryMatchesLog' /\ ForgottenOnlyWhenDue'
        /\ \A i \in 1 .. Len(queue') : queue'[i].at <= clock'
        /\ \A i, j \in 1 .. Len(queue') : i <= j => queue'[i].at - queue'[j].at <= MaxStall
    BY <1>3, <2>1, PurgeStep DEF PurgeExpired
  <2>3. TypeOK'
    BY <1>3, <2>1, <2>2 DEF PurgeExpired, Inv, TypeOK
  <2>4. SkewBounded'
    BY <2>1, <2>2 DEF Inv, SkewBounded
  <2> QED BY <2>2, <2>3, <2>4 DEF Inv
<1>4. CASE Tick
  <2>1. /\ clock' = clock + 1 /\ clock \in Nat
        /\ \A t \in Threads : call[t].state = "waiting" => clock - call[t].now < MaxStall
        /\ UNCHANGED <<call, queue, seen, last, since, latest>>
    BY <1>4 DEF Tick, history, Inv, TypeOK
  <2>2. TypeOK'
    BY <2>1 DEF Inv, TypeOK
  <2>3. SkewBounded'
    <3>1. ASSUME NEW t \in Threads, call'[t].state = "waiting"
          PROVE  call'[t].now <= clock' /\ clock' - call'[t].now <= MaxStall
      <4>1. /\ call'[t] = call[t] /\ call[t] \in Call
            /\ call[t].now <= clock /\ clock - call[t].now < MaxStall
        BY <2>1, <3>1 DEF Inv, TypeOK, SkewBounded
      <4>2. call[t].now \in Nat
        BY <4>1 DEF Call
      <4> QED BY <2>1, <4>1, <4>2, DedupAssumption
    <3>2. ASSUME NEW i \in 1 .. Len(queue)
          PROVE  queue[i].at <= clock'
      <4>1. queue[i].at <= clock /\ queue[i] \in Entry
        BY DEF Inv, TypeOK, SkewBounded
      <4> QED BY <2>1, <4>1 DEF Entry
    <3> QED BY <2>1, <3>1, <3>2 DEF Inv, SkewBounded
  <2>4. LogMatchesIndex' /\ HistoryMatchesLog' /\ ForgottenOnlyWhenDue'
    BY <2>1 DEF Inv, LogMatchesIndex, FrontHashes, HistoryMatchesLog, ForgottenOnlyWhenDue
  <2> QED BY <2>2, <2>3, <2>4 DEF Inv
<1>5. CASE UNCHANGED vars
  BY <1>5 DEF vars, Inv, TypeOK, LogMatchesIndex, FrontHashes, HistoryMatchesLog,
              ForgottenOnlyWhenDue, SkewBounded
<1> QED BY <1>1, <1>2, <1>3, <1>4, <1>5 DEF Next

-----------------------------------------------------------------------------
(***************************************************************************)
(* The theorems.                                                           *)
(***************************************************************************)

\* The strengthened invariant holds in every reachable state.
THEOREM Invariance == Spec => []Inv
  BY InitInv, NextInv, PTL DEF Spec

\* Every variable keeps its type: in particular the age arithmetic of the
\* purge is only ever done on natural numbers.
THEOREM TypeCorrectness == Spec => []TypeOK
<1>1. Inv => TypeOK
  BY DEF Inv
<1> QED BY <1>1, Invariance, PTL

\* The insert-order log and the membership index never drift apart and never
\* exceed the capacity (dedup_window.rs check_and_record_at, purge_inner).
THEOREM LogMatchesIndexAlways == Spec => []LogMatchesIndex
<1>1. Inv => LogMatchesIndex
  BY DEF Inv
<1> QED BY <1>1, Invariance, PTL

\* A recorded observation is forgotten only when it expired or when Capacity
\* younger ones displaced it.
THEOREM ForgottenOnlyWhenDueAlways == Spec => []ForgottenOnlyWhenDue
<1>1. Inv => ForgottenOnlyWhenDue
  BY DEF Inv
<1> QED BY <1>1, Invariance, PTL

\* A replay inside the window is admitted at most once: a second Fresh
\* verdict for a hash comes only after its first admission was due.
THEOREM ReadmittedOnlyWhenDueAlways == Spec => ReadmittedOnlyWhenDue
<1>1. ASSUME Inv, [Next]_vars, NEW t \in Threads,
             call[t].state = "waiting", call'[t].state = "Fresh",
             last[call[t].hash] # Never
      PROVE  \/ latest' - last[call[t].hash] > Window
             \/ since[call[t].hash] = Capacity
  <2> DEFINE h == call[t].hash
  <2>1. PICK u \in Threads : CheckAndRecord(u)
    BY <1>1 DEF Next, ReadClock, PurgeExpired, Tick, vars, Inv, TypeOK
  <2>2. u = t
    BY <1>1, <2>1 DEF CheckAndRecord, Refuse, Admit, Inv, TypeOK
  <2>3. PICK n \in PurgeCounts(queue, call[t].now) : Refuse(t, n) \/ Admit(t, n)
    BY <2>1, <2>2 DEF CheckAndRecord
  <2>4. Admit(t, n)
    BY <1>1, <2>3, VerdictFacts
  <2>5. h \notin seen \/ h \in FrontHashes(queue, n)
    BY <2>4 DEF Admit
  <2>6. /\ h \in Hashes /\ last[h] \in Nat /\ latest \in Nat /\ call[t].now \in Nat
        /\ latest' >= latest /\ latest' >= call[t].now /\ latest' \in Nat
    BY <1>1, <2>1, <2>2, CallFacts, LaterFacts DEF CheckAndRecord, Inv, TypeOK
  <2>7. CASE h \in FrontHashes(queue, n)
    <3>1. call[t].now - last[h] > Window
      BY <1>1, <2>6, <2>7, PurgeFacts
    <3> QED BY <2>6, <3>1, DedupAssumption
  <2>8. CASE h \notin seen
    <3>1. latest - last[h] > Window \/ since[h] = Capacity
      BY <1>1, <2>6, <2>8 DEF Inv, ForgottenOnlyWhenDue
    <3> QED BY <2>6, <3>1, DedupAssumption
  <2> QED BY <2>5, <2>7, <2>8
<1>2. Inv /\ [Next]_vars =>
        [\A t \in Threads :
           /\ call[t].state = "waiting"
           /\ call'[t].state = "Fresh"
           /\ last[call[t].hash] # Never
           => \/ latest' - last[call[t].hash] > Window
              \/ since[call[t].hash] = Capacity]_vars
  BY <1>1
<1> QED BY <1>2, Invariance, PTL DEF Spec, ReadmittedOnlyWhenDue

\* A Duplicate verdict is given only for content admitted within the window
\* plus the longest wait for the mutex.
THEOREM DuplicatesAreRecentAlways == Spec => DuplicatesAreRecent
<1>1. ASSUME Inv, [Next]_vars, NEW t \in Threads,
             call[t].state = "waiting", call'[t].state = "Duplicate"
      PROVE  /\ last[call[t].hash] # Never
             /\ call[t].now - last[call[t].hash] <= Window + MaxStall
  <2> DEFINE h == call[t].hash
             now == call[t].now
  <2>1. PICK u \in Threads : CheckAndRecord(u)
    BY <1>1 DEF Next, ReadClock, PurgeExpired, Tick, vars, Inv, TypeOK
  <2>2. u = t
    BY <1>1, <2>1 DEF CheckAndRecord, Refuse, Admit, Inv, TypeOK
  <2>3. PICK n \in PurgeCounts(queue, now) : Refuse(t, n) \/ Admit(t, n)
    BY <2>1, <2>2 DEF CheckAndRecord
  <2>4. h \in seen \ FrontHashes(queue, n)
    <3>1. Refuse(t, n)
      BY <1>1, <2>3, VerdictFacts
    <3> QED BY <3>1 DEF Refuse
  <2>5. n \in 0 .. Len(queue) /\ (n < Len(queue) => ~Expired(queue[n + 1], now))
    BY <2>3 DEF PurgeCounts
  <2>6. PICK j \in 1 .. Len(queue) : queue[j].hash = h
    BY <1>1, <2>4 DEF Inv, LogMatchesIndex, FrontHashes
  <2>7. j > n
    BY <2>4, <2>5, <2>6 DEF FrontHashes
  <2>8. n + 1 \in 1 .. Len(queue) /\ n + 1 <= j
    BY <2>5, <2>6, <2>7
  <2>9. queue[n + 1].at - queue[j].at <= MaxStall
    BY <1>1, <2>6, <2>8 DEF Inv, SkewBounded
  <2>10. now - queue[n + 1].at <= Window
    <3>1. queue[n + 1] \in Entry /\ now \in Nat
      BY <1>1, <2>8, CallFacts DEF Inv, TypeOK
    <3> QED BY <2>5, <2>8, <3>1, DedupAssumption DEF Expired, Entry
  <2>11. last[h] = queue[j].at
    BY <1>1, <2>6 DEF Inv, HistoryMatchesLog
  <2>12. queue[j].at \in Nat /\ queue[n + 1].at \in Nat /\ now \in Nat
    <3>1. queue[j] \in Entry /\ queue[n + 1] \in Entry /\ now \in Nat
      BY <1>1, <2>6, <2>8, CallFacts DEF Inv, TypeOK
    <3> QED BY <3>1 DEF Entry
  <2> QED BY <2>9, <2>10, <2>11, <2>12, DedupAssumption DEF Never
<1>2. Inv /\ [Next]_vars =>
        [\A t \in Threads :
           call[t].state = "waiting" /\ call'[t].state = "Duplicate" =>
             /\ last[call[t].hash] # Never
             /\ call[t].now - last[call[t].hash] <= Window + MaxStall]_vars
  BY <1>1
<1> QED BY <1>2, Invariance, PTL DEF Spec, DuplicatesAreRecent
=============================================================================
