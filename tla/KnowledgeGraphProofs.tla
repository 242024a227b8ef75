------------------------ MODULE KnowledgeGraphProofs ------------------------
(***************************************************************************)
(* What the knowledge graph guarantees for any number of callers, topics   *)
(* and objects, any calendar and any history of overlapping, failed and    *)
(* killed calls: the ways to a second current fact about a topic, and to   *)
(* an end that moves, are the ones its properties name.                    *)
(***************************************************************************)
EXTENDS KnowledgeGraph, TLAPS

\* What a call knows after its lookups, where they have told the truth: its
\* fact is not current; what it is about to end is all that stands in its
\* way; nothing does any more.
Told(c) ==
  /\ call[c].step = "conflict" =>
       \A i \in Current(call[c].topic) : i.object # call[c].object
  /\ call[c].step = "close" =>
       call[c].topic \in unchecked \/ Current(call[c].topic) \subseteq {call[c].victim}
  /\ call[c].step = "insert" =>
       call[c].topic \in unchecked \/ Current(call[c].topic) = {}

Informed == \A c \in Callers \ misled : Told(c)

GraphInv == TypeOK /\ Informed /\ OneCurrent

\* The statement of EndedStaysEnded for one step.
NoEndMoves ==
  \A i \in recorded : to[i] # Null =>
    \/ to'[i] = to[i]
    \/ \E c \in Callers : /\ call[c].step = "close" /\ call[c].victim = i
                          /\ call'[c].step = "insert"

\* A step that makes at most fact i current.
Grows(i) == \A s \in Topics : Current(s)' \subseteq Current(s) \cup {j \in {i} : j.topic = s}

\* The ids of new facts are ids.
LEMMA NewIdType ==
  ASSUME TypeOK, NEW t \in Topics, NEW o \in Objects
  PROVE  NewId(t, o) \in Id
BY DEF NewId, Id, Months, TypeOK

\* What Goto does to the call, and that it leaves the others alone.
LEMMA GotoEffect ==
  ASSUME call \in [Callers -> Call], NEW c \in Callers,
         NEW s \in {"close", "insert"}, NEW i \in Id \cup {NoId}, Goto(c, s, i)
  PROVE  /\ call' \in [Callers -> Call]
         /\ call'[c].step = s /\ call'[c].victim = i
         /\ call'[c].topic = call[c].topic /\ call'[c].object = call[c].object
         /\ \A d \in Callers : d # c => call'[d] = call[d]
<1> DEFINE r == [call[c] EXCEPT !.step = s, !.victim = i]
<1>1. call[c] \in Call
  OBVIOUS
<1>2. r \in Call /\ r.step = s /\ r.victim = i /\ r.topic = call[c].topic /\ r.object = call[c].object
  BY <1>1 DEF Call
<1>3. call' = [call EXCEPT ![c] = r]
  BY DEF Goto
<1> HIDE DEF r
<1> QED
  BY <1>2, <1>3

\* Type correctness is kept by every statement of every call.
LEMMA TypeStep == TypeOK /\ [Next]_vars => TypeOK'
<1> SUFFICES ASSUME TypeOK, [Next]_vars PROVE TypeOK'
  OBVIOUS
<1> USE GraphAssumption DEF Date, Null, history
<1>1. ASSUME NEW c \in Callers, NEW t \in Topics, NEW o \in Objects, NEW start \in Date,
             NEW end \in Date, BeginAdd(c, t, o, start, end)
      PROVE TypeOK'
  <2>1. call' \in [Callers -> Call]
    BY <1>1 DEF BeginAdd, TypeOK, Call
  <2> QED
    BY <1>1, <2>1 DEF BeginAdd, TypeOK
<1>2. ASSUME NEW c \in Callers, FindConflict(c) PROVE TypeOK'
  <2>1. PICK i \in Id \cup {NoId}, s \in {"close", "insert"} :
          Goto(c, s, i) /\ (s = "close" => i \in recorded)
    BY <1>2 DEF FindConflict, Current, TypeOK
  <2>2. /\ call' \in [Callers -> Call] /\ call[c].step = "conflict"
        /\ call'[c].step = s /\ call'[c].victim = i
        /\ call'[c].topic = call[c].topic /\ call'[c].object = call[c].object
        /\ \A d \in Callers : d # c => call'[d] = call[d]
    BY <1>2, <2>1, GotoEffect DEF FindConflict, TypeOK
  <2> QED
    BY <1>2, <2>1, <2>2 DEF FindConflict, TypeOK
<1>3. ASSUME NEW c \in Callers, CloseConflict(c) PROVE TypeOK'
  <2>1. to' \in [Id -> Date]
    BY <1>3 DEF CloseConflict, TypeOK, Call
  <2>2. call[c].victim \in Id \cup {NoId} /\ call[c].step = "close"
    BY <1>3 DEF CloseConflict, TypeOK, Call
  <2>3. /\ call' \in [Callers -> Call] /\ call'[c].step = "insert"
        /\ call'[c].topic = call[c].topic /\ call'[c].object = call[c].object
        /\ \A d \in Callers : d # c => call'[d] = call[d]
    BY <1>3, <2>2, GotoEffect DEF CloseConflict, TypeOK
  <2> QED
    BY <1>3, <2>1, <2>2, <2>3 DEF CloseConflict, TypeOK
<1>4. ASSUME NEW c \in Callers, InsertFact(c) PROVE TypeOK'
  <2> DEFINE i == NewId(call[c].topic, call[c].object)
  <2>1. i \in Id
    BY <1>4, NewIdType DEF InsertFact, TypeOK, Call
  <2> HIDE DEF i
  <2>2. recorded' \subseteq Id /\ recorded \subseteq recorded'
    BY <1>4, <2>1 DEF InsertFact, Record, TypeOK, i
  <2>3. to' \in [Id -> Date]
    BY <1>4, <2>1 DEF InsertFact, Record, TypeOK, Call, i
  <2>4. /\ call' \in [Callers -> Call] /\ call'[c].step = "idle"
        /\ \A d \in Callers : d # c => call'[d] = call[d]
    BY <1>4 DEF InsertFact, TypeOK, Call, NoCall
  <2>5. i.topic \in Topics
    BY <2>1 DEF Id
  <2>6. unchecked' \subseteq unchecked \cup {i.topic} /\ today' = today
    BY <1>4 DEF InsertFact, i
  <2>7. misled' \subseteq Callers
    BY <1>4 DEF InsertFact, TypeOK, TooLateFor
  <2> QED
    BY <2>2, <2>3, <2>4, <2>5, <2>6, <2>7 DEF TypeOK
<1>5. ASSUME NEW c \in Callers, NEW t \in Topics, NEW o \in Objects, NEW end \in Days,
             Invalidate(c, t, o, end)
      PROVE TypeOK'
  <2>1. to' \in [Id -> Date]
    BY <1>5 DEF Invalidate, TypeOK
  <2> QED
    BY <1>5, <2>1 DEF Invalidate, TypeOK
<1>6. ASSUME NEW c \in Callers, NEW old \in recorded, NEW t \in Topics, NEW o \in Objects,
             NEW cut \in Days, NEW end \in Date, Supersede(c, old, t, o, cut, end)
      PROVE TypeOK'
  <2>1. NewId(t, o) \in Id
    BY NewIdType
  <2>2. to' \in [Id -> Date]
    BY <1>6, <2>1 DEF Supersede, TypeOK
  <2>3. misled' \subseteq Callers /\ unchecked' \subseteq Topics
    BY <1>6 DEF Supersede, TypeOK, TooLateFor
  <2> QED
    BY <1>6, <2>1, <2>2, <2>3 DEF Supersede, TypeOK
<1>7. ASSUME NEW c \in Callers, Die(c) PROVE TypeOK'
  <2>1. call' \in [Callers -> Call] /\ call'[c].step = "idle"
    BY <1>7 DEF Die, TypeOK, Call, NoCall
  <2> QED
    BY <1>7, <2>1 DEF Die, TypeOK
<1>8. CASE Tick
  BY <1>8 DEF Tick, TypeOK, Days
<1>9. CASE UNCHANGED vars
  BY <1>9 DEF vars, TypeOK
<1>10. /\ Starts \subseteq Date /\ Ends \subseteq Date /\ Date \ {Null} = Days
       /\ today \in Days
  BY DEF Days, TypeOK
<1> QED
  BY <1>1, <1>2, <1>3, <1>4, <1>5, <1>6, <1>7, <1>8, <1>9, <1>10 DEF Next

\* A call keeps what it knows through a step that makes no fact current which
\* it is too late for.
LEMMA ToldKept ==
  ASSUME TypeOK, NEW c \in Callers, Told(c), call'[c] = call[c],
         NEW i \in Id, Grows(i), c \notin TooLateFor(i), unchecked \subseteq unchecked'
  PROVE  Told(c)'
<1>1. CASE call[c].step = "idle"
  BY <1>1 DEF Told
<1>2. CASE call[c].step # "idle"
  <2>1. call[c].topic \in Topics
    BY <1>2 DEF TypeOK, Call
  <2>2. Current(call[c].topic)' \subseteq Current(call[c].topic) \cup {j \in {i} : j.topic = call[c].topic}
    BY <2>1 DEF Grows
  <2>3. CASE i.topic # call[c].topic
    BY <2>2, <2>3 DEF Told, Current
  <2>4. CASE i.topic = call[c].topic
    <3>1. \/ call[c].step \notin {"close", "insert"} /\ call[c].object # i.object
          \/ call[c].step \notin {"close", "insert", "conflict"}
      BY <2>4 DEF TooLateFor
    <3> QED
      BY <2>2, <3>1 DEF Told, Current
  <2> QED
    BY <2>3, <2>4
<1> QED
  BY <1>1, <1>2

\* A step that makes nothing current leaves every call that does not move
\* what it knows, and no second current fact.
LEMMA Shrinking ==
  ASSUME TypeOK, OneCurrent, unchecked' = unchecked,
         \A s \in Topics : Current(s)' \subseteq Current(s)
  PROVE  /\ OneCurrent'
         /\ \A c \in Callers : Told(c) /\ call'[c] = call[c] => Told(c)'
<1>1. OneCurrent'
  BY DEF OneCurrent
<1>2. ASSUME NEW c \in Callers, Told(c), call'[c] = call[c] PROVE Told(c)'
  <2>1. call[c].step # "idle" => call[c].topic \in Topics
    BY DEF TypeOK, Call
  <2>2. call[c].step # "idle" => Current(call[c].topic)' \subseteq Current(call[c].topic)
    BY <1>2, <2>1
  <2> QED
    BY <1>2, <2>2 DEF Told, Current
<1> QED
  BY <1>1, <1>2

\* Every statement keeps what the calls in flight have been told, leaves at
\* most one fact current where it should, and moves no end but as stated.
LEMMA InformedStep ==
  ASSUME GraphInv, [Next]_vars
  PROVE  Informed' /\ OneCurrent' /\ NoEndMoves
<1> USE GraphAssumption DEF GraphInv
<1>0. ASSUME NEW c \in Callers, call' = [call EXCEPT ![c] = NoCall],
             UNCHANGED <<recorded, to, unchecked>>, misled' = misled \ {c}
      PROVE Informed' /\ OneCurrent' /\ NoEndMoves
  <2>1. \A s \in Topics : Current(s)' \subseteq Current(s)
    BY <1>0 DEF Current
  <2>2. \A d \in Callers : d # c => call'[d] = call[d]
    BY <1>0 DEF TypeOK
  <2>3. Told(c)'
    BY <1>0 DEF Told, TypeOK, NoCall
  <2>4. Informed' /\ OneCurrent'
    BY <1>0, <2>1, <2>2, <2>3, Shrinking DEF Informed
  <2> QED
    BY <1>0, <2>4 DEF NoEndMoves
<1>1. ASSUME NEW c \in Callers, NEW t \in Topics, NEW o \in Objects, NEW start \in Starts,
             NEW end \in Ends, BeginAdd(c, t, o, start, end)
      PROVE Informed' /\ OneCurrent' /\ NoEndMoves
  <2>1. UNCHANGED <<recorded, to, unchecked>> /\ misled \subseteq misled'
    BY <1>1 DEF BeginAdd
  <2>2. \A s \in Topics : Current(s)' = Current(s)
    BY <2>1 DEF Current
  <2>3. \A d \in Callers : d # c => call'[d] = call[d]
    BY <1>1 DEF BeginAdd, TypeOK
  <2>4. call'[c].step = "conflict" /\ call'[c].topic = t /\ call'[c].object = o
    BY <1>1 DEF BeginAdd, TypeOK
  <2>5. c \in misled' \/ \A i \in Current(t) : i.object # o
    BY <1>1 DEF BeginAdd
  <2>6. c \in misled' \/ Told(c)'
    BY <2>2, <2>4, <2>5 DEF Told, Current
  <2>7. Informed' /\ OneCurrent'
    BY <2>1, <2>2, <2>3, <2>6, Shrinking DEF Informed
  <2> QED
    BY <2>1, <2>7 DEF NoEndMoves
<1>2. ASSUME NEW c \in Callers, FindConflict(c) PROVE Informed' /\ OneCurrent' /\ NoEndMoves
  <2> DEFINE t == call[c].topic
  <2>1. UNCHANGED <<recorded, to, unchecked>> /\ misled \subseteq misled' /\ call[c].step = "conflict"
    BY <1>2 DEF FindConflict
  <2>2. t \in Topics
    BY <2>1 DEF TypeOK, Call
  <2>3. \A s \in Topics : Current(s)' = Current(s)
    BY <2>1 DEF Current
  <2>4. \A d \in Callers : d # c => call'[d] = call[d]
    BY <1>2 DEF FindConflict, Goto, TypeOK
  <2>5. c \notin misled' => c \notin misled /\ \A i \in Current(t) : i.object # call[c].object
    BY <2>1 DEF Informed, Told
  <2>6. \/ c \in misled'
        \/ \E i \in Current(t) : Goto(c, "close", i)
        \/ Current(t) = {} /\ Goto(c, "insert", NoId)
    BY <1>2, <2>5 DEF FindConflict
  <2>7. ASSUME NEW i \in Current(t), Goto(c, "close", i) PROVE Told(c)'
    <3>1. i \in Id
      BY DEF Current, TypeOK
    <3>2. call'[c].topic = t /\ call'[c].step = "close" /\ call'[c].victim = i
      BY <2>7, <3>1, GotoEffect DEF TypeOK
    <3>3. t \in unchecked \/ Current(t) \subseteq {i}
      BY <2>2 DEF OneCurrent
    <3> QED
      BY <2>1, <2>2, <2>3, <3>2, <3>3 DEF Told
  <2>8. ASSUME Current(t) = {}, Goto(c, "insert", NoId) PROVE Told(c)'
    <3>1. call'[c].topic = t /\ call'[c].step = "insert"
      BY <2>8, GotoEffect DEF TypeOK
    <3> QED
      BY <2>2, <2>3, <2>8, <3>1 DEF Told
  <2>9. Informed' /\ OneCurrent'
    BY <2>1, <2>3, <2>4, <2>6, <2>7, <2>8, Shrinking DEF Informed
  <2> QED
    BY <2>1, <2>9 DEF NoEndMoves
<1>3. ASSUME NEW c \in Callers, CloseConflict(c) PROVE Informed' /\ OneCurrent' /\ NoEndMoves
  <2> DEFINE t == call[c].topic
             v == call[c].victim
  <2>1. /\ call[c].step = "close" /\ UNCHANGED <<recorded, misled, unchecked>>
        /\ v \in Id /\ t \in Topics
    BY <1>3 DEF CloseConflict, TypeOK, Call, history
  <2>2. to'[v] # Null /\ \A i \in Id : i # v => to'[i] = to[i]
    BY <1>3, <2>1 DEF CloseConflict, TypeOK, Call, Date, Days, Null
  <2>3. /\ \A d \in Callers : d # c => call'[d] = call[d]
        /\ call'[c].step = "insert" /\ call'[c].topic = t
    BY <1>3, <2>1, GotoEffect DEF CloseConflict, TypeOK
  <2>4. \A s \in Topics : Current(s)' = Current(s) \ {v}
    BY <2>1, <2>2 DEF Current, TypeOK
  <2>5. c \notin misled => t \in unchecked \/ Current(t) \subseteq {v}
    BY <2>1 DEF Informed, Told
  <2>6. c \notin misled' => Told(c)'
    BY <2>1, <2>3, <2>4, <2>5 DEF Told
  <2>7. Informed' /\ OneCurrent'
    BY <2>1, <2>3, <2>4, <2>6, Shrinking DEF Informed
  <2>8. NoEndMoves
    BY <2>1, <2>2, <2>3 DEF NoEndMoves, TypeOK
  <2> QED
    BY <2>7, <2>8
<1>4. ASSUME NEW c \in Callers, InsertFact(c) PROVE Informed' /\ OneCurrent' /\ NoEndMoves
  <2> DEFINE t == call[c].topic
             i == NewId(t, call[c].object)
  <2>1. /\ call[c].step = "insert" /\ t \in Topics
        /\ call' = [call EXCEPT ![c] = NoCall]
    BY <1>4 DEF InsertFact, TypeOK, Call
  <2>2. i \in Id /\ i.topic = t
    BY <1>4, NewIdType DEF InsertFact, TypeOK, Call, NewId
  <2>3. Told(c)' /\ \A d \in Callers : d # c => call'[d] = call[d]
    BY <2>1 DEF Told, TypeOK, NoCall
  <2>4. c \notin misled => t \in unchecked \/ Current(t) = {}
    BY <2>1 DEF Informed, Told
  <2>5. CASE i \in recorded
    <3>1. UNCHANGED <<recorded, to, unchecked>> /\ misled' = misled \ {c}
      BY <1>4, <2>5 DEF InsertFact
    <3> QED
      BY <1>0, <2>1, <3>1
  <2>6. CASE i \notin recorded
    <3> DEFINE news == call[c].to = Null
    <3>1. /\ recorded' = recorded \cup {i} /\ to' = [to EXCEPT ![i] = call[c].to]
          /\ misled' = (misled \cup IF news THEN TooLateFor(i) ELSE {}) \ {c}
          /\ unchecked' = unchecked \cup IF news /\ c \in misled THEN {t} ELSE {}
      BY <1>4, <2>2, <2>6 DEF InsertFact, Record
    <3>2. \A j \in recorded : to'[j] = to[j]
      BY <2>6, <3>1 DEF TypeOK
    <3>3. to'[i] = call[c].to
      BY <2>2, <3>1 DEF TypeOK
    <3> HIDE DEF i
    <3>4. Grows(i)
      BY <3>1, <3>2 DEF Grows, Current
    <3>5. ~news => \A s \in Topics : Current(s)' \subseteq Current(s)
      BY <3>1, <3>2, <3>3 DEF Current
    <3>6. Informed'
      <4> SUFFICES ASSUME NEW d \in Callers \ misled', d # c PROVE Told(d)'
        BY <2>3 DEF Informed
      <4>1. d \notin misled /\ (news => d \notin TooLateFor(i)) /\ Told(d) /\ call'[d] = call[d]
        BY <2>3, <3>1 DEF Informed
      <4>2. CASE news
        BY <4>1, <4>2, <2>2, <3>1, <3>4, ToldKept
      <4>3. CASE ~news
        <5>1. unchecked' = unchecked
          BY <3>1, <4>3
        <5> QED
          BY <4>1, <4>3, <3>5, <5>1, Shrinking
      <4> QED
        BY <4>2, <4>3
    <3>7. OneCurrent'
      <4> SUFFICES ASSUME NEW s \in Topics \ unchecked', NEW j \in Current(s)', NEW k \in Current(s)'
                   PROVE j = k
        BY DEF OneCurrent
      <4>1. s \notin unchecked /\ (news /\ s = t => Current(s) = {})
        BY <2>4, <3>1
      <4>2. \A m, n \in Current(s) : m = n
        BY <4>1 DEF OneCurrent
      <4>3. CASE news /\ s = t
        BY <4>1, <4>3, <3>4 DEF Grows
      <4>4. CASE ~news \/ s # t
        <5>1. Current(s)' \subseteq Current(s)
          BY <4>4, <2>2, <3>4, <3>5 DEF Grows
        <5> QED
          BY <4>2, <5>1
      <4> QED
        BY <4>3, <4>4
    <3> QED
      BY <3>2, <3>6, <3>7 DEF NoEndMoves
  <2> QED
    BY <2>5, <2>6
<1>5. ASSUME NEW c \in Callers, NEW t \in Topics, NEW o \in Objects, NEW end \in Days,
             Invalidate(c, t, o, end)
      PROVE Informed' /\ OneCurrent' /\ NoEndMoves
  <2>1. /\ recorded' = recorded /\ call' = call /\ misled' = misled /\ unchecked' = unchecked
        /\ \A i \in recorded : to'[i] = to[i] \/ (to[i] = Null /\ to'[i] = end)
    BY <1>5 DEF Invalidate, Current, TypeOK, history
  <2>2. end # Null
    BY DEF Days, Null
  <2>3. \A s \in Topics : Current(s)' \subseteq Current(s)
    BY <2>1, <2>2 DEF Current
  <2>4. Informed' /\ OneCurrent'
    BY <2>1, <2>3, Shrinking DEF Informed
  <2> QED
    BY <2>1, <2>4 DEF NoEndMoves
<1>6. ASSUME NEW c \in Callers, NEW old \in recorded, NEW t \in Topics, NEW o \in Objects,
             NEW cut \in Days, NEW end \in Date, Supersede(c, old, t, o, cut, end)
      PROVE Informed' /\ OneCurrent' /\ NoEndMoves
  <2> DEFINE i == NewId(t, o)
             news == end = Null
  <2>1. call' = call
    BY <1>6 DEF Supersede
  <2>2. i \in Id /\ i.topic = t
    BY NewIdType DEF NewId
  <2>3. /\ misled' = misled \cup IF news THEN TooLateFor(i) ELSE {}
        /\ unchecked' = unchecked \cup IF news /\ t # old.topic THEN {t} ELSE {}
    BY <1>6 DEF Supersede
  <2> HIDE DEF i
  <2>4. i \notin recorded /\ recorded' = recorded \cup {i} /\ to[old] = Null
    BY <1>6 DEF Supersede, i
  <2>5. /\ to'[i] = end /\ to'[old] = cut
        /\ \A j \in recorded : j # old => to'[j] = to[j]
    BY <1>6, <2>2, <2>4 DEF Supersede, TypeOK, i
  <2>6. cut # Null
    BY DEF Days, Null
  <2>7. \A s \in Topics : Current(s)' \subseteq (Current(s) \ {old}) \cup {j \in {i} : j.topic = s}
    BY <2>2, <2>4, <2>5, <2>6 DEF Current
  <2>8. Grows(i)
    BY <2>7 DEF Grows
  <2>9. ~news => \A s \in Topics : Current(s)' \subseteq Current(s)
    BY <2>4, <2>5, <2>6 DEF Current
  <2>10. Informed'
    <3> SUFFICES ASSUME NEW d \in Callers \ misled' PROVE Told(d)'
      BY DEF Informed
    <3>1. d \notin misled /\ (news => d \notin TooLateFor(i)) /\ Told(d) /\ call'[d] = call[d]
      BY <2>1, <2>3 DEF Informed
    <3>2. CASE news
      BY <2>2, <2>3, <2>8, <3>1, <3>2, ToldKept
    <3>3. CASE ~news
      <4>1. unchecked' = unchecked
        BY <2>3, <3>3
      <4> QED
        BY <2>9, <3>1, <3>3, <4>1, Shrinking
    <3> QED
      BY <3>2, <3>3
  <2>11. old \in Current(old.topic) /\ old.topic \in Topics
    BY <2>4 DEF Current, TypeOK, Id
  <2>12. OneCurrent'
    <3> SUFFICES ASSUME NEW s \in Topics \ unchecked', NEW j \in Current(s)', NEW k \in Current(s)'
                 PROVE j = k
      BY DEF OneCurrent
    <3>1. s \notin unchecked /\ (news /\ s = t => s = old.topic)
      BY <2>3
    <3>2. \A m, n \in Current(s) : m = n
      BY <3>1 DEF OneCurrent
    <3>3. CASE news /\ s = t
      BY <2>7, <2>11, <3>1, <3>2, <3>3
    <3>4. CASE ~news \/ s # t
      <4>1. Current(s)' \subseteq Current(s)
        BY <2>2, <2>8, <2>9, <3>4 DEF Grows
      <4> QED
        BY <3>2, <4>1
    <3> QED
      BY <3>3, <3>4
  <2>13. NoEndMoves
    BY <2>4, <2>5 DEF NoEndMoves
  <2> QED
    BY <2>10, <2>12, <2>13
<1>7. ASSUME NEW c \in Callers, Die(c) PROVE Informed' /\ OneCurrent' /\ NoEndMoves
  BY <1>0, <1>7 DEF Die
<1>8. ASSUME UNCHANGED <<recorded, to, call, misled, unchecked>>
      PROVE Informed' /\ OneCurrent' /\ NoEndMoves
  BY <1>8 DEF Informed, Told, OneCurrent, Current, NoEndMoves
<1>9. CASE Tick
  BY <1>8, <1>9 DEF Tick, history
<1>10. CASE UNCHANGED vars
  BY <1>8, <1>10 DEF vars, history
<1>11. Starts \subseteq Date /\ Ends \subseteq Date /\ Date \ {Null} = Days
  BY DEF Date, Days, Null
<1>12. today \in Days
  BY DEF TypeOK
<1> QED
  BY <1>1, <1>2, <1>3, <1>4, <1>5, <1>6, <1>7, <1>9, <1>10, <1>11, <1>12 DEF Next

\* An empty graph satisfies the invariant.
LEMMA InitInv == Init => GraphInv
<1> SUFFICES ASSUME Init PROVE GraphInv
  OBVIOUS
<1> USE GraphAssumption DEF Init
<1>1. TypeOK
  BY DEF TypeOK, Call, NoCall, Date, Days, Null
<1>2. Informed /\ OneCurrent
  BY DEF Informed, Told, OneCurrent, Current, NoCall
<1> QED
  BY <1>1, <1>2 DEF GraphInv

\* Every step keeps the invariant.
LEMMA NextInv == GraphInv /\ [Next]_vars => GraphInv'
BY TypeStep, InformedStep DEF GraphInv

\* The invariant holds in every reachable state.
LEMMA Invariance == Spec => []GraphInv
BY InitInv, NextInv, PTL DEF Spec

\* Every reachable state of the graph and of its calls is well typed.
THEOREM TypeCorrectness == Spec => []TypeOK
<1>1. GraphInv => TypeOK
  BY DEF GraphInv
<1> QED
  BY Invariance, <1>1, PTL

\* However calls overlap, fail or die between their statements, a topic has
\* a second current fact only after a supersession of another topic's fact, a
\* lookup that failed, or a fact made current between the lookup and the
\* insert of another call (add_triple, knowledge_graph.rs:453 and 463).
THEOREM OneCurrentAlways == Spec => []OneCurrent
<1>1. GraphInv => OneCurrent
  BY DEF GraphInv
<1> QED
  BY Invariance, <1>1, PTL

\* A fact that has ended keeps its end, except from an add_triple that found
\* it current before (add_triple, knowledge_graph.rs:481, and supersede,
\* knowledge_graph.rs:1666).
THEOREM EndedStaysEndedAlways == Spec => EndedStaysEnded
<1>1. GraphInv /\ [Next]_vars
      => [\A i \in recorded : to[i] # Null =>
            \/ to'[i] = to[i]
            \/ \E c \in Callers : /\ call[c].step = "close" /\ call[c].victim = i
                                  /\ call'[c].step = "insert"]_vars
  BY InformedStep DEF NoEndMoves
<1> QED
  BY Invariance, <1>1, PTL DEF Spec, EndedStaysEnded
=============================================================================
