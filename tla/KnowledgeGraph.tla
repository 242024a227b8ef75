--------------------------- MODULE KnowledgeGraph ---------------------------
(***************************************************************************)
(* The temporal knowledge graph (knowledge_graph.rs): facts subject,       *)
(* predicate, object with the days from which and to which they hold.  A   *)
(* fact without an end is current, and stating a fact that contradicts a   *)
(* current one ends the latter.  The MCP tools kg_add, kg_invalidate and   *)
(* kg_supersede and the jobs of the daemon each open a connection of their *)
(* own, and their calls overlap.  add_triple is two lookups and up to two  *)
(* writes, and takes and leaves its lock for each of them; a lookup that   *)
(* fails counts as one that has found nothing.  invalidate is one UPDATE;  *)
(* supersede is a transaction, which SQLite rolls back when another writer *)
(* has come in between.                                                    *)
(*                                                                         *)
(* A topic is a subject with a predicate.  The id of a fact is made of its *)
(* topic, its object and the month of its insertion: no two facts of one   *)
(* topic and object can be inserted in the same month.  Entities, sources, *)
(* confidence and transaction time play no part in which facts are         *)
(* current, nor does the start of a recorded fact, which only queries as   *)
(* of a day read; nor do typed memory edges: they tie drawers to one       *)
(* another, and so are about other topics.                                 *)
(***************************************************************************)
EXTENDS Integers, FiniteSets

CONSTANTS
  Callers,     \* connections, one call at a time each
  Topics,      \* subject and predicate
  Objects,     \* what the topic is said to be
  None,        \* no topic, no object, no fact
  MaxDay,      \* bound of the model: the last day
  MonthOf,     \* the month each day is in
  MaxFacts,    \* bound of the model: facts ever inserted
  Starts,      \* bound of the model: the starts callers give, and the
  Ends         \* ends, both with -1 for none

Days   == 0 .. MaxDay
Months == {MonthOf[d] : d \in Days}

\* NULL in a column of days.
Null == -1
Date == Days \cup {Null}

ASSUME GraphAssumption ==
  /\ MaxDay \in Nat
  /\ MonthOf \in [Days -> Nat]
  /\ MaxFacts \in Nat
  /\ None \notin Topics \cup Objects
  /\ Starts \subseteq Date /\ Ends \subseteq Date

Id    == [topic : Topics, object : Objects, month : Months]
NoId  == [topic |-> None, object |-> None, month |-> Null]
Call  == [step : {"idle", "conflict", "close", "insert"},
          topic : Topics \cup {None}, object : Objects \cup {None},
          from : Date, to : Date,       \* the validity the caller gave
          victim : Id \cup {NoId}]      \* the fact it contradicts
NoCall == [step |-> "idle", topic |-> None, object |-> None,
           from |-> Null, to |-> Null, victim |-> NoId]

VARIABLES
  recorded,  \* table triples: the ids in it
  to,        \* their column valid_to
  today,     \* the wall clock
  call,      \* the add_triple each caller has in flight
  misled,    \* history: callers whose lookups did not see a current fact
             \* of their topic, or no longer tell the truth
  unchecked  \* history: topics that got a current fact without a search of
             \* what it contradicts that told the truth

history == <<misled, unchecked>>
vars == <<recorded, to, today, call, history>>

TypeOK ==
  /\ recorded \subseteq Id
  /\ to \in [Id -> Date]
  /\ today \in Days
  /\ call \in [Callers -> Call]
  /\ \A c \in Callers : call[c].step # "idle" => call[c].topic # None /\ call[c].object # None
  /\ \A c \in Callers : call[c].step = "close" => call[c].victim \in recorded
  /\ misled \subseteq Callers
  /\ unchecked \subseteq Topics

Init ==
  /\ recorded = {}
  /\ to = [i \in Id |-> Null]
  /\ today = 0
  /\ call = [c \in Callers |-> NoCall]
  /\ misled = {}
  /\ unchecked = {}

-----------------------------------------------------------------------------
\* The current facts of a topic: valid_to IS NULL.
Current(t) == {i \in recorded : i.topic = t /\ to[i] = Null}

\* Mutant: the id carries no month.
NewIdUndated(t, o) == [topic |-> t, object |-> o, month |-> Null]

NewId(t, o) == [topic |-> t, object |-> o, month |-> MonthOf[today]]

Idle(c) == call[c].step = "idle"

\* The calls that have already looked for what fact i is to them: the same
\* fact, or one that theirs contradicts.
TooLateFor(i) ==
  {c \in Callers :
     /\ call[c].topic = i.topic
     /\ \/ call[c].step = "conflict" /\ call[c].object = i.object
        \/ call[c].step \in {"close", "insert"}}

Goto(c, step, victim) ==
  call' = [call EXCEPT ![c].step = step, ![c].victim = victim]

\* The check of add_triple and supersede on the interval they are given.
Ordered(start, end) == start # Null /\ end # Null => start <= end

Record(i, end) ==
  /\ Cardinality(recorded) < MaxFacts
  /\ recorded' = recorded \cup {i}
  /\ to' = [to EXCEPT ![i] = end]

-----------------------------------------------------------------------------
(***************************************************************************)
(* add_triple.                                                             *)
(***************************************************************************)

\* Mutant: the same fact is not looked for.
BeginAddAnyhow(c, t, o, start, end) ==
  /\ Idle(c)
  /\ Ordered(start, end)
  /\ call' = [call EXCEPT ![c] = [step |-> "conflict", topic |-> t, object |-> o,
                                  from |-> start, to |-> end, victim |-> NoId]]
  /\ UNCHANGED <<recorded, to, today, history>>

\* A call that finds the fact current returns its id and changes nothing.
\* One whose lookup fails goes on, whether the fact is current or not.
BeginAdd(c, t, o, start, end) ==
  LET known == \E i \in Current(t) : i.object = o
  IN  /\ Idle(c)
      /\ Ordered(start, end)
      /\ call' = [call EXCEPT ![c] = [step |-> "conflict", topic |-> t, object |-> o,
                                      from |-> start, to |-> end, victim |-> NoId]]
      /\ \/ ~known /\ misled' = misled
         \/ known /\ misled' = misled \cup {c}
      /\ UNCHANGED <<recorded, to, today, unchecked>>

\* Of several contradicting facts the query returns one.
FindConflict(c) ==
  LET against == {i \in Current(call[c].topic) : i.object # call[c].object}
  IN  /\ call[c].step = "conflict"
      /\ \/ misled' = misled /\ \E i \in against : Goto(c, "close", i)
         \/ misled' = misled /\ against = {} /\ Goto(c, "insert", NoId)
         \/ misled' = misled \cup {c} /\ against # {} /\ Goto(c, "insert", NoId)
      /\ UNCHANGED <<recorded, to, today, unchecked>>

\* The contradicted fact ends where the new one begins, whenever it began
\* itself, or today; and it ends so even if it has been ended since.
CloseConflict(c) ==
  /\ call[c].step = "close"
  /\ to' = [to EXCEPT ![call[c].victim] =
              IF call[c].from = Null THEN today ELSE call[c].from]
  /\ Goto(c, "insert", call[c].victim)
  /\ UNCHANGED <<recorded, today, history>>

\* The primary key refuses a fact inserted before in this month: the call
\* fails, and what it has done so far stays.
InsertFact(c) ==
  LET i == NewId(call[c].topic, call[c].object)
      news == i \notin recorded /\ call[c].to = Null
  IN  /\ call[c].step = "insert"
      /\ IF i \in recorded
           THEN UNCHANGED <<recorded, to>>
           ELSE Record(i, call[c].to)
      /\ call' = [call EXCEPT ![c] = NoCall]
      /\ misled' = (misled \cup IF news THEN TooLateFor(i) ELSE {}) \ {c}
      /\ unchecked' = unchecked \cup IF news /\ c \in misled THEN {i.topic} ELSE {}
      /\ today' = today

-----------------------------------------------------------------------------
(***************************************************************************)
(* invalidate and supersede.                                               *)
(***************************************************************************)

\* Mutant: facts that have ended are ended again.
InvalidateAll(c, t, o, end) ==
  /\ Idle(c)
  /\ \E i \in Current(t) : i.object = o
  /\ to' = [i \in Id |-> IF i \in recorded /\ i.topic = t /\ i.object = o THEN end ELSE to[i]]
  /\ UNCHANGED <<recorded, today, call, history>>

\* Any day will do as the end; without one it is today.
Invalidate(c, t, o, end) ==
  /\ Idle(c)
  /\ \E i \in Current(t) : i.object = o
  /\ to' = [i \in Id |-> IF i \in Current(t) /\ i.object = o THEN end ELSE to[i]]
  /\ UNCHANGED <<recorded, today, call, history>>

\* The successor may be about anything.  Its start, today if it has none, is
\* the end of the fact it supersedes.  A call on a fact that has ended, or
\* with an id that is taken, changes nothing.
Supersede(c, old, t, o, cut, end) ==
  LET i == NewId(t, o)
  IN  /\ Idle(c)
      /\ old \in recorded /\ to[old] = Null
      /\ Ordered(cut, end) \/ cut = today
      /\ i \notin recorded
      /\ Cardinality(recorded) < MaxFacts
      /\ recorded' = recorded \cup {i}
      /\ to' = [to EXCEPT ![old] = cut, ![i] = end]
      /\ misled' = misled \cup IF end = Null THEN TooLateFor(i) ELSE {}
      /\ unchecked' = unchecked \cup IF end = Null /\ t # old.topic THEN {t} ELSE {}
      /\ UNCHANGED <<today, call>>

-----------------------------------------------------------------------------
\* The process dies in the middle of a call, or a write fails and the call
\* returns the error.
Die(c) ==
  /\ ~Idle(c)
  /\ call' = [call EXCEPT ![c] = NoCall]
  /\ misled' = misled \ {c}
  /\ UNCHANGED <<recorded, to, today, unchecked>>

Tick ==
  /\ today < MaxDay
  /\ today' = today + 1
  /\ UNCHANGED <<recorded, to, call, history>>

Next ==
  \/ \E c \in Callers :
       \/ \E t \in Topics, o \in Objects, start \in Starts, end \in Ends :
            BeginAdd(c, t, o, start, end)
       \/ FindConflict(c)
       \/ CloseConflict(c)
       \/ InsertFact(c)
       \/ \E t \in Topics, o \in Objects, end \in (Ends \cup {today}) \ {Null} :
            Invalidate(c, t, o, end)
       \/ \E old \in recorded, t \in Topics, o \in Objects,
             cut \in (Starts \cup {today}) \ {Null}, end \in Ends :
            Supersede(c, old, t, o, cut, end)
       \/ Die(c)
  \/ Tick

Spec == Init /\ [][Next]_vars

-----------------------------------------------------------------------------
(***************************************************************************)
(* Properties.                                                             *)
(***************************************************************************)

\* At most one fact is current about a topic, whichever calls have failed or
\* died half-way, overlapped and got in each other's way, and however the
\* dates were given.  What gets round the search for conflicts is a
\* supersession that changes the topic, a lookup that fails, and a call that
\* makes a fact current between the lookup and the insert of another
\* (knowledge_graph.rs:453 and 463): nothing else, no statement out of turn
\* and no end that comes in between.
OneCurrent ==
  \A t \in Topics \ unchecked : \A i, j \in Current(t) : i = j

\* History is not rewritten: the day on which a fact has ended never changes
\* (knowledge_graph.rs:1666), but for one case: closing a contradicted fact
\* does not look whether it is still current, and so moves the end that
\* another call has given it since the search (knowledge_graph.rs:481).
EndedStaysEnded ==
  [][\A i \in recorded : to[i] # Null =>
       \/ to'[i] = to[i]
       \/ \E c \in Callers : /\ call[c].step = "close" /\ call[c].victim = i
                             /\ call'[c].step = "insert"]_vars
=============================================================================
