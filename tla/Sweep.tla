------------------------------- MODULE Sweep -------------------------------
(***************************************************************************)
(* The transcript sweeper: `mpr sweep` files every message of a session    *)
(* transcript as a drawer of its own (sweeper.rs).  It is restarted at     *)
(* will and kept cheap by a cursor, the latest time of the session's       *)
(* drawers: older messages are taken for filed.  Agents go on writing      *)
(* their transcripts, a compaction rewrites them (convo_miner.rs:191), and *)
(* nothing keeps two sweeps apart.                                         *)
(*                                                                         *)
(* A message is named by its file and its place in it, as its drawer is by *)
(* session and uuid; each is stored in one statement, in the order of the  *)
(* file, whatever batch it belongs to.                                     *)
(***************************************************************************)
EXTENDS Naturals, Sequences

CONSTANTS
  Sweepers,     \* processes that sweep
  Files,        \* transcripts
  Session,      \* the session each transcript belongs to
  Compactable,  \* transcripts that a compaction may rewrite
  None,         \* no transcript
  MaxTime,      \* bound on the clock
  MaxMessages,  \* bound on the messages of each transcript
  MaxFaults     \* bound on crashes, failed reads and failed inserts

ASSUME SweepAssumption ==
  /\ None \notin Files
  /\ DOMAIN Session = Files
  /\ Compactable \subseteq Files
  /\ MaxMessages \in [Files -> Nat]
  /\ MaxTime \in Nat \ {0} /\ MaxFaults \in Nat

VARIABLES
  log,     \* each transcript: the times of the messages ever written to it
  gone,    \* how many of them compactions have removed, the oldest first
  now,     \* the wall clock
  stored,  \* table drawers: the messages filed
  sweep,   \* what each sweeper is doing
  failed,  \* history: messages an insert of which failed
  lost,    \* history: messages that were removed before they were filed
  faults   \* crashes, failed reads and failed inserts so far

sweepVars == <<log, gone, now, stored, sweep, failed, lost, faults>>

Messages == UNION {{f} \X (1 .. MaxMessages[f]) : f \in Files}
Time(msg) == log[msg[1]][msg[2]]

Idle == [step |-> "idle", file |-> None, cursor |-> 0, next |-> 0, length |-> 0]

SweepTypeOK ==
  /\ log \in [Files -> Seq(1 .. MaxTime)]
  /\ \A f \in Files : Len(log[f]) <= MaxMessages[f]
  /\ gone \in [Files -> Nat]
  /\ \A f \in Files : gone[f] <= Len(log[f])
  /\ now \in 1 .. MaxTime
  /\ stored \subseteq Messages
  /\ \A msg \in stored \cup failed \cup lost : msg[2] <= Len(log[msg[1]])
  /\ sweep \in [Sweepers -> [step : {"idle", "opened", "store", "done"},
                             file : Files \cup {None}, cursor : 0 .. MaxTime,
                             next : Nat, length : Nat]]
  /\ \A s \in Sweepers : sweep[s].next <= sweep[s].length + 1
  /\ \A s \in Sweepers : sweep[s].file # None => sweep[s].length <= Len(log[sweep[s].file])
  /\ failed \subseteq Messages
  /\ lost \subseteq Messages
  /\ faults \in 0 .. MaxFaults

SweepInit ==
  /\ log = [f \in Files |-> <<>>]
  /\ gone = [f \in Files |-> 0]
  /\ now = 1
  /\ stored = {}
  /\ sweep = [s \in Sweepers |-> Idle]
  /\ failed = {}
  /\ lost = {}
  /\ faults = 0

-----------------------------------------------------------------------------
(***************************************************************************)
(* A sweep of one file.                                                    *)
(***************************************************************************)

\* The latest time of the session's drawers, 0 when there is none.
Cursor(f) ==
  LET times == {Time(msg) : msg \in {m \in stored : Session[m[1]] = Session[f]}}
  IN IF times = {} THEN 0 ELSE CHOOSE t \in times : \A u \in times : u <= t

\* PalaceDb::open loads the drawers, from which the cursor is taken.  Sweeping
\* a directory is a sweep of each of its files in turn.
Open(s, f) ==
  /\ sweep[s].step = "idle"
  /\ sweep' = [sweep EXCEPT ![s] = [Idle EXCEPT !.step = "opened", !.file = f,
                                                !.cursor = Cursor(f)]]
  /\ UNCHANGED <<log, gone, now, stored, failed, lost, faults>>

\* Mutant: a transcript of which something is filed is not read again.
ParseNew(s) ==
  /\ sweep[s].step = "opened"
  /\ LET f    == sweep[s].file
         from == IF sweep[s].cursor > 0 THEN Len(log[f]) ELSE gone[f]
     IN  sweep' = [sweep EXCEPT ![s].step = "store", ![s].next = from + 1,
                                ![s].length = Len(log[f])]
  /\ UNCHANGED <<log, gone, now, stored, failed, lost, faults>>

\* parse_claude_jsonl reads the file as it is.
Parse(s) ==
  /\ sweep[s].step = "opened"
  /\ LET f == sweep[s].file
     IN  sweep' = [sweep EXCEPT ![s].step = "store", ![s].next = gone[f] + 1,
                                ![s].length = Len(log[f])]
  /\ UNCHANGED <<log, gone, now, stored, failed, lost, faults>>

\* A file that cannot be read has no messages: the sweep succeeds all the same.
FailParse(s) ==
  /\ sweep[s].step = "opened"
  /\ faults < MaxFaults
  /\ faults' = faults + 1
  /\ sweep' = [sweep EXCEPT ![s].step = "store", ![s].next = 1, ![s].length = 0]
  /\ UNCHANGED <<log, gone, now, stored, failed, lost>>

Current(s) == <<sweep[s].file, sweep[s].next>>
Busy(s)    == sweep[s].step = "store" /\ sweep[s].next <= sweep[s].length

\* Mutant: the step is counted twice.
AdvanceTwice(s) == sweep' = [sweep EXCEPT ![s].next = @ + 2]

Advance(s) == sweep' = [sweep EXCEPT ![s].next = @ + 1]

\* Mutant: a message as old as the cursor is taken for filed.
SkipUpToCursor(s) ==
  /\ Busy(s)
  /\ Time(Current(s)) <= sweep[s].cursor
  /\ Advance(s)
  /\ UNCHANGED <<log, gone, now, stored, failed, lost, faults>>

\* Messages strictly older than the cursor are taken for filed.
Skip(s) ==
  /\ Busy(s)
  /\ Time(Current(s)) < sweep[s].cursor
  /\ Advance(s)
  /\ UNCHANGED <<log, gone, now, stored, failed, lost, faults>>

\* The others are stored, in place of the same message if it is there.  An
\* insert that fails is logged, and the sweep goes on.
Store(s) ==
  /\ Busy(s)
  /\ Time(Current(s)) >= sweep[s].cursor
  /\ Advance(s)
  /\ \/ /\ stored' = stored \cup {Current(s)}
        /\ UNCHANGED <<failed, faults>>
     \/ /\ faults < MaxFaults
        /\ faults' = faults + 1
        /\ failed' = failed \cup {Current(s)}
        /\ UNCHANGED stored
  /\ UNCHANGED <<log, gone, now, lost>>

Finish(s) ==
  /\ sweep[s].step = "store" /\ sweep[s].next > sweep[s].length
  /\ sweep' = [sweep EXCEPT ![s].step = "done"]
  /\ UNCHANGED <<log, gone, now, stored, failed, lost, faults>>

\* The process exits, or goes on to the next file.
Leave(s) ==
  /\ sweep[s].step = "done"
  /\ sweep' = [sweep EXCEPT ![s] = Idle]
  /\ UNCHANGED <<log, gone, now, stored, failed, lost, faults>>

-----------------------------------------------------------------------------
(***************************************************************************)
(* The environment.                                                        *)
(***************************************************************************)

\* The sweeper is killed: what it stored so far stays.
Kill(s) ==
  /\ sweep[s].step \in {"opened", "store"}
  /\ faults < MaxFaults
  /\ faults' = faults + 1
  /\ sweep' = [sweep EXCEPT ![s] = Idle]
  /\ UNCHANGED <<log, gone, now, stored, failed, lost>>

\* An agent writes a message with the present time at the end of a transcript.
Write(f) ==
  /\ Len(log[f]) < MaxMessages[f]
  /\ log' = [log EXCEPT ![f] = Append(@, now)]
  /\ UNCHANGED <<gone, now, stored, sweep, failed, lost, faults>>

\* A compaction rewrites a transcript without its oldest messages; the summary
\* that takes their place is a message written.
Compact(f) ==
  /\ f \in Compactable
  /\ \E n \in gone[f] + 1 .. Len(log[f]) :
       /\ gone' = [gone EXCEPT ![f] = n]
       /\ lost' = lost \cup (({f} \X (gone[f] + 1 .. n)) \ stored)
  /\ UNCHANGED <<log, now, stored, sweep, failed, faults>>

Tick ==
  /\ now < MaxTime
  /\ now' = now + 1
  /\ UNCHANGED <<log, gone, stored, sweep, failed, lost, faults>>

Step(s) == Parse(s) \/ Skip(s) \/ Store(s) \/ Finish(s) \/ Leave(s)

SweepNext ==
  \/ \E s \in Sweepers :
       \/ \E f \in Files : Open(s, f)
       \/ Step(s)
       \/ FailParse(s) \/ Kill(s)
  \/ \E f \in Files : Write(f) \/ Compact(f)
  \/ Tick

\* A sweep that runs goes on, and every transcript is swept again and again.
SweepSpec ==
  /\ SweepInit /\ [][SweepNext]_sweepVars
  /\ \A s \in Sweepers : WF_sweepVars(Step(s))
  /\ \A f \in Files : SF_sweepVars(\E s \in Sweepers : Open(s, f))

-----------------------------------------------------------------------------
(***************************************************************************)
(* Properties.                                                             *)
(***************************************************************************)

\* A drawer of another transcript of the session moves the cursor past messages
\* of this one: they are skipped for ever.
Overtaken(msg) ==
  /\ msg[2] <= Len(log[msg[1]])
  /\ \E other \in stored : /\ other[1] # msg[1]
                          /\ Session[other[1]] = Session[msg[1]]
                          /\ Time(other) > Time(msg)

\* A sweep leaves no message that it read, nor an older one, out: it ingests
\* "every user/assistant message not already represented" (sweeper.rs:213),
\* although crashes and other sweeps have left the session's drawers, and with
\* them the cursor, anywhere.  Except: messages whose insert failed, those that
\* were overtaken, and those that a compaction removed before they were filed.
SweptIsFiled ==
  \A s \in Sweepers :
    sweep[s].step = "done" =>
      \A i \in 1 .. sweep[s].length :
        LET msg == <<sweep[s].file, i>>
        IN msg \in stored \cup failed \cup lost \/ Overtaken(msg)

\* Every message an agent writes is filed in the end, with the same exceptions.
EventuallyFiled ==
  \A msg \in Messages :
    msg[2] <= Len(log[msg[1]]) ~> msg \in stored \cup failed \cup lost \/ Overtaken(msg)
=============================================================================
