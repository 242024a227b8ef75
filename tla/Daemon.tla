------------------------------- MODULE Daemon -------------------------------
(***************************************************************************)
(* The write daemon (daemon.rs): a thread that takes write jobs off a      *)
(* bounded channel and carries them out one by one.  A process-wide slot   *)
(* holds the handle of the present daemon; clients start, stop and restart *)
(* it, keep clones of its handle, and submit jobs through a clone of their *)
(* own (submit, which waits for room) or through the slot                  *)
(* (submit_job_sync, which does not).  Stopping sets a flag that the       *)
(* thread looks at when it has received a job, and waits for nothing.      *)
(*                                                                         *)
(* A daemon has an id while anybody refers to it or its thread runs, and   *)
(* a later daemon may have the same one.  All daemons serve one palace.    *)
(* What a job does to it, and whether it fails, only moves a counter.      *)
(***************************************************************************)
EXTENDS Naturals, Sequences

CONSTANTS
  Clients,   \* threads that call the API, one call at a time each
  Daemons,   \* ids of daemons
  Jobs,      \* write jobs, each submitted at most once
  Capacity,  \* capacity of the channel (256 in the code)
  None       \* no daemon, no job

ASSUME DaemonAssumption ==
  /\ Capacity \in Nat \ {0}
  /\ None \notin Daemons \cup Jobs

VARIABLES
  slot,    \* the daemon in the slot
  down,    \* daemons whose shutdown flag is set
  loop,    \* where the thread of each daemon is
  queue,   \* the channel of each daemon
  job,     \* the job each thread has received
  handle,  \* the clone of a handle each client has kept
  call,    \* the call each client has in flight
  fate,    \* history: what has become of each job
  stamp,   \* history: jobs accepted before this one was
  count    \* history: jobs accepted

history == <<fate, stamp, count>>
threads == <<loop, queue, job>>
vars == <<slot, down, threads, handle, call, history>>

Call == [op : {"idle", "stopping", "restarting", "starting", "absent", "sending", "trying"},
         daemon : Daemons \cup {None},  \* the handle it works with
         job : Jobs \cup {None}]        \* the job it submits
NoCall == [op |-> "idle", daemon |-> None, job |-> None]

TypeOK ==
  /\ slot \in Daemons \cup {None}
  /\ down \subseteq Daemons
  /\ loop \in [Daemons -> {"none", "receiving", "received", "working"}]
  /\ queue \in [Daemons -> Seq(Jobs)]
  /\ \A i \in Daemons : Len(queue[i]) <= Capacity
  /\ job \in [Daemons -> Jobs \cup {None}]
  /\ \A i \in Daemons : loop[i] \in {"received", "working"} => job[i] \in Jobs
  /\ handle \in [Clients -> Daemons \cup {None}]
  /\ call \in [Clients -> Call]
  /\ \A c \in Clients : call[c].op \in {"sending", "trying"} =>
       call[c].daemon \in Daemons /\ call[c].job \in Jobs
  /\ fate \in [Jobs -> {"new", "offered", "refused", "accepted", "begun", "done", "lost"}]
  /\ stamp \in [Jobs -> Nat]
  /\ count \in Nat

Init ==
  /\ slot = None
  /\ down = {}
  /\ loop = [i \in Daemons |-> "none"]
  /\ queue = [i \in Daemons |-> << >>]
  /\ job = [i \in Daemons |-> None]
  /\ handle = [c \in Clients |-> None]
  /\ call = [c \in Clients |-> NoCall]
  /\ fate = [j \in Jobs |-> "new"]
  /\ stamp = [j \in Jobs |-> 0]
  /\ count = 0

-----------------------------------------------------------------------------
Idle(c) == call[c].op = "idle"

\* The channel of a daemon closes with the last clone of its handle.
Referred(i) ==
  slot = i \/ \E c \in Clients : handle[c] = i \/ call[c].daemon = i

Go(c, op, i, j) == call' = [call EXCEPT ![c] = [op |-> op, daemon |-> i, job |-> j]]
Return(c) == call' = [call EXCEPT ![c] = NoCall]

Becomes(j, f) == fate' = [fate EXCEPT ![j] = f]

Queued(i) == {queue[i][n] : n \in 1 .. Len(queue[i])}

-----------------------------------------------------------------------------
(***************************************************************************)
(* Starting and stopping.                                                  *)
(***************************************************************************)

\* stop_daemon takes the handle out of the slot and sets its flag, under the
\* write lock, and keeps the handle while it sleeps.
TakeDown(c, op) ==
  /\ slot # None
  /\ slot' = None
  /\ down' = down \cup {slot}
  /\ Go(c, op, slot, None)

\* With nothing in the slot stop_daemon returns at once.
Stop(c) ==
  /\ Idle(c)
  /\ TakeDown(c, "stopping")
  /\ UNCHANGED <<threads, handle, history>>

\* start_daemon stops whatever daemon there is; the caller lets go of the
\* handle it had.
Start(c) ==
  /\ Idle(c) \/ call[c].op = "absent"
  /\ \/ TakeDown(c, "restarting")
     \/ slot = None /\ Go(c, "starting", None, None) /\ UNCHANGED <<slot, down>>
  /\ handle' = [handle EXCEPT ![c] = None]
  /\ UNCHANGED <<threads, history>>

\* ensure_daemon looks into the slot, and starts a daemon after it has given
\* the read lock back.
Ensure(c) ==
  /\ Idle(c)
  /\ \/ slot # None /\ handle' = [handle EXCEPT ![c] = slot] /\ UNCHANGED call
     \/ slot = None /\ Go(c, "absent", None, None) /\ UNCHANGED handle
  /\ UNCHANGED <<slot, down, threads, history>>

\* The hundred milliseconds are over, whatever the thread has done meanwhile.
Wake(c) ==
  /\ \/ call[c].op = "stopping" /\ Return(c)
     \/ call[c].op = "restarting" /\ Go(c, "starting", None, None)
  /\ UNCHANGED <<slot, down, threads, handle, history>>

\* Mutant: the slot is not looked at again under the write lock.
SpawnAnyhow(c) ==
  /\ call[c].op = "starting"
  /\ \E i \in Daemons :
       /\ loop[i] = "none" /\ ~Referred(i)
       /\ slot' = i
       /\ down' = down \ {i}
       /\ loop' = [loop EXCEPT ![i] = "receiving"]
       /\ handle' = [handle EXCEPT ![c] = i]
  /\ Return(c)
  /\ UNCHANGED <<queue, job, history>>

\* A daemon that got into the slot meanwhile makes start_daemon fail.
Spawn(c) ==
  /\ call[c].op = "starting"
  /\ \/ /\ slot # None
        /\ UNCHANGED <<slot, down, loop, handle>>
     \/ /\ slot = None
        /\ \E i \in Daemons :
             /\ loop[i] = "none" /\ ~Referred(i)
             /\ slot' = i
             /\ down' = down \ {i}
             /\ loop' = [loop EXCEPT ![i] = "receiving"]
             /\ handle' = [handle EXCEPT ![c] = i]
  /\ Return(c)
  /\ UNCHANGED <<queue, job, history>>

\* shutdown, on a handle the client has kept, sets the flag and leaves the
\* slot as it is.
Shutdown(c) ==
  /\ Idle(c) /\ handle[c] # None
  /\ down' = down \cup {handle[c]}
  /\ UNCHANGED <<slot, threads, handle, call, history>>

\* A client drops the handle it has kept.
Drop(c) ==
  /\ Idle(c) /\ handle[c] # None
  /\ handle' = [handle EXCEPT ![c] = None]
  /\ UNCHANGED <<slot, down, threads, call, history>>

-----------------------------------------------------------------------------
(***************************************************************************)
(* Submitting.                                                             *)
(***************************************************************************)

\* submit, on a handle the client has kept.
Submit(c, j) ==
  /\ Idle(c) /\ handle[c] # None
  /\ fate[j] = "new"
  /\ Go(c, "sending", handle[c], j)
  /\ Becomes(j, "offered")
  /\ UNCHANGED <<slot, down, threads, handle, stamp, count>>

\* submit_job_sync, on a clone of the handle in the slot; without one it
\* returns at once.
SubmitSync(c, j) ==
  /\ Idle(c) /\ slot # None
  /\ fate[j] = "new"
  /\ Go(c, "trying", slot, j)
  /\ Becomes(j, "offered")
  /\ UNCHANGED <<slot, down, threads, handle, stamp, count>>

\* Mutant: the channel is unbounded.
HasRoomAlways(i) == TRUE

HasRoom(i) == Len(queue[i]) < Capacity

Accept(c) ==
  LET i == call[c].daemon
      j == call[c].job
  IN  /\ call[c].op \in {"sending", "trying"}
      /\ loop[i] # "none" /\ HasRoom(i)
      /\ queue' = [queue EXCEPT ![i] = Append(@, j)]
      /\ Becomes(j, "accepted")
      /\ stamp' = [stamp EXCEPT ![j] = count]
      /\ count' = count + 1
      /\ Return(c)
      /\ UNCHANGED <<slot, down, loop, job, handle>>

\* Mutant: a client that waits for room is not told that the receiver is gone.
RefuseOnlyTrying(c) ==
  LET i == call[c].daemon
  IN  /\ call[c].op = "trying"
      /\ loop[i] = "none" \/ ~HasRoom(i)
      /\ Becomes(call[c].job, "refused")
      /\ Return(c)
      /\ UNCHANGED <<slot, down, threads, handle, stamp, count>>

\* The receiver is gone, or there is no room and the client does not wait.
Refuse(c) ==
  LET i == call[c].daemon
  IN  /\ \/ call[c].op \in {"sending", "trying"} /\ loop[i] = "none"
         \/ call[c].op = "trying" /\ ~HasRoom(i)
      /\ Becomes(call[c].job, "refused")
      /\ Return(c)
      /\ UNCHANGED <<slot, down, threads, handle, stamp, count>>

-----------------------------------------------------------------------------
(***************************************************************************)
(* daemon_loop.                                                            *)
(***************************************************************************)
Receive(i) ==
  /\ loop[i] = "receiving" /\ queue[i] # << >>
  /\ job' = [job EXCEPT ![i] = Head(queue[i])]
  /\ queue' = [queue EXCEPT ![i] = Tail(@)]
  /\ loop' = [loop EXCEPT ![i] = "received"]
  /\ UNCHANGED <<slot, down, handle, call, history>>

\* recv() returns None: the channel is empty and closed.
HangUp(i) ==
  /\ loop[i] = "receiving" /\ queue[i] = << >>
  /\ ~Referred(i)
  /\ loop' = [loop EXCEPT ![i] = "none"]
  /\ UNCHANGED <<slot, down, queue, job, handle, call, history>>

\* Mutant: the flag is not looked at.
BeginAnyhow(i) ==
  /\ loop[i] = "received"
  /\ loop' = [loop EXCEPT ![i] = "working"]
  /\ Becomes(job[i], "begun")
  /\ UNCHANGED <<slot, down, queue, job, handle, call, stamp, count>>

Begin(i) ==
  /\ loop[i] = "received" /\ i \notin down
  /\ loop' = [loop EXCEPT ![i] = "working"]
  /\ Becomes(job[i], "begun")
  /\ UNCHANGED <<slot, down, queue, job, handle, call, stamp, count>>

\* Mutant: a stopped daemon pauses until its flag is cleared.
PauseLoop(i) ==
  /\ loop[i] = "received" /\ i \in down
  /\ UNCHANGED vars

\* The flag is set: the loop ends, and the job in hand is lost with all that
\* the channel still holds.
BreakLoop(i) ==
  /\ loop[i] = "received" /\ i \in down
  /\ loop' = [loop EXCEPT ![i] = "none"]
  /\ queue' = [queue EXCEPT ![i] = << >>]
  /\ job' = [job EXCEPT ![i] = None]
  /\ fate' = [j \in Jobs |-> IF j = job[i] \/ j \in Queued(i) THEN "lost" ELSE fate[j]]
  /\ UNCHANGED <<slot, down, handle, call, stamp, count>>

\* process_job returns, with or without an error.
Finish(i) ==
  /\ loop[i] = "working"
  /\ loop' = [loop EXCEPT ![i] = "receiving"]
  /\ job' = [job EXCEPT ![i] = None]
  /\ Becomes(job[i], "done")
  /\ UNCHANGED <<slot, down, queue, handle, call, stamp, count>>

Step(i) == Receive(i) \/ HangUp(i) \/ Begin(i) \/ BreakLoop(i) \/ Finish(i)
Answer(c) == Accept(c) \/ Refuse(c)

Next ==
  \/ \E c \in Clients :
       \/ Stop(c)
       \/ Start(c)
       \/ Ensure(c)
       \/ Wake(c)
       \/ Spawn(c)
       \/ Shutdown(c)
       \/ Drop(c)
       \/ \E j \in Jobs : Submit(c, j) \/ SubmitSync(c, j)
       \/ Answer(c)
  \/ \E i \in Daemons : Step(i)

\* The daemon's thread runs and its jobs end; a submission for which there is
\* room, or none to wait for, returns.
Spec ==
  /\ Init /\ [][Next]_vars
  /\ \A i \in Daemons : WF_vars(Step(i))
  /\ \A c \in Clients : WF_vars(Answer(c))

-----------------------------------------------------------------------------
(***************************************************************************)
(* Properties.                                                             *)
(***************************************************************************)

\* The daemon in the slot runs, unless it has been told to stop through a
\* handle, and every other thread that is left has been told, however starts,
\* stops and ensures interleave (daemon.rs:196, 341).
OneInCharge ==
  /\ slot # None => loop[slot] # "none" \/ slot \in down
  /\ \A i \in Daemons : loop[i] # "none" /\ i # slot => i \in down

\* Writes begin in the order in which they were accepted, over restarts too:
\* no job begins after one that was accepted later (daemon.rs:4, 366).
BegunInOrder ==
  [][\A j, k \in Jobs :
       fate[j] # "begun" /\ fate'[j] = "begun" /\ fate[k] \in {"begun", "done"} =>
         stamp[k] < stamp[j]]_vars

\* An accepted job is carried out or lost to a shutdown; it does not stay in
\* a channel that nobody reads (daemon.rs:365).
AcceptedIsSettled ==
  \A j \in Jobs : fate[j] = "accepted" ~> fate[j] \in {"done", "lost"}

\* A client that waits for room is answered, although the daemon is stopped
\* or restarted meanwhile (daemon.rs:123).
SubmittersAnswered ==
  \A c \in Clients : call[c].op = "sending" ~> Idle(c)
=============================================================================
