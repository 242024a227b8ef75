---------------------------- MODULE DaemonProofs ----------------------------
(***************************************************************************)
(* What the write daemon guarantees for any number of clients, daemons and *)
(* jobs and any capacity of the channel: one daemon is in charge, and      *)
(* writes begin in the order in which they were accepted.  The second      *)
(* rests on the first: a job of a daemon that is not in charge never       *)
(* begins.                                                                 *)
(***************************************************************************)
EXTENDS Daemon, TLAPS

\* The job a thread has received and not begun.
InHand(i) == IF loop[i] = "received" THEN {job[i]} ELSE {}

Pending(i) == Queued(i) \cup InHand(i)
Begun == {j \in Jobs : fate[j] \in {"begun", "done"}}

\* Pending jobs have been accepted, each by one daemon; a job at work has
\* begun; a thread that does not run has an empty channel.
Placed ==
  /\ \A i \in Daemons : \A j \in Pending(i) : fate[j] = "accepted"
  /\ \A i, k \in Daemons : \A j \in Pending(i) : j \in Pending(k) => i = k
  /\ \A i \in Daemons : loop[i] = "working" => job[i] \in Begun
  /\ \A i \in Daemons : loop[i] = "none" => queue[i] = << >>

\* Each submission in flight has a job of its own.
Offered ==
  /\ \A c \in Clients : call[c].op \in {"sending", "trying"} => fate[call[c].job] = "offered"
  /\ \A c, d \in Clients :
       /\ call[c].op \in {"sending", "trying"}
       /\ call[d].op \in {"sending", "trying"}
       /\ call[c].job = call[d].job
       => c = d

\* Stamps count up: in the channel, from the job in hand to the channel, and
\* over all jobs that were ever accepted.
Stamped ==
  /\ \A j \in Jobs : fate[j] \in {"accepted", "begun", "done"} => stamp[j] < count
  /\ \A i \in Daemons : \A m, n \in 1 .. Len(queue[i]) :
       m < n => stamp[queue[i][m]] < stamp[queue[i][n]]
  /\ \A i \in Daemons : loop[i] = "received" =>
       \A n \in 1 .. Len(queue[i]) : stamp[job[i]] < stamp[queue[i][n]]

\* What has begun was accepted before all that is pending with a daemon that
\* has not been told to stop.
Ahead ==
  \A i \in Daemons \ down : \A j \in Pending(i), k \in Begun : stamp[k] < stamp[j]

Line == Placed /\ Offered /\ Stamped /\ Ahead

DaemonInv == TypeOK /\ OneInCharge /\ Line

\* The statement of BegunInOrder for one step.
OrderKept ==
  \A j, k \in Jobs :
    fate[j] # "begun" /\ fate'[j] = "begun" /\ fate[k] \in {"begun", "done"} =>
      stamp[k] < stamp[j]

CallOK ==
  /\ call \in [Clients -> Call]
  /\ \A c \in Clients : call[c].op \in {"sending", "trying"} =>
       call[c].daemon \in Daemons /\ call[c].job \in Jobs

\* A client's next call is typed when the record put in its place is.
LEMMA CallStep ==
  ASSUME CallOK, NEW c \in Clients, NEW r \in Call,
         r.op \in {"sending", "trying"} => r.daemon \in Daemons /\ r.job \in Jobs,
         call' = [call EXCEPT ![c] = r]
  PROVE  CallOK'
<1>1. call' \in [Clients -> Call]
  BY DEF CallOK
<1>2. call'[c] = r /\ \A d \in Clients : d # c => call'[d] = call[d]
  BY DEF CallOK
<1> QED
  BY <1>1, <1>2 DEF CallOK

\* A client that returns, or goes on without a job, stays typed.
LEMMA PlainCall ==
  ASSUME CallOK, NEW c \in Clients, NEW op \in {"stopping", "restarting", "starting", "absent"},
         NEW i \in Daemons \cup {None}, Go(c, op, i, None) \/ Return(c)
  PROVE  CallOK'
<1> DEFINE r == [op |-> op, daemon |-> i, job |-> None]
<1>1. r \in Call /\ r.op = op /\ NoCall \in Call /\ NoCall.op = "idle"
  BY DEF Call, NoCall
<1>2. CASE Go(c, op, i, None)
  <2>1. call' = [call EXCEPT ![c] = r]
    BY <1>2 DEF Go
  <2> HIDE DEF r
  <2> QED
    BY <1>1, <2>1, CallStep
<1>3. CASE Return(c)
  BY <1>1, <1>3, CallStep DEF Return
<1> QED
  BY <1>2, <1>3

\* A client that submits a job works with a daemon.
LEMMA SubmittingCall ==
  ASSUME CallOK, NEW c \in Clients, NEW op \in {"sending", "trying"},
         NEW i \in Daemons, NEW j \in Jobs, Go(c, op, i, j)
  PROVE  CallOK'
<1> DEFINE r == [op |-> op, daemon |-> i, job |-> j]
<1>1. r \in Call /\ r.daemon = i /\ r.job = j
  BY DEF Call
<1>2. call' = [call EXCEPT ![c] = r]
  BY DEF Go
<1> HIDE DEF r
<1> QED
  BY <1>1, <1>2, CallStep

\* Type correctness is kept by every step of the clients and the threads.
LEMMA TypeStep == TypeOK /\ [Next]_vars => TypeOK'
<1> SUFFICES ASSUME TypeOK, [Next]_vars PROVE TypeOK'
  OBVIOUS
<1> USE DaemonAssumption DEF threads, history
<1>0. CallOK
  BY DEF TypeOK, CallOK
<1>a. ASSUME CallOK', UNCHANGED <<threads, history>>, slot' \in Daemons \cup {None},
             down' \subseteq Daemons, handle' \in [Clients -> Daemons \cup {None}]
      PROVE  TypeOK'
  BY <1>a DEF TypeOK, CallOK
<1>b. ASSUME CallOK', UNCHANGED <<slot, down, threads, handle, stamp, count>>,
             NEW j \in Jobs, NEW f \in {"offered", "refused"}, Becomes(j, f)
      PROVE  TypeOK'
  BY <1>b DEF TypeOK, CallOK, Becomes
<1>c. ASSUME UNCHANGED call PROVE CallOK'
  BY <1>0, <1>c DEF CallOK
<1>1. ASSUME NEW c \in Clients, Stop(c) PROVE TypeOK'
  <2>1. CallOK'
    BY <1>0, <1>1, PlainCall DEF Stop, TakeDown, TypeOK
  <2> QED
    BY <1>1, <1>a, <2>1 DEF Stop, TakeDown, TypeOK
<1>2. ASSUME NEW c \in Clients, Start(c) PROVE TypeOK'
  <2>1. CallOK'
    BY <1>0, <1>2, PlainCall DEF Start, TakeDown, TypeOK
  <2> QED
    BY <1>2, <1>a, <2>1 DEF Start, TakeDown, TypeOK
<1>3. ASSUME NEW c \in Clients, Ensure(c) PROVE TypeOK'
  <2>1. CallOK'
    BY <1>0, <1>3, <1>c, PlainCall DEF Ensure
  <2> QED
    BY <1>3, <1>a, <2>1 DEF Ensure, TypeOK
<1>4. ASSUME NEW c \in Clients, Wake(c) PROVE TypeOK'
  <2>1. CallOK'
    BY <1>0, <1>4, PlainCall DEF Wake
  <2> QED
    BY <1>4, <1>a, <2>1 DEF Wake, TypeOK
<1>5. ASSUME NEW c \in Clients, Spawn(c) PROVE TypeOK'
  <2>1. CallOK'
    BY <1>0, <1>5, PlainCall DEF Spawn
  <2>2. /\ slot' \in Daemons \cup {None} /\ down' \subseteq Daemons
        /\ handle' \in [Clients -> Daemons \cup {None}]
    <3>1. /\ slot \in Daemons \cup {None} /\ down \subseteq Daemons
          /\ handle \in [Clients -> Daemons \cup {None}]
      BY DEF TypeOK
    <3>2. CASE UNCHANGED <<slot, down, loop, handle>>
      BY <3>1, <3>2
    <3>3. ASSUME NEW i \in Daemons, slot' = i, down' = down \ {i}, handle' = [handle EXCEPT ![c] = i]
          PROVE  /\ slot' \in Daemons \cup {None} /\ down' \subseteq Daemons
                 /\ handle' \in [Clients -> Daemons \cup {None}]
      BY <3>1, <3>3
    <3> QED
      BY <1>5, <3>2, <3>3 DEF Spawn
  <2>4. /\ loop' \in [Daemons -> {"none", "receiving", "received", "working"}]
        /\ \A i \in Daemons : loop'[i] \in {"received", "working"} => loop'[i] = loop[i]
    BY <1>5 DEF Spawn, TypeOK
  <2>3. UNCHANGED <<queue, job, fate, stamp, count>>
    BY <1>5 DEF Spawn
  <2> QED
    BY <2>1, <2>2, <2>3, <2>4 DEF TypeOK, CallOK
<1>6. ASSUME NEW c \in Clients, Drop(c) \/ Shutdown(c) PROVE TypeOK'
  BY <1>6, <1>a, <1>c DEF Drop, Shutdown, TypeOK
<1>7. ASSUME NEW c \in Clients, NEW j \in Jobs, Submit(c, j) PROVE TypeOK'
  <2>1. handle[c] \in Daemons
    BY <1>7 DEF Submit, TypeOK
  <2>2. CallOK'
    BY <1>0, <1>7, <2>1, SubmittingCall DEF Submit
  <2> QED
    BY <1>7, <1>b, <2>2 DEF Submit
<1>8. ASSUME NEW c \in Clients, NEW j \in Jobs, SubmitSync(c, j) PROVE TypeOK'
  <2>1. slot \in Daemons
    BY <1>8 DEF SubmitSync, TypeOK
  <2>2. CallOK'
    BY <1>0, <1>8, <2>1, SubmittingCall DEF SubmitSync
  <2> QED
    BY <1>8, <1>b, <2>2 DEF SubmitSync
<1>9. ASSUME NEW c \in Clients, Accept(c) PROVE TypeOK'
  <2>1. CallOK'
    BY <1>0, <1>9, PlainCall DEF Accept
  <2> DEFINE i == call[c].daemon
             j == call[c].job
  <2>2. i \in Daemons /\ j \in Jobs
    BY <1>9 DEF Accept, TypeOK
  <2>3. /\ queue' = [queue EXCEPT ![i] = Append(@, j)] /\ Len(queue[i]) < Capacity
        /\ fate' = [fate EXCEPT ![j] = "accepted"]
        /\ stamp' = [stamp EXCEPT ![j] = count] /\ count' = count + 1
        /\ UNCHANGED <<slot, down, loop, job, handle>>
    BY <1>9 DEF Accept, HasRoom, Becomes
  <2> HIDE DEF i, j
  <2>4. queue' \in [Daemons -> Seq(Jobs)] /\ \A k \in Daemons : Len(queue'[k]) <= Capacity
    BY <2>2, <2>3 DEF TypeOK
  <2> QED
    BY <2>1, <2>2, <2>3, <2>4 DEF TypeOK, CallOK
<1>10. ASSUME NEW c \in Clients, Refuse(c) PROVE TypeOK'
  <2>1. CallOK' /\ call[c].job \in Jobs
    BY <1>0, <1>10, PlainCall DEF Refuse, CallOK
  <2> QED
    BY <1>10, <1>b, <2>1 DEF Refuse
<1>11. ASSUME NEW i \in Daemons, Receive(i) PROVE TypeOK'
  BY <1>11 DEF Receive, TypeOK
<1>12. ASSUME NEW i \in Daemons, HangUp(i) PROVE TypeOK'
  BY <1>12 DEF HangUp, TypeOK
<1>13. ASSUME NEW i \in Daemons, Begin(i) PROVE TypeOK'
  BY <1>13 DEF Begin, Becomes, TypeOK
<1>14. ASSUME NEW i \in Daemons, BreakLoop(i) PROVE TypeOK'
  BY <1>14 DEF BreakLoop, TypeOK
<1>15. ASSUME NEW i \in Daemons, Finish(i) PROVE TypeOK'
  BY <1>15 DEF Finish, Becomes, TypeOK
<1>16. CASE UNCHANGED vars
  BY <1>16, <1>a, <1>c DEF vars, TypeOK
<1> QED
  BY <1>1, <1>2, <1>3, <1>4, <1>5, <1>6, <1>7, <1>8, <1>9, <1>10, <1>11, <1>12,
     <1>13, <1>14, <1>15, <1>16 DEF Next, Answer, Step

\* The slot changes hands only under the write lock, and only when it is
\* empty does a daemon enter it.
LEMMA ChargeStep == TypeOK /\ OneInCharge /\ [Next]_vars => OneInCharge'
<1> SUFFICES ASSUME TypeOK, OneInCharge, [Next]_vars PROVE OneInCharge'
  OBVIOUS
<1> USE DaemonAssumption DEF TypeOK, OneInCharge, threads
<1>1. ASSUME UNCHANGED <<slot, down>>,
             \A i \in Daemons : (loop'[i] = "none") <=> (loop[i] = "none")
      PROVE OneInCharge'
  BY <1>1
<1>2. ASSUME NEW c \in Clients, Stop(c) \/ Start(c) \/ Shutdown(c) PROVE OneInCharge'
  BY <1>2 DEF Stop, Start, Shutdown, TakeDown
<1>3. ASSUME NEW c \in Clients, Ensure(c) \/ Wake(c) \/ Drop(c) \/ Answer(c) PROVE OneInCharge'
  BY <1>1, <1>3 DEF Ensure, Wake, Drop, Answer, Accept, Refuse
<1>4. ASSUME NEW c \in Clients, Spawn(c) PROVE OneInCharge'
  BY <1>4 DEF Spawn
<1>5. ASSUME NEW c \in Clients, NEW j \in Jobs, Submit(c, j) \/ SubmitSync(c, j)
      PROVE OneInCharge'
  BY <1>1, <1>5 DEF Submit, SubmitSync
<1>6. ASSUME NEW i \in Daemons, Receive(i) \/ Begin(i) \/ Finish(i) PROVE OneInCharge'
  BY <1>1, <1>6 DEF Receive, Begin, Finish
<1>7. ASSUME NEW i \in Daemons, HangUp(i) PROVE OneInCharge'
  BY <1>7 DEF HangUp, Referred
<1>8. ASSUME NEW i \in Daemons, BreakLoop(i) PROVE OneInCharge'
  BY <1>8 DEF BreakLoop
<1>9. CASE UNCHANGED vars
  BY <1>1, <1>9 DEF vars
<1> QED
  BY <1>2, <1>3, <1>4, <1>5, <1>6, <1>7, <1>8, <1>9 DEF Next, Step

\* A step that touches no job, no channel and no submission keeps the line:
\* it may set flags, and put a daemon with an empty channel in charge.
LEMMA QuietStep ==
  ASSUME TypeOK, Line, UNCHANGED <<queue, job, history>>,
         \A i \in Daemons : loop'[i] = loop[i] \/ (queue[i] = << >> /\ loop[i] \in {"none", "receiving"}
                                                   /\ loop'[i] \in {"none", "receiving"}),
         \A i \in Daemons : i \notin down' => i \notin down \/ (queue[i] = << >> /\ loop[i] = "none"),
         \A c \in Clients : call'[c].op \in {"sending", "trying"} => call'[c] = call[c]
  PROVE  Line' /\ OrderKept
<1>0. Placed /\ Offered /\ Stamped /\ Ahead /\ UNCHANGED <<fate, stamp, count>>
  BY DEF Line, history
<1>1. \A i \in Daemons : Queued(i)' = Queued(i) /\ InHand(i)' = InHand(i)
  BY DEF Queued, InHand
<1>2. Begun' = Begun /\ \A i \in Daemons : Pending(i)' = Pending(i)
  BY <1>0, <1>1 DEF Begun, Pending
<1>3. Placed'
  <2>1. \A i \in Daemons : loop'[i] = "working" => loop[i] = "working"
    OBVIOUS
  <2>2. \A i \in Daemons : loop'[i] = "none" => queue[i] = << >>
    BY <1>0 DEF Placed
  <2> QED
    BY <1>0, <1>2, <2>1, <2>2 DEF Placed
<1>4. Offered'
  BY <1>0 DEF Offered
<1>5. Stamped'
  BY <1>0 DEF Stamped
<1>6. \A i \in Daemons : queue[i] = << >> /\ loop[i] = "none" => Pending(i) = {}
  BY DEF Pending, Queued, InHand
<1>7. Ahead'
  <2>1. \A i \in Daemons \ down' : i \notin down \/ Pending(i) = {}
    BY <1>6
  <2> QED
    BY <1>0, <1>2, <2>1 DEF Ahead
<1> QED
  BY <1>0, <1>3, <1>4, <1>5, <1>7 DEF OrderKept, Line

\* A job that is offered or refused is not in the line yet.
LEMMA OfferStep ==
  ASSUME TypeOK, Line, NEW c \in Clients, NEW j \in Jobs, NEW f \in {"offered", "refused"},
         fate[j] \in {"new", "offered"}, Becomes(j, f),
         UNCHANGED <<threads, down, stamp, count>>,
         \A d \in Clients \ {c} : call'[d] = call[d],
         f = "offered" => fate[j] = "new" /\ call'[c].job = j,
         f = "refused" => call'[c].op = "idle" /\ call[c].job = j /\ call[c].op \in {"sending", "trying"}
  PROVE  Line' /\ OrderKept
<1> USE DEF Line, TypeOK, threads
<1>1. fate' = [fate EXCEPT ![j] = f]
  BY DEF Becomes
<1>2. Begun' = Begun /\ \A i \in Daemons : Pending(i)' = Pending(i)
  BY <1>1 DEF Begun, Pending, Queued, InHand
<1>3. \A i \in Daemons : j \notin Pending(i)
  BY DEF Placed
<1>4. \A i \in Daemons : Pending(i) \subseteq Jobs
  BY DEF Pending, Queued, InHand
<1>5. Placed'
  <2>1. \A i \in Daemons : \A k \in Pending(i) : fate'[k] = fate[k]
    BY <1>1, <1>3, <1>4
  <2>2. \A i \in Daemons : \A k \in Pending(i)' : fate'[k] = "accepted"
    BY <1>2, <2>1 DEF Placed
  <2>3. \A i, k \in Daemons : \A m \in Pending(i)' : m \in Pending(k)' => i = k
    BY <1>2 DEF Placed
  <2>4. UNCHANGED <<loop, job, queue>>
    OBVIOUS
  <2> QED
    BY <1>2, <2>2, <2>3, <2>4 DEF Placed
<1>6. Offered'
  BY <1>1 DEF Offered
<1>7. Stamped'
  BY <1>1 DEF Stamped
<1>8. Ahead'
  BY <1>2 DEF Ahead
<1> QED
  BY <1>1, <1>5, <1>6, <1>7, <1>8 DEF OrderKept

\* What is pending with a daemon that a step leaves alone stays pending.
LEMMA SamePending ==
  ASSUME NEW i \in Daemons, queue'[i] = queue[i], loop'[i] = loop[i], job'[i] = job[i]
  PROVE  Queued(i)' = Queued(i) /\ Pending(i)' = Pending(i)
BY DEF Pending, Queued, InHand

\* Pending jobs are jobs, the one in hand and those in the channel among them.
LEMMA PendingJobs ==
  ASSUME TypeOK, NEW i \in Daemons
  PROVE  /\ Pending(i) \subseteq Jobs /\ Queued(i) \subseteq Pending(i)
         /\ \A n \in 1 .. Len(queue[i]) : queue[i][n] \in Pending(i)
         /\ loop[i] = "received" => job[i] \in Pending(i)
<1>1. Queued(i) \subseteq Jobs /\ InHand(i) \subseteq Jobs
  BY DEF Queued, InHand, TypeOK
<1> QED
  BY <1>1 DEF Pending, Queued, InHand

\* An accepted job goes to the end of the line.
LEMMA AcceptStep ==
  ASSUME TypeOK, Line, NEW c \in Clients, Accept(c)
  PROVE  Line' /\ OrderKept
<1>0. Placed /\ Offered /\ Stamped /\ Ahead
  BY DEF Line
<1>1. PICK i \in Daemons, j \in Jobs :
        /\ call[c].daemon = i /\ call[c].job = j /\ fate[j] = "offered"
        /\ call[c].op \in {"sending", "trying"}
  BY <1>0 DEF Accept, Offered, TypeOK
<1>2. /\ queue' = [queue EXCEPT ![i] = Append(@, j)] /\ loop[i] # "none"
      /\ fate' = [fate EXCEPT ![j] = "accepted"]
      /\ stamp' = [stamp EXCEPT ![j] = count] /\ count' = count + 1
      /\ call' = [call EXCEPT ![c] = NoCall]
      /\ UNCHANGED <<loop, job, down>>
  BY <1>1 DEF Accept, Becomes, Return
<1>3. /\ \A k \in Daemons : k # i => queue'[k] = queue[k]
      /\ Len(queue[i]) \in Nat
      /\ Len(queue'[i]) = Len(queue[i]) + 1 /\ queue'[i][Len(queue[i]) + 1] = j
      /\ \A n \in 1 .. Len(queue[i]) : queue'[i][n] = queue[i][n]
  BY <1>1, <1>2 DEF TypeOK
<1>4. /\ \A k \in Daemons : k # i => Pending(k)' = Pending(k)
      /\ Pending(i)' = Pending(i) \cup {j}
  <2>1. \A k \in Daemons : k # i => Pending(k)' = Pending(k)
    BY <1>2, <1>3, SamePending
  <2>2. \A n \in 1 .. Len(queue'[i]) : n \in 1 .. Len(queue[i]) \/ n = Len(queue[i]) + 1
    BY <1>3
  <2>3. Queued(i)' \subseteq Queued(i) \cup {j}
    BY <1>3, <2>2 DEF Queued
  <2>4. 1 .. Len(queue[i]) \subseteq 1 .. Len(queue'[i]) /\ Len(queue[i]) + 1 \in 1 .. Len(queue'[i])
    BY <1>3
  <2>5. Queued(i) \cup {j} \subseteq Queued(i)'
    BY <1>3, <2>4 DEF Queued
  <2>6. InHand(i)' = InHand(i)
    BY <1>2 DEF InHand
  <2> QED
    BY <2>1, <2>3, <2>5, <2>6 DEF Pending
<1>5. Begun' = Begun /\ j \notin Begun
  BY <1>1, <1>2 DEF Begun, TypeOK
<1>6. \A k \in Daemons : j \notin Pending(k) /\ Pending(k) \subseteq Jobs
  BY <1>0, <1>1, PendingJobs DEF Placed
<1>7. Placed'
  <2>1. \A k \in Daemons : \A p \in Pending(k)' : fate'[p] = "accepted"
    <3>1. ASSUME NEW k \in Daemons, NEW p \in Pending(k)' PROVE fate'[p] = "accepted"
      <4>1. p = j \/ p \in Pending(k)
        BY <1>4, <3>1
      <4>2. p \in Pending(k) => p \in Jobs /\ p # j /\ fate[p] = "accepted"
        BY <1>0, <1>6 DEF Placed
      <4>3. fate \in [Jobs -> {"new", "offered", "refused", "accepted", "begun", "done", "lost"}]
        BY DEF TypeOK
      <4> QED
        BY <1>2, <4>1, <4>2, <4>3
    <3> QED
      BY <3>1
  <2>2. \A k, l \in Daemons : \A p \in Pending(k)' : p \in Pending(l)' => k = l
    BY <1>0, <1>4, <1>6 DEF Placed
  <2>3. \A k \in Daemons : loop'[k] = "working" => job'[k] \in Begun'
    BY <1>0, <1>2, <1>5 DEF Placed
  <2>4. \A k \in Daemons : loop'[k] = "none" => queue'[k] = << >>
    BY <1>0, <1>2, <1>3 DEF Placed
  <2> QED
    BY <2>1, <2>2, <2>3, <2>4 DEF Placed
<1>8. Offered'
  BY <1>0, <1>1, <1>2 DEF Offered, NoCall, TypeOK
<1>9. \A k \in Daemons : \A p \in Pending(k) : stamp[p] < count /\ stamp'[p] = stamp[p]
  BY <1>0, <1>1, <1>2, <1>6 DEF Placed, Stamped, TypeOK
<1>10. Stamped'
  <2>1. \A p \in Jobs : fate'[p] \in {"accepted", "begun", "done"} => stamp'[p] < count'
    BY <1>0, <1>1, <1>2 DEF Stamped, TypeOK
  <2>2. \A k \in Daemons : \A n \in 1 .. Len(queue[k]) : queue[k][n] \in Pending(k)
    BY PendingJobs
  <2>3. \A k \in Daemons : loop[k] = "received" => job[k] \in Pending(k)
    BY PendingJobs
  <2>0. \A k \in Daemons : \A n \in 1 .. Len(queue'[k]) :
          \/ n \in 1 .. Len(queue[k]) /\ queue'[k][n] = queue[k][n]
          \/ k = i /\ n = Len(queue[k]) + 1
    BY <1>3
  <2>6. stamp'[j] = count
    BY <1>2 DEF TypeOK
  <2>4. ASSUME NEW k \in Daemons, NEW m \in 1 .. Len(queue'[k]), NEW n \in 1 .. Len(queue'[k]), m < n
        PROVE  stamp'[queue'[k][m]] < stamp'[queue'[k][n]]
    <3>1. CASE n \in 1 .. Len(queue[k])
      <4>1. /\ m \in 1 .. Len(queue[k])
            /\ queue'[k][m] = queue[k][m] /\ queue'[k][n] = queue[k][n]
        BY <1>3, <2>0, <2>4, <3>1
      <4>2. stamp[queue[k][m]] < stamp[queue[k][n]]
        BY <1>0, <2>4, <3>1, <4>1 DEF Stamped
      <4> QED  BY <1>9, <2>2, <3>1, <4>1, <4>2
    <3>2. CASE k = i /\ n = Len(queue[k]) + 1
      <4>1. m \in 1 .. Len(queue[k]) /\ queue'[k][m] = queue[k][m]
        BY <1>3, <2>4, <3>2
      <4> QED  BY <1>3, <1>9, <2>2, <2>6, <3>2, <4>1
    <3> QED  BY <2>0, <3>1, <3>2
  <2>5. ASSUME NEW k \in Daemons, loop[k] = "received", NEW n \in 1 .. Len(queue'[k])
        PROVE  stamp'[job[k]] < stamp'[queue'[k][n]]
    <3>1. CASE n \in 1 .. Len(queue[k]) /\ queue'[k][n] = queue[k][n]
      <4>1. stamp[job[k]] < stamp[queue[k][n]]
        BY <1>0, <2>5, <3>1 DEF Stamped
      <4> QED  BY <1>9, <2>2, <2>3, <2>5, <3>1, <4>1
    <3>2. CASE k = i /\ n = Len(queue[k]) + 1
      BY <1>3, <1>9, <2>3, <2>5, <2>6, <3>2
    <3> QED  BY <2>0, <3>1, <3>2
  <2> QED
    BY <1>2, <2>1, <2>4, <2>5 DEF Stamped
<1>11. Ahead'
  <2>1. \A k \in Begun : stamp[k] < count /\ stamp'[k] = stamp[k]
    BY <1>0, <1>1, <1>2, <1>5 DEF Begun, Stamped, TypeOK
  <2>2. stamp'[j] = count
    BY <1>1, <1>2 DEF TypeOK
  <2> QED
    BY <1>0, <1>2, <1>4, <1>5, <1>9, <2>1, <2>2 DEF Ahead
<1>12. OrderKept
  BY <1>1, <1>2 DEF OrderKept, TypeOK
<1> QED
  BY <1>7, <1>8, <1>10, <1>11, <1>12 DEF Line

\* The head of the channel comes into the thread's hands and stays first.
LEMMA ReceiveStep ==
  ASSUME TypeOK, Line, NEW i \in Daemons, Receive(i)
  PROVE  Line' /\ OrderKept
<1>0. Placed /\ Offered /\ Stamped /\ Ahead
  BY DEF Line
<1>1. /\ queue[i] # << >> /\ loop[i] = "receiving"
      /\ job' = [job EXCEPT ![i] = Head(queue[i])]
      /\ queue' = [queue EXCEPT ![i] = Tail(@)]
      /\ loop' = [loop EXCEPT ![i] = "received"]
      /\ UNCHANGED <<down, call, fate, stamp, count>>
  BY DEF Receive, history
<1>2. /\ Len(queue[i]) \in Nat \ {0} /\ Len(queue'[i]) = Len(queue[i]) - 1
      /\ job'[i] = queue[i][1]
      /\ \A n \in 1 .. Len(queue'[i]) : queue'[i][n] = queue[i][n + 1]
      /\ loop'[i] = "received"
      /\ \A k \in Daemons : k # i =>
           queue'[k] = queue[k] /\ job'[k] = job[k] /\ loop'[k] = loop[k]
  BY <1>1 DEF TypeOK
<1>3. \A k \in Daemons : Pending(k)' \subseteq Pending(k)
  <2>1. 1 \in 1 .. Len(queue[i]) /\ \A n \in 1 .. Len(queue'[i]) : n + 1 \in 1 .. Len(queue[i])
    BY <1>2
  <2>2. Queued(i)' \subseteq Queued(i) /\ InHand(i)' \subseteq Queued(i)
    BY <1>2, <2>1 DEF Queued, InHand
  <2>3. \A k \in Daemons : k # i => Pending(k)' = Pending(k)
    BY <1>2, SamePending
  <2> QED
    BY <2>2, <2>3 DEF Pending
<1>4. Begun' = Begun
  BY <1>1 DEF Begun
<1>5. Placed'
  <2>1. \A k \in Daemons : loop'[k] = "working" => loop[k] = "working" /\ job'[k] = job[k]
    BY <1>1, <1>2
  <2>2. \A k \in Daemons : loop'[k] = "none" => loop[k] = "none" /\ queue'[k] = queue[k]
    BY <1>1, <1>2
  <2> QED
    BY <1>0, <1>1, <1>3, <1>4, <2>1, <2>2 DEF Placed
<1>6. Offered'
  BY <1>0, <1>1 DEF Offered
<1>7. Stamped'
  <2>1. ASSUME NEW k \in Daemons, NEW m \in 1 .. Len(queue'[k]), NEW n \in 1 .. Len(queue'[k]), m < n
        PROVE  stamp[queue'[k][m]] < stamp[queue'[k][n]]
    <3>1. CASE k = i
      <4>1. m + 1 \in 1 .. Len(queue[i]) /\ n + 1 \in 1 .. Len(queue[i]) /\ m + 1 < n + 1
        BY <1>2, <2>1, <3>1
      <4> QED
        BY <1>0, <1>2, <2>1, <3>1, <4>1 DEF Stamped
    <3>2. CASE k # i
      BY <1>0, <1>2, <2>1, <3>2 DEF Stamped
    <3> QED
      BY <3>1, <3>2
  <2>2. ASSUME NEW k \in Daemons, loop'[k] = "received", NEW n \in 1 .. Len(queue'[k])
        PROVE  stamp[job'[k]] < stamp[queue'[k][n]]
    <3>1. CASE k = i
      <4>1. 1 \in 1 .. Len(queue[i]) /\ n + 1 \in 1 .. Len(queue[i]) /\ 1 < n + 1
        BY <1>2, <3>1
      <4> QED
        BY <1>0, <1>2, <3>1, <4>1 DEF Stamped
    <3>2. CASE k # i
      BY <1>0, <1>2, <2>2, <3>2 DEF Stamped
    <3> QED
      BY <3>1, <3>2
  <2> QED
    BY <1>0, <1>1, <2>1, <2>2 DEF Stamped
<1>8. Ahead'
  BY <1>0, <1>1, <1>3, <1>4 DEF Ahead
<1> QED
  BY <1>1, <1>5, <1>6, <1>7, <1>8 DEF OrderKept, Line

\* A job that begins is the first one pending with the daemon in charge.
LEMMA BeginStep ==
  ASSUME TypeOK, OneInCharge, Line, NEW i \in Daemons, Begin(i)
  PROVE  Line' /\ OrderKept
<1> DEFINE j == job[i]
<1>0. Placed /\ Offered /\ Stamped /\ Ahead
  BY DEF Line
<1>1. /\ loop[i] = "received" /\ i \notin down
      /\ loop' = [loop EXCEPT ![i] = "working"]
      /\ fate' = [fate EXCEPT ![j] = "begun"]
      /\ UNCHANGED <<down, queue, job, call, stamp, count>>
  BY DEF Begin, Becomes
<1>2. j \in Jobs /\ j \in Pending(i) /\ fate[j] = "accepted"
  BY <1>0, <1>1, PendingJobs DEF Placed
<1> HIDE DEF j
<1>3. Begun' = Begun \cup {j}
  BY <1>1, <1>2 DEF Begun, TypeOK
<1>4. loop'[i] = "working" /\ \A k \in Daemons : k # i => loop'[k] = loop[k]
  BY <1>1 DEF TypeOK
<1>5. Pending(i)' = Queued(i)
  BY <1>1, <1>4 DEF Pending, Queued, InHand
<1>6. \A k \in Daemons : k # i => Pending(k)' = Pending(k) /\ j \notin Pending(k)
  BY <1>0, <1>1, <1>2, <1>4, SamePending DEF Placed
<1>7. \A p \in Queued(i) : stamp[j] < stamp[p]
  BY <1>0, <1>1 DEF Stamped, Queued, j
<1>8. j \notin Queued(i) /\ Queued(i) \subseteq Pending(i)
  BY <1>2, <1>7, PendingJobs DEF TypeOK
<1>9. \A k \in Daemons : j \notin Pending(k)' /\ Pending(k)' \subseteq Pending(k) /\ Pending(k) \subseteq Jobs
  BY <1>5, <1>6, <1>8, PendingJobs
<1>10. Placed'
  <2>1. \A k \in Daemons : \A p \in Pending(k)' : fate'[p] = "accepted"
    BY <1>0, <1>1, <1>2, <1>9 DEF Placed, TypeOK
  <2>2. \A k \in Daemons : loop'[k] = "working" => job'[k] \in Begun'
    BY <1>0, <1>1, <1>3, <1>4 DEF Placed, j
  <2>3. \A k \in Daemons : loop'[k] = "none" => queue'[k] = << >>
    BY <1>0, <1>1, <1>4 DEF Placed
  <2>4. \A k, l \in Daemons : \A p \in Pending(k)' : p \in Pending(l)' => k = l
    BY <1>0, <1>9 DEF Placed
  <2> QED
    BY <2>1, <2>2, <2>3, <2>4 DEF Placed
<1>11. Offered'
  BY <1>0, <1>1, <1>2 DEF Offered, TypeOK
<1>12. Stamped'
  <2>1. \A p \in Jobs : fate'[p] \in {"accepted", "begun", "done"} => stamp[p] < count
    BY <1>0, <1>1, <1>2 DEF Stamped, TypeOK
  <2>2. \A k \in Daemons : loop'[k] = "received" => loop[k] = "received"
    BY <1>1, <1>4
  <2> QED
    BY <1>0, <1>1, <2>1, <2>2 DEF Stamped
<1>13. Ahead'
  <2>1. \A k \in Daemons \ down : k # i => Pending(k) = {}
    <3>1. \A k \in Daemons \ down : k # i => loop[k] = "none" /\ queue[k] = << >>
      BY <1>0, <1>1 DEF OneInCharge, Placed
    <3> QED
      BY <3>1 DEF Pending, Queued, InHand
  <2> QED
    BY <1>0, <1>1, <1>3, <1>5, <1>6, <1>7, <1>8, <2>1 DEF Ahead
<1>14. OrderKept
  <2>1. \A p \in Jobs : fate[p] # "begun" /\ fate'[p] = "begun" => p = j
    BY <1>1, <1>2 DEF TypeOK
  <2> QED
    BY <1>0, <1>1, <1>2, <2>1 DEF OrderKept, Ahead, Begun
<1> QED
  BY <1>10, <1>11, <1>12, <1>13, <1>14 DEF Line

\* A loop that ends takes all that is pending with it out of the line.
LEMMA BreakStep ==
  ASSUME TypeOK, Line, NEW i \in Daemons, BreakLoop(i)
  PROVE  Line' /\ OrderKept
<1>0. Placed /\ Offered /\ Stamped /\ Ahead
  BY DEF Line
<1>1. /\ loop[i] = "received"
      /\ loop' = [loop EXCEPT ![i] = "none"]
      /\ queue' = [queue EXCEPT ![i] = << >>]
      /\ job' = [job EXCEPT ![i] = None]
      /\ UNCHANGED <<down, call, stamp, count>>
  BY DEF BreakLoop
<1>2. fate' = [j \in Jobs |-> IF j \in Pending(i) THEN "lost" ELSE fate[j]]
  BY <1>1 DEF BreakLoop, Pending, InHand
<1>3. Begun' = Begun
  BY <1>0, <1>2 DEF Begun, Placed, TypeOK
<1>4. /\ loop'[i] = "none" /\ queue'[i] = << >>
      /\ \A k \in Daemons : k # i =>
           loop'[k] = loop[k] /\ queue'[k] = queue[k] /\ job'[k] = job[k]
  BY <1>1 DEF TypeOK
<1>5. Pending(i)' = {} /\ \A k \in Daemons : k # i => Pending(k)' = Pending(k)
  <2>1. Pending(i)' = {}
    BY <1>4 DEF Pending, Queued, InHand
  <2> QED
    BY <1>4, <2>1, SamePending
<1>6. \A k \in Daemons : Pending(k) \subseteq Jobs
  BY PendingJobs
<1>7. Placed'
  <2>1. \A k \in Daemons : \A p \in Pending(k)' : fate'[p] = "accepted"
    <3>1. ASSUME NEW k \in Daemons, NEW p \in Pending(k)' PROVE fate'[p] = "accepted"
      <4>1. k # i /\ p \in Pending(k) /\ p \in Jobs
        BY <1>5, <1>6, <3>1
      <4>2. p \notin Pending(i) /\ fate[p] = "accepted"
        BY <1>0, <4>1 DEF Placed
      <4> QED
        BY <1>2, <4>1, <4>2
    <3> QED
      BY <3>1
  <2>2. \A k \in Daemons : Pending(k)' \subseteq Pending(k)
    BY <1>5
  <2>3. \A k, l \in Daemons : \A p \in Pending(k)' : p \in Pending(l)' => k = l
    BY <1>0, <2>2 DEF Placed
  <2>4. \A k \in Daemons : loop'[k] = "working" => job'[k] \in Begun'
    BY <1>0, <1>3, <1>4 DEF Placed
  <2>5. \A k \in Daemons : loop'[k] = "none" => queue'[k] = << >>
    BY <1>0, <1>4 DEF Placed
  <2> QED
    BY <2>1, <2>3, <2>4, <2>5 DEF Placed
<1>8. Offered'
  <2>1. \A j \in Jobs : fate[j] = "offered" => fate'[j] = "offered"
    BY <1>0, <1>2 DEF Placed
  <2> QED
    BY <1>0, <1>1, <2>1 DEF Offered, TypeOK
<1>9. Stamped'
  <2>1. \A p \in Jobs : fate'[p] \in {"accepted", "begun", "done"} => fate'[p] = fate[p]
    BY <1>2
  <2>2. \A k \in Daemons : loop'[k] = "received" => loop[k] = "received" /\ k # i
    BY <1>4
  <2>3. \A k \in Daemons : Len(queue'[k]) = 0 \/ queue'[k] = queue[k]
    BY <1>4
  <2> QED
    BY <1>0, <1>1, <1>4, <2>1, <2>2, <2>3 DEF Stamped
<1>10. Ahead'
  BY <1>0, <1>1, <1>3, <1>5 DEF Ahead
<1>11. OrderKept
  BY <1>2 DEF OrderKept
<1> QED
  BY <1>7, <1>8, <1>9, <1>10, <1>11 DEF Line

\* A job that ends had begun.
LEMMA FinishStep ==
  ASSUME TypeOK, Line, NEW i \in Daemons, Finish(i)
  PROVE  Line' /\ OrderKept
<1>0. Placed /\ Offered /\ Stamped /\ Ahead
  BY DEF Line
<1>1. /\ loop[i] = "working" /\ job[i] \in Begun
      /\ loop' = [loop EXCEPT ![i] = "receiving"]
      /\ job' = [job EXCEPT ![i] = None]
      /\ fate' = [fate EXCEPT ![job[i]] = "done"]
      /\ UNCHANGED <<down, queue, call, stamp, count>>
  BY <1>0 DEF Finish, Becomes, Placed
<1>2. Begun' = Begun
  BY <1>1 DEF Begun, TypeOK
<1>3. /\ loop'[i] = "receiving"
      /\ \A k \in Daemons : k # i => loop'[k] = loop[k] /\ job'[k] = job[k]
  BY <1>1 DEF TypeOK
<1>4. \A k \in Daemons : Pending(k)' = Pending(k) /\ Pending(k) \subseteq Jobs
  <2>1. Pending(i)' = Pending(i)
    BY <1>1, <1>3 DEF Pending, Queued, InHand
  <2> QED
    BY <1>1, <1>3, <2>1, SamePending, PendingJobs
<1>5. \A k \in Daemons : job[i] \notin Pending(k)
  BY <1>0, <1>1 DEF Placed, Begun
<1>6. \A p \in Jobs : p # job[i] => fate'[p] = fate[p]
  BY <1>1 DEF TypeOK
<1>7. Placed'
  <2>1. \A k \in Daemons : \A p \in Pending(k)' : fate'[p] = "accepted"
    BY <1>0, <1>4, <1>5, <1>6 DEF Placed
  <2>2. \A k, l \in Daemons : \A p \in Pending(k)' : p \in Pending(l)' => k = l
    BY <1>0, <1>4 DEF Placed
  <2>3. \A k \in Daemons : loop'[k] = "working" => job'[k] \in Begun'
    BY <1>0, <1>2, <1>3 DEF Placed
  <2>4. \A k \in Daemons : loop'[k] = "none" => queue'[k] = << >>
    BY <1>0, <1>1, <1>3 DEF Placed
  <2> QED
    BY <2>1, <2>2, <2>3, <2>4 DEF Placed
<1>8. Offered'
  BY <1>0, <1>1, <1>6 DEF Offered, Begun, TypeOK
<1>9. Stamped'
  <2>1. \A p \in Jobs : fate'[p] \in {"accepted", "begun", "done"} => stamp[p] < count
    BY <1>0, <1>1, <1>6 DEF Stamped, Begun
  <2>2. \A k \in Daemons : loop'[k] = "received" => loop[k] = "received" /\ job'[k] = job[k]
    BY <1>3
  <2> QED
    BY <1>0, <1>1, <2>1, <2>2 DEF Stamped
<1>10. Ahead'
  BY <1>0, <1>1, <1>2, <1>4 DEF Ahead
<1>11. OrderKept
  BY <1>1, <1>6 DEF OrderKept, Begun, TypeOK
<1> QED
  BY <1>7, <1>8, <1>9, <1>10, <1>11 DEF Line

\* Every step keeps the line in order.
LEMMA LineStep ==
  ASSUME TypeOK, OneInCharge, Line, [Next]_vars
  PROVE  Line' /\ OrderKept
<1>1. ASSUME NEW c \in Clients, Stop(c) \/ Start(c) \/ Ensure(c) \/ Wake(c) \/ Shutdown(c) \/ Drop(c)
      PROVE Line' /\ OrderKept
  <2>1. UNCHANGED <<threads, history>> /\ down \subseteq down'
    BY <1>1 DEF Stop, Start, Ensure, Wake, Shutdown, Drop, TakeDown
  <2>2. \A d \in Clients : call'[d].op \in {"sending", "trying"} => call'[d] = call[d]
    BY <1>1 DEF Stop, Start, Ensure, Wake, Shutdown, Drop, TakeDown, Go, Return, NoCall, TypeOK
  <2>3. UNCHANGED <<queue, job, history>> /\ loop' = loop
    BY <2>1 DEF threads
  <2> QED
    BY <2>1, <2>2, <2>3, QuietStep
<1>2. ASSUME NEW c \in Clients, Spawn(c) PROVE Line' /\ OrderKept
  <2>1. UNCHANGED <<queue, job, history>>
    BY <1>2 DEF Spawn
  <2>2. \A i \in Daemons : loop'[i] = loop[i] \/ (loop[i] = "none" /\ loop'[i] = "receiving")
    BY <1>2 DEF Spawn, TypeOK
  <2>3. \A i \in Daemons : i \notin down' => i \notin down \/ loop[i] = "none"
    BY <1>2 DEF Spawn, TypeOK
  <2>4. \A d \in Clients : call'[d].op \in {"sending", "trying"} => call'[d] = call[d]
    BY <1>2 DEF Spawn, Return, NoCall, TypeOK
  <2>5. \A i \in Daemons : loop[i] = "none" => queue[i] = << >>
    BY DEF Line, Placed
  <2>6. \A i \in Daemons : \/ loop'[i] = loop[i]
                           \/ queue[i] = << >> /\ loop[i] \in {"none", "receiving"}
                              /\ loop'[i] \in {"none", "receiving"}
    BY <2>2, <2>5
  <2>7. \A i \in Daemons : i \notin down' => i \notin down \/ (queue[i] = << >> /\ loop[i] = "none")
    BY <2>3, <2>5
  <2> QED
    BY <2>1, <2>4, <2>6, <2>7, QuietStep
<1>3. ASSUME NEW c \in Clients, NEW j \in Jobs, Submit(c, j) \/ SubmitSync(c, j)
      PROVE Line' /\ OrderKept
  <2>1. fate[j] = "new" /\ Becomes(j, "offered") /\ UNCHANGED <<threads, down, stamp, count>>
    BY <1>3 DEF Submit, SubmitSync
  <2>2. call'[c].job = j /\ \A d \in Clients \ {c} : call'[d] = call[d]
    BY <1>3 DEF Submit, SubmitSync, Go, TypeOK
  <2> QED
    BY <2>1, <2>2, OfferStep
<1>4. ASSUME NEW c \in Clients, Accept(c) PROVE Line' /\ OrderKept
  BY <1>4, AcceptStep
<1>5. ASSUME NEW c \in Clients, Refuse(c) PROVE Line' /\ OrderKept
  <2>1. call[c].op \in {"sending", "trying"} /\ call[c].job \in Jobs
    BY <1>5 DEF Refuse, TypeOK
  <2>2. fate[call[c].job] = "offered"
    BY <2>1 DEF Line, Offered
  <2>3. Becomes(call[c].job, "refused") /\ UNCHANGED <<threads, down, stamp, count>>
    BY <1>5 DEF Refuse
  <2>4. call'[c].op = "idle" /\ \A d \in Clients \ {c} : call'[d] = call[d]
    BY <1>5 DEF Refuse, Return, NoCall, TypeOK
  <2> QED
    BY <2>1, <2>2, <2>3, <2>4, OfferStep
<1>6. ASSUME NEW i \in Daemons, HangUp(i) PROVE Line' /\ OrderKept
  <2>1. UNCHANGED <<queue, job, history, call, down>> /\ queue[i] = << >> /\ loop[i] = "receiving"
    BY <1>6 DEF HangUp
  <2>2. \A k \in Daemons : loop'[k] = loop[k] \/ (k = i /\ loop'[k] = "none")
    BY <1>6 DEF HangUp, TypeOK
  <2>3. \A k \in Daemons : \/ loop'[k] = loop[k]
                           \/ queue[k] = << >> /\ loop[k] \in {"none", "receiving"}
                              /\ loop'[k] \in {"none", "receiving"}
    BY <2>1, <2>2
  <2> QED
    BY <2>1, <2>3, QuietStep
<1>7. ASSUME NEW i \in Daemons, Receive(i) PROVE Line' /\ OrderKept
  BY <1>7, ReceiveStep
<1>8. ASSUME NEW i \in Daemons, Begin(i) PROVE Line' /\ OrderKept
  BY <1>8, BeginStep
<1>9. ASSUME NEW i \in Daemons, BreakLoop(i) PROVE Line' /\ OrderKept
  BY <1>9, BreakStep
<1>10. ASSUME NEW i \in Daemons, Finish(i) PROVE Line' /\ OrderKept
  BY <1>10, FinishStep
<1>11. CASE UNCHANGED vars
  <2>1. UNCHANGED <<queue, job, history>> /\ loop' = loop /\ down' = down /\ call' = call
    BY <1>11 DEF vars, threads
  <2> QED
    BY <2>1, QuietStep
<1> QED
  BY <1>1, <1>2, <1>3, <1>4, <1>5, <1>6, <1>7, <1>8, <1>9, <1>10, <1>11 DEF Next, Answer, Step

\* Before anything has started the line is empty.
LEMMA InitInv == Init => DaemonInv
<1> SUFFICES ASSUME Init PROVE DaemonInv
  OBVIOUS
<1> USE DaemonAssumption DEF Init
<1>1. TypeOK
  BY DEF TypeOK, Call, NoCall
<1>2. OneInCharge
  BY DEF OneInCharge
<1>3. Begun = {} /\ \A i \in Daemons : Pending(i) = {}
  BY DEF Begun, Pending, Queued, InHand
<1>4. Line
  BY <1>3 DEF Line, Placed, Offered, Stamped, Ahead, NoCall
<1> QED
  BY <1>1, <1>2, <1>4 DEF DaemonInv

\* Every step keeps the invariant.
LEMMA NextInv == DaemonInv /\ [Next]_vars => DaemonInv'
BY TypeStep, ChargeStep, LineStep DEF DaemonInv

\* The invariant holds in every reachable state.
LEMMA Invariance == Spec => []DaemonInv
BY InitInv, NextInv, PTL DEF Spec

\* Every reachable state of the daemons and their clients is well typed, and
\* no channel exceeds its capacity.
THEOREM TypeCorrectness == Spec => []TypeOK
<1>1. DaemonInv => TypeOK
  BY DEF DaemonInv
<1> QED
  BY Invariance, <1>1, PTL

\* The daemon in the slot is the only one that has not been told to stop
\* (start_daemon and stop_daemon, daemon.rs:187, 248).
THEOREM OneInChargeAlways == Spec => []OneInCharge
<1>1. DaemonInv => OneInCharge
  BY DEF DaemonInv
<1> QED
  BY Invariance, <1>1, PTL

\* Writes begin in the order in which they were accepted, over restarts too
\* (daemon_loop, daemon.rs:365).
THEOREM BegunInOrderAlways == Spec => BegunInOrder
<1>1. DaemonInv /\ [Next]_vars =>
        [\A j, k \in Jobs :
           fate[j] # "begun" /\ fate'[j] = "begun" /\ fate[k] \in {"begun", "done"} =>
             stamp[k] < stamp[j]]_vars
  BY LineStep DEF DaemonInv, OrderKept
<1> QED
  BY Invariance, <1>1, PTL DEF Spec, BegunInOrder
-----------------------------------------------------------------------------
(***************************************************************************)
(* No job vanishes: the part of AcceptedIsSettled and SubmittersAnswered   *)
(* that needs no fairness.                                                 *)
(***************************************************************************)
JobOffered(j) == \E c \in Clients : call[c].op \in {"sending", "trying"} /\ call[c].job = j
JobHeld(j)    == \E i \in Daemons : loop[i] # "none" /\ j \in Pending(i)
JobWorked(j)  == \E i \in Daemons : loop[i] = "working" /\ job[i] = j

\* Whatever daemons are stopped, restarted and dropped meanwhile, a job that is
\* offered is in the hands of a client, an accepted one in the channel or the
\* hands of a thread that is still there, and one that has begun is being
\* carried out (daemon.rs:365): none is left in a channel whose thread is gone.
Accounted ==
  \A j \in Jobs :
    /\ fate[j] = "offered" => JobOffered(j)
    /\ fate[j] = "accepted" => JobHeld(j)
    /\ fate[j] = "begun" => JobWorked(j)

\* Clients that leave submissions and channels alone leave the account alone,
\* and so does a thread without jobs that comes or goes.
LEMMA QuietAccount ==
  ASSUME Accounted, UNCHANGED <<queue, job, fate>>,
         \A i \in Daemons : loop'[i] = loop[i] \/ (queue[i] = << >> /\ loop[i] \in {"none", "receiving"}),
         \A c \in Clients : call[c].op \in {"sending", "trying"} => call'[c] = call[c]
  PROVE  Accounted'
<1>1. ASSUME NEW j \in Jobs, JobOffered(j) PROVE JobOffered(j)'
  BY <1>1 DEF JobOffered
<1>2. ASSUME NEW j \in Jobs, JobWorked(j) PROVE JobWorked(j)'
  BY <1>2 DEF JobWorked
<1>3. ASSUME NEW j \in Jobs, JobHeld(j) PROVE JobHeld(j)'
  <2>1. PICK i \in Daemons : loop[i] # "none" /\ j \in Pending(i)
    BY <1>3 DEF JobHeld
  <2>2. queue[i] # << >> \/ loop[i] = "received"
    BY <2>1 DEF Pending, Queued, InHand
  <2>3. loop'[i] = loop[i] /\ queue'[i] = queue[i] /\ job'[i] = job[i]
    BY <2>2
  <2> QED
    BY <2>1, <2>3, SamePending DEF JobHeld
<1> QED
  BY <1>1, <1>2, <1>3 DEF Accounted

\* A submission is one more offer, or one less.
LEMMA OfferAccount ==
  ASSUME TypeOK, Line, Accounted, NEW c \in Clients, NEW j \in Jobs,
         NEW f \in {"offered", "refused"},
         Becomes(j, f), UNCHANGED threads,
         call[c].op \in {"sending", "trying"} => call[c].job = j,
         f = "offered" => call'[c].job = j /\ call'[c].op \in {"sending", "trying"},
         \A d \in Clients \ {c} : call'[d] = call[d]
  PROVE  Accounted'
<1>1. fate'[j] = f /\ \A k \in Jobs : k # j => fate'[k] = fate[k]
  BY DEF Becomes, TypeOK
<1>2. ASSUME NEW k \in Jobs, k # j, JobOffered(k) PROVE JobOffered(k)'
  BY <1>2 DEF JobOffered
<1>3. f = "offered" => JobOffered(j)'
  BY DEF JobOffered
<1>4. \A k \in Jobs : JobHeld(k)' = JobHeld(k) /\ JobWorked(k)' = JobWorked(k)
  BY DEF JobHeld, JobWorked, Pending, Queued, InHand, threads
<1> QED
  BY <1>1, <1>2, <1>3, <1>4 DEF Accounted

\* A thread moves its jobs on in the account, each to the place its fate names.
LEMMA ThreadAccount ==
  ASSUME TypeOK, Accounted, NEW i \in Daemons, UNCHANGED call,
         \A k \in Daemons : k # i => queue'[k] = queue[k] /\ loop'[k] = loop[k] /\ job'[k] = job[k],
         \A j \in Jobs : fate'[j] \in {"offered", "accepted"} => fate'[j] = fate[j],
         \A j \in Jobs : fate'[j] = "accepted" /\ loop[i] # "none" /\ j \in Pending(i) =>
            loop'[i] # "none" /\ j \in Pending(i)',
         \A j \in Jobs : fate'[j] = "begun" =>
            \/ loop'[i] = "working" /\ job'[i] = j
            \/ fate[j] = "begun" /\ (loop[i] = "working" => job[i] # j)
  PROVE  Accounted'
<1>1. \A j \in Jobs : JobOffered(j)' = JobOffered(j)
  BY DEF JobOffered
<1>2. ASSUME NEW j \in Jobs, fate'[j] = "accepted" PROVE JobHeld(j)'
  <2>1. PICK k \in Daemons : loop[k] # "none" /\ j \in Pending(k)
    BY <1>2 DEF Accounted, JobHeld
  <2>2. k # i => Pending(k)' = Pending(k) /\ loop'[k] = loop[k]
    BY SamePending
  <2> QED
    BY <1>2, <2>1, <2>2 DEF JobHeld
<1>3. ASSUME NEW j \in Jobs, fate'[j] = "begun" PROVE JobWorked(j)'
  <2>1. CASE loop'[i] = "working" /\ job'[i] = j
    BY <2>1 DEF JobWorked
  <2>2. CASE fate[j] = "begun" /\ (loop[i] = "working" => job[i] # j)
    <3>1. PICK k \in Daemons : loop[k] = "working" /\ job[k] = j
      BY <2>2 DEF Accounted, JobWorked
    <3> QED
      BY <2>2, <3>1 DEF JobWorked
  <2> QED
    BY <1>3, <2>1, <2>2
<1> QED
  BY <1>1, <1>2, <1>3 DEF Accounted

\* Every step keeps the account.
LEMMA AccountStep ==
  ASSUME DaemonInv, Accounted, [Next]_vars
  PROVE  Accounted'
<1>0. TypeOK /\ Line /\ Placed
  BY DEF DaemonInv, Line
<1>1. ASSUME NEW c \in Clients, Stop(c) \/ Start(c) \/ Ensure(c) \/ Wake(c) \/ Shutdown(c) \/ Drop(c)
      PROVE  Accounted'
  <2>1. UNCHANGED <<queue, job, fate>> /\ loop' = loop
    BY <1>1 DEF Stop, Start, Ensure, Wake, Shutdown, Drop, TakeDown, threads, history
  <2>2. \A d \in Clients : call[d].op \in {"sending", "trying"} => call'[d] = call[d]
    BY <1>0, <1>1 DEF Stop, Start, Ensure, Wake, Shutdown, Drop, TakeDown, Go, Return, Idle, TypeOK
  <2> QED
    BY <2>1, <2>2, QuietAccount
<1>2. ASSUME NEW c \in Clients, Spawn(c) PROVE Accounted'
  <2>1. UNCHANGED <<queue, job, fate>>
    BY <1>2 DEF Spawn, history
  <2>2. \A i \in Daemons : loop'[i] = loop[i] \/ loop[i] = "none"
    BY <1>0, <1>2 DEF Spawn, TypeOK
  <2>3. \A d \in Clients : call[d].op \in {"sending", "trying"} => call'[d] = call[d]
    BY <1>0, <1>2 DEF Spawn, Return, TypeOK
  <2> QED
    BY <1>0, <2>1, <2>2, <2>3, QuietAccount DEF Placed
<1>3. ASSUME NEW c \in Clients, NEW j \in Jobs, Submit(c, j) \/ SubmitSync(c, j) PROVE Accounted'
  <2>1. Becomes(j, "offered") /\ UNCHANGED threads /\ call[c].op = "idle"
    BY <1>3 DEF Submit, SubmitSync, Idle
  <2>2. /\ call'[c].job = j /\ call'[c].op \in {"sending", "trying"}
        /\ \A d \in Clients \ {c} : call'[d] = call[d]
    BY <1>0, <1>3 DEF Submit, SubmitSync, Go, TypeOK
  <2> QED
    BY <1>0, <2>1, <2>2, OfferAccount
<1>4. ASSUME NEW c \in Clients, Refuse(c) PROVE Accounted'
  <2>1. call[c].job \in Jobs /\ Becomes(call[c].job, "refused") /\ UNCHANGED threads
    BY <1>0, <1>4 DEF Refuse, TypeOK
  <2>2. \A d \in Clients \ {c} : call'[d] = call[d]
    BY <1>0, <1>4 DEF Refuse, Return, TypeOK
  <2> QED
    BY <1>0, <2>1, <2>2, OfferAccount
<1>5. ASSUME NEW c \in Clients, Accept(c) PROVE Accounted'
  <2>1. PICK i \in Daemons, j \in Jobs :
          /\ call[c].daemon = i /\ call[c].job = j /\ loop[i] # "none"
          /\ call[c].op \in {"sending", "trying"}
    BY <1>0, <1>5 DEF Accept, TypeOK
  <2>2. /\ queue' = [queue EXCEPT ![i] = Append(@, j)]
        /\ fate' = [fate EXCEPT ![j] = "accepted"]
        /\ call' = [call EXCEPT ![c] = NoCall]
        /\ UNCHANGED <<loop, job>>
    BY <1>5, <2>1 DEF Accept, Becomes, Return
  <2>3. /\ fate'[j] = "accepted" /\ \A k \in Jobs : k # j => fate'[k] = fate[k]
        /\ \A d \in Clients : d # c => call'[d] = call[d]
    BY <1>0, <2>2 DEF TypeOK
  <2>4. j \in Queued(i)' /\ \A k \in Daemons : Queued(k) \subseteq Queued(k)'
    <3>1. /\ Len(queue[i]) \in Nat /\ Len(queue'[i]) = Len(queue[i]) + 1
          /\ queue'[i][Len(queue[i]) + 1] = j
          /\ \A n \in 1 .. Len(queue[i]) : queue'[i][n] = queue[i][n]
          /\ \A k \in Daemons : k # i => queue'[k] = queue[k]
      BY <1>0, <2>2 DEF TypeOK
    <3>2. 1 .. Len(queue[i]) \subseteq 1 .. Len(queue'[i]) /\ Len(queue[i]) + 1 \in 1 .. Len(queue'[i])
      BY <3>1
    <3> QED
      BY <3>1, <3>2 DEF Queued
  <2>5. JobHeld(j)' /\ \A k \in Jobs : JobHeld(k) => JobHeld(k)'
    BY <2>1, <2>2, <2>4 DEF JobHeld, Pending, InHand
  <2>6. \A k \in Jobs : k # j /\ JobOffered(k) => JobOffered(k)'
    BY <2>1, <2>3 DEF JobOffered
  <2>7. \A k \in Jobs : JobWorked(k) => JobWorked(k)'
    BY <2>2 DEF JobWorked
  <2> QED
    BY <2>3, <2>5, <2>6, <2>7 DEF Accounted
<1>6. ASSUME NEW i \in Daemons, Receive(i) PROVE Accounted'
  <2>1. /\ queue[i] # << >> /\ loop[i] = "receiving"
        /\ loop'[i] = "received" /\ job'[i] = Head(queue[i]) /\ queue'[i] = Tail(queue[i])
        /\ \A k \in Daemons : k # i => queue'[k] = queue[k] /\ loop'[k] = loop[k] /\ job'[k] = job[k]
        /\ UNCHANGED <<call, fate>>
    BY <1>0, <1>6 DEF Receive, TypeOK, history
  <2>2. Pending(i) \subseteq Pending(i)'
    <3>1. /\ Len(queue[i]) \in Nat \ {0} /\ Len(queue'[i]) = Len(queue[i]) - 1
          /\ job'[i] = queue[i][1]
          /\ \A n \in 1 .. Len(queue'[i]) : queue'[i][n] = queue[i][n + 1]
      BY <1>0, <2>1 DEF TypeOK
    <3>2. \A n \in 1 .. Len(queue[i]) : n = 1 \/ (n - 1 \in 1 .. Len(queue'[i]) /\ (n - 1) + 1 = n)
      BY <3>1
    <3>3. \A n \in 1 .. Len(queue[i]) : queue[i][n] = job'[i] \/ queue[i][n] \in Queued(i)'
      <4>1. ASSUME NEW m \in 1 .. Len(queue'[i]) PROVE queue'[i][m] \in Queued(i)'
        BY <4>1 DEF Queued
      <4>2. ASSUME NEW n \in 1 .. Len(queue[i]), n # 1 PROVE queue[i][n] \in Queued(i)'
        <5>1. n - 1 \in 1 .. Len(queue'[i]) /\ queue'[i][n - 1] = queue[i][n]
          BY <3>1, <3>2, <4>2
        <5> QED
          BY <4>1, <5>1
      <4> QED
        BY <3>1, <4>2
    <3>4. Pending(i) = Queued(i)
      BY <2>1 DEF Pending, InHand
    <3>5. Pending(i)' = Queued(i)' \cup {job'[i]}
      BY <2>1 DEF Pending, InHand
    <3> QED
      BY <3>3, <3>4, <3>5 DEF Queued
  <2> QED
    BY <1>0, <2>1, <2>2, ThreadAccount
<1>7. ASSUME NEW i \in Daemons, HangUp(i) PROVE Accounted'
  <2>1. UNCHANGED <<queue, job, fate, call>> /\ queue[i] = << >> /\ loop[i] = "receiving"
        /\ \A k \in Daemons : k # i => loop'[k] = loop[k]
    BY <1>0, <1>7 DEF HangUp, TypeOK, history
  <2> QED
    BY <2>1, QuietAccount
<1>8. ASSUME NEW i \in Daemons, Begin(i) PROVE Accounted'
  <2>1. /\ loop[i] = "received" /\ loop'[i] = "working"
        /\ UNCHANGED <<queue, job, call>>
        /\ \A k \in Daemons : k # i => loop'[k] = loop[k]
        /\ \A j \in Jobs : fate'[j] = IF j = job[i] THEN "begun" ELSE fate[j]
    BY <1>0, <1>8 DEF Begin, Becomes, TypeOK
  <2>2. Pending(i) = Queued(i)' \cup {job[i]} /\ Pending(i)' = Queued(i)'
    BY <2>1 DEF Pending, InHand, Queued
  <2> QED
    BY <1>0, <2>1, <2>2, ThreadAccount
<1>9. ASSUME NEW i \in Daemons, BreakLoop(i) PROVE Accounted'
  <2>1. /\ loop[i] = "received" /\ UNCHANGED call
        /\ \A k \in Daemons : k # i => queue'[k] = queue[k] /\ loop'[k] = loop[k] /\ job'[k] = job[k]
        /\ fate' = [j \in Jobs |-> IF j \in Pending(i) THEN "lost" ELSE fate[j]]
    BY <1>0, <1>9 DEF BreakLoop, TypeOK, Pending, InHand
  <2> QED
    BY <1>0, <2>1, ThreadAccount
<1>10. ASSUME NEW i \in Daemons, Finish(i) PROVE Accounted'
  <2>1. /\ loop[i] = "working" /\ loop'[i] = "receiving" /\ UNCHANGED <<queue, call>>
        /\ \A k \in Daemons : k # i => loop'[k] = loop[k] /\ job'[k] = job[k]
        /\ \A j \in Jobs : fate'[j] = IF j = job[i] THEN "done" ELSE fate[j]
    BY <1>0, <1>10 DEF Finish, Becomes, TypeOK
  <2>2. Pending(i)' = Pending(i)
    BY <2>1 DEF Pending, InHand, Queued
  <2> QED
    BY <1>0, <2>1, <2>2, ThreadAccount
<1>11. CASE UNCHANGED vars
  BY <1>11, QuietAccount DEF vars, threads, history
<1> QED
  BY <1>1, <1>2, <1>3, <1>4, <1>5, <1>6, <1>7, <1>8, <1>9, <1>10, <1>11 DEF Next, Answer, Step

\* No job vanishes, for any clients, daemons and jobs and however starts, stops
\* and submissions interleave.
THEOREM NoJobVanishesAlways == Spec => []Accounted
<1>1. Init => Accounted
  BY DEF Init, Accounted
<1>2. DaemonInv /\ Accounted /\ [Next]_vars => Accounted'
  BY AccountStep
<1> QED
  BY <1>1, <1>2, Invariance, PTL DEF Spec
=============================================================================
