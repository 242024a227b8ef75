---------------------------- MODULE Coordination ----------------------------
(***************************************************************************)
(* The coordination tools of the MCP server (mcp_server.rs, "Multi-Agent   *)
(* Coordination tool handlers") over coordination.db (palace_db.rs,        *)
(* CoordinationDb): agents create actions that depend on one another, ask  *)
(* for the next one that is ready, and lease it while they work on it.     *)
(*                                                                         *)
(* Every call opens the database anew (fresh_db), so what two calls share  *)
(* is the tables, and a call is atomic only where it is one SQL statement. *)
(* A call of several statements is a Begin step followed by one step per   *)
(* statement; a read that changes nothing is part of the step that uses it.*)
(* An agent leases under its own name: a call that names no holder takes a *)
(* lease for the agent "unknown", and releases and renews nothing.         *)
(***************************************************************************)
EXTENDS Naturals

CONSTANTS
  Agents,       \* callers, one call at a time each
  Actions,      \* ids of actions: hashes of their titles
  LeaseIds,     \* ids of leases: hashes of the action and the time
  None,         \* no action, no agent, no lease
  GivenStatus,  \* statuses the callers of action_update pass
  MaxTime,      \* bound on the clock
  MaxTTL        \* the longest time to live a caller asks for

ASSUME CoordinationAssumption ==
  /\ None \notin Actions \cup Agents \cup LeaseIds
  /\ "missing" \notin GivenStatus
  /\ MaxTime \in Nat /\ MaxTTL \in Nat

VARIABLES
  status,   \* table actions: the status of each action, "missing" if no row
  deps,     \* table action_dependencies: pairs <<action, depends_on>>
  leases,   \* table leases
  now,      \* the wall clock
  call,     \* the call each agent has in flight
  handed,   \* the action tool_next gave last, until the next call begins
  declared, \* history: dependencies declared on actions that existed then
  cut,      \* history: actions whose creation lost a dependency: the server died
            \* or the statement failed
  entangled, \* history: actions that wait for one which was created only later,
            \* while their own creation was in flight
  met,      \* history: agents whose call on a lease has met another one, which
            \* granted a lease on the same action in the meantime
  contested \* history: leases granted by such a call

history == <<declared, cut, entangled, met, contested>>
vars == <<status, deps, leases, now, call, handed, history>>

Lease == [action : Actions \cup {None}, agent : Agents \cup {None},
          status : {"unused", "active", "released"},
          expires : 0..(MaxTime + MaxTTL)]
Call  == [op : {"idle", "create", "routine", "acquire", "release", "renew"},
          action : Actions \cup {None},      \* the action it is about
          left : SUBSET Actions,             \* what its loop has still to do
          row : LeaseIds \cup {None}]        \* the lease it found

NoCall  == [op |-> "idle", action |-> None, left |-> {}, row |-> None]
NoLease == [action |-> None, agent |-> None, status |-> "unused", expires |-> 0]

TypeOK ==
  /\ status \in [Actions -> GivenStatus \cup {"missing", "pending"}]
  /\ deps \subseteq Actions \X Actions
  /\ leases \in [LeaseIds -> Lease]
  /\ now \in 0..MaxTime
  /\ call \in [Agents -> Call]
  /\ handed \in Actions \cup {None}
  /\ declared \subseteq Actions \X Actions
  /\ cut \subseteq Actions
  /\ entangled \subseteq Actions
  /\ met \subseteq Agents
  /\ contested \subseteq LeaseIds

Init ==
  /\ status = [a \in Actions |-> "missing"]
  /\ deps = {}
  /\ leases = [l \in LeaseIds |-> NoLease]
  /\ now = 0
  /\ call = [c \in Agents |-> NoCall]
  /\ handed = None
  /\ declared = {}
  /\ cut = {}
  /\ entangled = {}
  /\ met = {}
  /\ contested = {}

-----------------------------------------------------------------------------
Idle(c) == call[c].op = "idle"

Begin(c, op, action, left, row) ==
  /\ Idle(c)
  /\ call' = [call EXCEPT ![c] = [op |-> op, action |-> action,
                                  left |-> left, row |-> row]]
  /\ handed' = None

End(c) ==
  /\ call' = [call EXCEPT ![c] = NoCall]
  /\ met' = met \ {c}

\* The loop of call c goes on without x, or ends when x was the last one.
Advance(c, x) ==
  \/ call[c].left = {x} /\ End(c)
  \/ /\ call[c].left # {x}
     /\ call' = [call EXCEPT ![c].left = @ \ {x}]
     /\ UNCHANGED met

\* The actions whose creation has still to add a dependency on a.
Awaiting(a) ==
  {call[c].action : c \in {d \in Agents : call[d].op = "create" /\ a \in call[d].left}}

\* A row for a, unless there is one.
Insert(a) ==
  \/ /\ status[a] = "missing"
     /\ status' = [status EXCEPT ![a] = "pending"]
     /\ entangled' = entangled \cup Awaiting(a)
  \/ /\ status[a] # "missing"
     /\ UNCHANGED <<status, entangled>>

-----------------------------------------------------------------------------
(***************************************************************************)
(* Actions: tool_action_create, tool_action_update, tool_routine_run,      *)
(* tool_next.                                                              *)
(***************************************************************************)

\* Mutant: creating an action that exists starts it afresh.
CreateAgain(c, a, wanted) ==
  /\ status' = [status EXCEPT ![a] = "pending"]
  /\ entangled' = entangled \cup Awaiting(a)
  /\ declared' = declared \cup {<<a, d>> : d \in {x \in wanted : status[x] # "missing"}}
  /\ IF wanted = {}
       THEN Idle(c) /\ handed' = None /\ UNCHANGED call
       ELSE Begin(c, "create", a, wanted, None)
  /\ UNCHANGED <<deps, leases, now, cut, met, contested>>

\* The row goes in first, the dependencies follow one statement at a time.  A
\* dependency may be on an action that does not exist, or on this one itself.
CreateAction(c, a, wanted) ==
  /\ status[a] = "missing"
  /\ Insert(a)
  /\ declared' = declared \cup {<<a, d>> : d \in {x \in wanted : status[x] # "missing"}}
  /\ IF wanted = {}
       THEN Idle(c) /\ handed' = None /\ UNCHANGED call
       ELSE Begin(c, "create", a, wanted, None)
  /\ UNCHANGED <<deps, leases, now, cut, met, contested>>

\* Mutant: the dependency goes in the wrong way round.
AddDependencyReversed(c, d) ==
  /\ call[c].op = "create" /\ d \in call[c].left
  /\ deps' = IF status[d] = "missing" THEN deps ELSE deps \cup {<<d, call[c].action>>}
  /\ Advance(c, d)
  /\ UNCHANGED <<status, leases, now, handed, declared, cut, entangled, contested>>

\* The foreign key refuses a dependency on a missing action, and the statement
\* may fail for any reason of the database's: either is logged, and the loop
\* goes on.
AddDependency(c, d) ==
  /\ call[c].op = "create" /\ d \in call[c].left
  /\ \/ /\ deps' = IF status[d] = "missing" THEN deps
                                           ELSE deps \cup {<<call[c].action, d>>}
        /\ UNCHANGED cut
     \/ /\ cut' = cut \cup {call[c].action}
        /\ UNCHANGED deps
  /\ Advance(c, d)
  /\ UNCHANGED <<status, leases, now, handed, declared, entangled, contested>>

BeginRoutine(c, steps) ==
  /\ steps # {}
  /\ Begin(c, "routine", None, steps, None)
  /\ UNCHANGED <<status, deps, leases, now, history>>

\* A step whose action exists already, or whose insert fails, is skipped.
InsertStep(c, a) ==
  /\ call[c].op = "routine" /\ a \in call[c].left
  /\ Insert(a) \/ UNCHANGED <<status, entangled>>
  /\ Advance(c, a)
  /\ UNCHANGED <<deps, leases, now, handed, declared, cut, contested>>

\* Any status the caller gives is stored as it is.
UpdateAction(c, a, s) ==
  /\ Idle(c)
  /\ status[a] # "missing"
  /\ status' = [status EXCEPT ![a] = s]
  /\ handed' = None
  /\ UNCHANGED <<deps, leases, now, call, history>>

\* action_list_unblocked: no project, and a limit that is out of the way.
Frontier ==
  {a \in Actions : /\ status[a] = "pending"
                   /\ \A d \in Actions : <<a, d>> \in deps => status[d] \in {"done", "cancelled"}}

\* The priorities, which any caller sets, can put any action first.  The call
\* changes nothing, so it is enough to see it once between two that do.
NextAction(c) ==
  /\ Idle(c)
  /\ handed = None
  /\ handed' \in Frontier
  /\ UNCHANGED <<status, deps, leases, now, call, history>>

-----------------------------------------------------------------------------
(***************************************************************************)
(* Leases: tool_lease.                                                     *)
(***************************************************************************)

\* lease_get_active: one of these rows, whichever comes first.
Active(a) == {l \in LeaseIds : /\ leases[l].action = a
                               /\ leases[l].status = "active"
                               /\ leases[l].expires > now}

BeginLease(c, op, a, l) ==
  /\ Begin(c, op, a, {}, l)
  /\ UNCHANGED <<status, deps, leases, now, history>>

\* Call c ends by granting lease l: whoever has looked up the leases of its
\* action meanwhile has met it.
Grant(c, l) ==
  /\ call' = [call EXCEPT ![c] = NoCall]
  /\ met' = (met \ {c}) \cup {d \in Agents \ {c} : /\ call[d].op \in {"acquire", "renew"}
                                                  /\ call[d].action = call[c].action}
  /\ contested' = IF c \in met THEN contested \cup {l} ELSE contested

\* Mutant: nobody looks for an active lease.
AcquireUnchecked(c, a) == BeginLease(c, "acquire", a, None)

BeginAcquire(c, a) == Active(a) = {} /\ BeginLease(c, "acquire", a, None)

\* The foreign key refuses a lease on a missing action.
EndAcquire(c, l, ttl) ==
  /\ call[c].op = "acquire"
  /\ leases[l].status = "unused"
  /\ \/ /\ status[call[c].action] = "missing"
        /\ End(c)
        /\ UNCHANGED <<leases, contested>>
     \/ /\ status[call[c].action] # "missing"
        /\ leases' = [leases EXCEPT ![l] = [action |-> call[c].action, agent |-> c,
                                           status |-> "active", expires |-> now + ttl]]
        /\ Grant(c, l)
  /\ UNCHANGED <<status, deps, now, handed, declared, cut, entangled>>

\* Mutant: the holder is not compared with the caller.
CheckAnyLease(c, op, a) ==
  \E l \in Active(a) : BeginLease(c, op, a, l)

\* Release and renew look the lease up and compare its holder; with no
\* active lease, or another's, the call ends there.
CheckHolder(c, op, a) ==
  \E l \in Active(a) : leases[l].agent = c /\ BeginLease(c, op, a, l)

BeginRelease(c, a) == CheckHolder(c, "release", a)

EndRelease(c) ==
  /\ call[c].op = "release"
  /\ leases' = [leases EXCEPT ![call[c].row].status = "released"]
  /\ End(c)
  /\ UNCHANGED <<status, deps, now, handed, declared, cut, entangled, contested>>

BeginRenew(c, a) == CheckHolder(c, "renew", a)

\* Mutant: the new time to live is added to the old expiry.
RenewFromExpiry(c, ttl) ==
  /\ call[c].op = "renew"
  /\ leases' = IF leases[call[c].row].status = "active"
                 THEN [leases EXCEPT ![call[c].row].expires = @ + ttl]
                 ELSE leases
  /\ Grant(c, call[c].row)
  /\ UNCHANGED <<status, deps, now, handed, declared, cut, entangled>>

\* The row is renewed if it is not released; expired or not.
EndRenew(c, ttl) ==
  /\ call[c].op = "renew"
  /\ \/ /\ leases[call[c].row].status # "active"
        /\ End(c)
        /\ UNCHANGED <<leases, contested>>
     \/ /\ leases[call[c].row].status = "active"
        /\ leases' = [leases EXCEPT ![call[c].row].expires = now + ttl]
        /\ Grant(c, call[c].row)
  /\ UNCHANGED <<status, deps, now, handed, declared, cut, entangled>>

-----------------------------------------------------------------------------
\* The server dies in the middle of a call, or its next statement fails and the
\* call ends with an error; nothing of what it has done is undone.
Die(c) ==
  /\ ~Idle(c)
  /\ End(c)
  /\ cut' = IF call[c].op = "create" THEN cut \cup {call[c].action} ELSE cut
  /\ UNCHANGED <<status, deps, leases, now, handed, declared, entangled, met, contested>>

Tick ==
  /\ now < MaxTime
  /\ now' = now + 1
  /\ UNCHANGED <<status, deps, leases, call, handed, history>>

Next ==
  \/ \E c \in Agents :
       \/ \E a \in Actions :
            \/ \E wanted \in SUBSET Actions : CreateAction(c, a, wanted)
            \/ AddDependency(c, a)
            \/ InsertStep(c, a)
            \/ \E s \in GivenStatus : UpdateAction(c, a, s)
            \/ BeginAcquire(c, a)
            \/ BeginRelease(c, a)
            \/ BeginRenew(c, a)
       \/ \E steps \in SUBSET Actions : BeginRoutine(c, steps)
       \/ NextAction(c)
       \/ \E l \in LeaseIds, ttl \in 0..MaxTTL : EndAcquire(c, l, ttl)
       \/ EndRelease(c)
       \/ \E ttl \in 0..MaxTTL : EndRenew(c, ttl)
       \/ Die(c)
  \/ Tick

Spec == Init /\ [][Next]_vars

-----------------------------------------------------------------------------
(***************************************************************************)
(* Properties.                                                             *)
(***************************************************************************)

\* A lease claims an action for execution (mcp_server.rs:1042, 3707): two leases
\* on one action are in force together only if one of them was granted by a call
\* that looked, and before it wrote met the grant of another.  Expiry, renewals of
\* what has expired, stale releases and deaths alone never lead to it.
LeaseExclusive ==
  \A a \in Actions : \A l, m \in Active(a) : l = m \/ {l, m} \cap contested # {}

\* A lease row changes only at the end of a call of the agent that holds it,
\* however stale the lookup of that call has become; it never passes to another
\* agent or action, and once released it stays so (mcp_server.rs:3742).
OnlyHolderTouchesLease ==
  [][\A l \in LeaseIds :
       leases[l].status # "unused" /\ leases'[l] # leases[l] =>
         /\ leases[l].status = "active"
         /\ leases'[l].agent = leases[l].agent /\ leases'[l].action = leases[l].action
         /\ \E c \in Agents : c = leases[l].agent /\ ~Idle(c) /\ call'[c] = NoCall]_vars

\* What tool_next hands out is ready once its creation is over: every action it
\* was declared to depend on, of those that existed, has ended, unless a statement
\* of the creation failed or the server died in it (palace_db.rs:630,
\* mcp_server.rs:3567).
HandedIsReady ==
  [][handed = None /\ handed' # None =>
       \/ handed' \in cut
       \/ \E c \in Agents : call[c].op = "create" /\ call[c].action = handed'
       \/ \A d \in Actions : <<handed', d>> \in declared =>
            status[d] \in {"done", "cancelled"}]_vars

\* Actions wait for one another in a circle only if one of them was declared to
\* depend on an action that another call created while its own creation was in
\* flight (mcp_server.rs:3567): in every set of others one waits for none but,
\* perhaps, itself.
NoStandstill ==
  \A S \in (SUBSET (Actions \ entangled)) \ {{}} :
    \E a \in S : \A d \in S \ {a} : <<a, d>> \notin deps
=============================================================================
