------------------------- MODULE CoordinationProofs -------------------------
(***************************************************************************)
(* What the coordination tools guarantee for any number of agents, actions *)
(* and leases, and any interleaving of their calls: a lease is touched by  *)
(* its holder alone; two are in force together only after a call that met  *)
(* the grant of another; actions wait for one another in a circle only     *)
(* after a creation that met another; what is handed out is ready once its *)
(* creation has come to its end.                                           *)
(***************************************************************************)
EXTENDS Coordination, TLAPS

\* The dependencies and the calls in flight name actions that exist.
RowsExist ==
  /\ \A a, d \in Actions : <<a, d>> \in deps \cup declared =>
       status[a] # "missing" /\ status[d] # "missing"
  /\ \A c \in Agents : call[c].op = "create" =>
       /\ call[c].action \in Actions
       /\ status[call[c].action] # "missing"

\* A declared dependency is in the table, or still to be put there, or the
\* creation was cut short.
DeclaredKept ==
  \A a, d \in Actions : <<a, d>> \in declared =>
    \/ <<a, d>> \in deps
    \/ a \in cut
    \/ \E c \in Agents : call[c].op = "create" /\ call[c].action = a /\ d \in call[c].left

\* A call that is about to release or renew has a lease of its own agent, on
\* the action it is about.
HoldsRow ==
  \A c \in Agents : call[c].op \in {"release", "renew"} =>
    /\ call[c].row \in LeaseIds
    /\ leases[call[c].row].agent = c
    /\ leases[call[c].row].action = call[c].action
    /\ leases[call[c].row].status # "unused"

\* Declared dependencies are on older actions, so they are in no circle.
Ordered ==
  \A S \in (SUBSET Actions) \ {{}} : \E a \in S : \A d \in S : <<a, d>> \notin declared

\* A dependency in the table, or still to be put there, is on the action itself,
\* or was declared on an older one, or its action is entangled.
Explained ==
  /\ \A a, d \in Actions : <<a, d>> \in deps =>
       a = d \/ <<a, d>> \in declared \/ a \in entangled
  /\ \A c \in Agents : call[c].op = "create" => \A d \in call[c].left :
       \/ call[c].action = d
       \/ <<call[c].action, d>> \in declared
       \/ call[c].action \in entangled
       \/ status[d] = "missing"

\* A call about to take a lease, if it has met no other grant, is right that the
\* action is free; one about to renew is right that no other lease is in force
\* but those that overlap anyway.
Claiming ==
  /\ \A c \in Agents \ met : call[c].op = "acquire" => Active(call[c].action) = {}
  /\ \A c \in Agents \ met : call[c].op = "renew" =>
       \A m \in Active(call[c].action) :
         m = call[c].row \/ {m, call[c].row} \cap contested # {}

CoordinationInv ==
  /\ TypeOK /\ RowsExist /\ DeclaredKept /\ HoldsRow
  /\ Ordered /\ Explained
  /\ LeaseExclusive /\ Claiming

\* Type correctness is kept by every statement of every call.
LEMMA TypeStep == TypeOK /\ RowsExist /\ HoldsRow /\ [Next]_vars => TypeOK'
<1> SUFFICES ASSUME TypeOK, RowsExist, HoldsRow, [Next]_vars PROVE TypeOK'
  OBVIOUS
<1> USE CoordinationAssumption DEF history, TypeOK, Call, Lease, NoCall, NoLease
<1>0. ASSUME NEW a \in Actions, Insert(a) PROVE entangled' \subseteq Actions
  <2>1. Awaiting(a) \subseteq Actions
    BY DEF Awaiting, RowsExist
  <2> QED
    BY <1>0, <2>1 DEF Insert
<1>1. ASSUME NEW c \in Agents, NEW a \in Actions, NEW wanted \in SUBSET Actions,
             CreateAction(c, a, wanted)
      PROVE TypeOK'
  <2>1. status' \in [Actions -> GivenStatus \cup {"missing", "pending"}]
    BY <1>1 DEF CreateAction, Insert
  <2>2. call' \in [Agents -> Call] /\ handed' = None
    <3>1. handed' = None
      BY <1>1 DEF CreateAction, Begin
    <3>2. \/ call' = call
          \/ call' = [call EXCEPT ![c] = [op |-> "create", action |-> a, left |-> wanted, row |-> None]]
      BY <1>1 DEF CreateAction, Begin
    <3> QED  BY <3>1, <3>2
  <2>3. declared' \subseteq Actions \X Actions
    BY <1>1 DEF CreateAction
  <2>4. entangled' \subseteq Actions
    BY <1>0, <1>1 DEF CreateAction
  <2>5. UNCHANGED <<deps, leases, now, cut, met, contested>>
    BY <1>1 DEF CreateAction
  <2> QED
    BY <2>1, <2>2, <2>3, <2>4, <2>5
<1>2. ASSUME NEW c \in Agents, NEW d \in Actions, AddDependency(c, d) PROVE TypeOK'
  <2>1. call[c].action \in Actions
    BY <1>2 DEF AddDependency, RowsExist
  <2>2. deps' \subseteq Actions \X Actions /\ cut' \subseteq Actions
    BY <1>2, <2>1 DEF AddDependency
  <2>3. call' \in [Agents -> Call] /\ met' \subseteq Agents
    BY <1>2 DEF AddDependency, Advance, End
  <2> QED
    BY <1>2, <2>2, <2>3 DEF AddDependency
<1>3. ASSUME NEW c \in Agents, NEW steps \in SUBSET Actions, BeginRoutine(c, steps)
      PROVE TypeOK'
  BY <1>3 DEF BeginRoutine, Begin
<1>4. ASSUME NEW c \in Agents, NEW a \in Actions, InsertStep(c, a) PROVE TypeOK'
  <2>1. status' \in [Actions -> GivenStatus \cup {"missing", "pending"}]
    BY <1>4 DEF InsertStep, Insert
  <2>2. entangled' \subseteq Actions
    BY <1>0, <1>4 DEF InsertStep
  <2>3. call' \in [Agents -> Call] /\ met' \subseteq Agents
    BY <1>4 DEF InsertStep, Advance, End
  <2> QED
    BY <1>4, <2>1, <2>2, <2>3 DEF InsertStep
<1>5. ASSUME NEW c \in Agents, NEW a \in Actions, NEW s \in GivenStatus, UpdateAction(c, a, s)
      PROVE TypeOK'
  BY <1>5 DEF UpdateAction
<1>6. ASSUME NEW c \in Agents, NextAction(c) PROVE TypeOK'
  BY <1>6 DEF NextAction, Frontier
<1>7. ASSUME NEW c \in Agents, NEW a \in Actions, BeginAcquire(c, a) PROVE TypeOK'
  BY <1>7 DEF BeginAcquire, BeginLease, Begin
<1>8. ASSUME NEW c \in Agents, NEW l \in LeaseIds, NEW ttl \in 0..MaxTTL, EndAcquire(c, l, ttl)
      PROVE TypeOK'
  <2>1. now + ttl \in 0..(MaxTime + MaxTTL)
    OBVIOUS
  <2>2. leases' \in [LeaseIds -> Lease]
    BY <1>8, <2>1 DEF EndAcquire
  <2> QED
    BY <1>8, <2>2 DEF EndAcquire, Grant, End
<1>9. ASSUME NEW c \in Agents, NEW a \in Actions, BeginRelease(c, a) PROVE TypeOK'
  BY <1>9 DEF BeginRelease, CheckHolder, BeginLease, Active, Begin
<1>10. ASSUME NEW c \in Agents, EndRelease(c) PROVE TypeOK'
  <2>1. leases' \in [LeaseIds -> Lease]
    BY <1>10 DEF EndRelease, HoldsRow
  <2> QED
    BY <1>10, <2>1 DEF EndRelease, End
<1>11. ASSUME NEW c \in Agents, NEW a \in Actions, BeginRenew(c, a) PROVE TypeOK'
  BY <1>11 DEF BeginRenew, CheckHolder, BeginLease, Active, Begin
<1>12. ASSUME NEW c \in Agents, NEW ttl \in 0..MaxTTL, EndRenew(c, ttl) PROVE TypeOK'
  <2>1. now + ttl \in 0..(MaxTime + MaxTTL)
    OBVIOUS
  <2>2. leases' \in [LeaseIds -> Lease]
    BY <1>12, <2>1 DEF EndRenew, HoldsRow
  <2>3. call' \in [Agents -> Call] /\ met' \subseteq Agents /\ contested' \subseteq LeaseIds
    BY <1>12 DEF EndRenew, Grant, End, HoldsRow
  <2> QED
    BY <1>12, <2>2, <2>3 DEF EndRenew
<1>13. ASSUME NEW c \in Agents, Die(c) PROVE TypeOK'
  <2>1. call' \in [Agents -> Call]
    BY <1>13 DEF Die, End
  <2>2. cut' \subseteq Actions
    BY <1>13 DEF Die, RowsExist
  <2> QED
    BY <1>13, <2>1, <2>2 DEF Die
<1>14. CASE Tick
  BY <1>14 DEF Tick
<1>15. CASE UNCHANGED vars
  BY <1>15 DEF vars
<1> QED
  BY <1>1, <1>2, <1>3, <1>4, <1>5, <1>6, <1>7, <1>8, <1>9, <1>10, <1>11,
     <1>12, <1>13, <1>14, <1>15 DEF Next

\* Rows of actions are never deleted, so the dependencies and the calls in
\* flight keep naming actions that exist.
LEMMA RowsExistStep == TypeOK /\ RowsExist /\ [Next]_vars => RowsExist'
<1> SUFFICES ASSUME TypeOK, RowsExist, [Next]_vars PROVE RowsExist'
  OBVIOUS
<1> USE CoordinationAssumption DEF history, TypeOK, Call, NoCall, RowsExist
<1>1. ASSUME NEW c \in Agents, NEW a \in Actions, NEW wanted \in SUBSET Actions,
             CreateAction(c, a, wanted)
      PROVE RowsExist'
  <2>1. status' = [status EXCEPT ![a] = "pending"]
    BY <1>1 DEF CreateAction, Insert
  <2>2. \A x \in Actions : status[x] # "missing" => status'[x] # "missing"
    BY <2>1
  <2>3. \A x, y \in Actions : <<x, y>> \in deps' \cup declared' =>
          status'[x] # "missing" /\ status'[y] # "missing"
    BY <1>1, <2>1, <2>2 DEF CreateAction
  <2>4. CASE wanted = {}
    BY <1>1, <2>2, <2>3, <2>4 DEF CreateAction
  <2>5. CASE wanted # {}
    <3>1. call' = [call EXCEPT ![c] = [op |-> "create", action |-> a,
                                       left |-> wanted, row |-> None]]
      BY <1>1, <2>5 DEF CreateAction, Begin
    <3> QED
      BY <2>1, <2>2, <2>3, <3>1
  <2> QED
    BY <2>4, <2>5
<1>2. ASSUME NEW c \in Agents, NEW d \in Actions, AddDependency(c, d) PROVE RowsExist'
  BY <1>2 DEF AddDependency, Advance, End
<1>3. ASSUME NEW c \in Agents, NEW steps \in SUBSET Actions, BeginRoutine(c, steps)
      PROVE RowsExist'
  BY <1>3 DEF BeginRoutine, Begin
<1>4. ASSUME NEW c \in Agents, NEW a \in Actions, InsertStep(c, a) PROVE RowsExist'
  BY <1>4 DEF InsertStep, Insert, Advance, End
<1>5. ASSUME NEW c \in Agents, NEW a \in Actions, NEW s \in GivenStatus, UpdateAction(c, a, s)
      PROVE RowsExist'
  BY <1>5 DEF UpdateAction
<1>6. ASSUME NEW c \in Agents, NextAction(c) PROVE RowsExist'
  BY <1>6 DEF NextAction
<1>7. ASSUME NEW c \in Agents, NEW a \in Actions, BeginAcquire(c, a) PROVE RowsExist'
  BY <1>7 DEF BeginAcquire, BeginLease, Begin
<1>8. ASSUME NEW c \in Agents, NEW l \in LeaseIds, NEW ttl \in 0..MaxTTL, EndAcquire(c, l, ttl)
      PROVE RowsExist'
  BY <1>8 DEF EndAcquire, Grant, End
<1>9. ASSUME NEW c \in Agents, NEW a \in Actions, BeginRelease(c, a) PROVE RowsExist'
  BY <1>9 DEF BeginRelease, CheckHolder, BeginLease, Active, Begin
<1>10. ASSUME NEW c \in Agents, EndRelease(c) PROVE RowsExist'
  BY <1>10 DEF EndRelease, End
<1>11. ASSUME NEW c \in Agents, NEW a \in Actions, BeginRenew(c, a) PROVE RowsExist'
  BY <1>11 DEF BeginRenew, CheckHolder, BeginLease, Active, Begin
<1>12. ASSUME NEW c \in Agents, NEW ttl \in 0..MaxTTL, EndRenew(c, ttl) PROVE RowsExist'
  BY <1>12 DEF EndRenew, Grant, End
<1>13. ASSUME NEW c \in Agents, Die(c) PROVE RowsExist'
  BY <1>13 DEF Die, End
<1>14. CASE Tick
  BY <1>14 DEF Tick
<1>15. CASE UNCHANGED vars
  BY <1>15 DEF vars
<1> QED
  BY <1>1, <1>2, <1>3, <1>4, <1>5, <1>6, <1>7, <1>8, <1>9, <1>10, <1>11,
     <1>12, <1>13, <1>14, <1>15 DEF Next

\* A declared dependency reaches the table unless the creation is cut short:
\* the loop of the creation drops only what the foreign key refuses, and that
\* is no action that existed.
LEMMA DeclaredKeptStep ==
  TypeOK /\ RowsExist /\ DeclaredKept /\ [Next]_vars => DeclaredKept'
<1> SUFFICES ASSUME TypeOK, RowsExist, DeclaredKept, [Next]_vars PROVE DeclaredKept'
  OBVIOUS
<1> USE CoordinationAssumption DEF history, TypeOK, Call, NoCall
<1>0. ASSUME UNCHANGED <<deps, declared, cut>>,
             NEW c \in Agents, call[c].op # "create",
             \A x \in Agents \ {c} : call'[x] = call[x]
      PROVE DeclaredKept'
  BY <1>0 DEF DeclaredKept
<1>1. ASSUME NEW c \in Agents, NEW a \in Actions, NEW wanted \in SUBSET Actions,
             CreateAction(c, a, wanted)
      PROVE DeclaredKept'
  <2>1. \A x \in Agents : call[x].op = "create" => call'[x] = call[x]
    BY <1>1 DEF CreateAction, Begin, Idle
  <2>2. CASE wanted = {}
    <3>1. declared' = declared
      BY <1>1, <2>2 DEF CreateAction
    <3> QED
      BY <1>1, <2>1, <3>1 DEF CreateAction, DeclaredKept
  <2>3. CASE wanted # {}
    <3>1. call'[c].op = "create" /\ call'[c].action = a /\ call'[c].left = wanted
      BY <1>1, <2>3 DEF CreateAction, Begin
    <3> QED
      BY <1>1, <2>1, <3>1 DEF CreateAction, DeclaredKept
  <2> QED
    BY <2>2, <2>3
<1>2. ASSUME NEW c \in Agents, NEW d \in Actions, AddDependency(c, d) PROVE DeclaredKept'
  <2> SUFFICES ASSUME NEW a \in Actions, NEW b \in Actions, <<a, b>> \in declared
               PROVE \/ <<a, b>> \in deps'
                     \/ a \in cut'
                     \/ \E x \in Agents : /\ call'[x].op = "create"
                                          /\ call'[x].action = a
                                          /\ b \in call'[x].left
    BY <1>2 DEF AddDependency, DeclaredKept
  <2>1. deps \subseteq deps' /\ cut \subseteq cut'
    BY <1>2 DEF AddDependency
  <2>2. CASE \E x \in Agents : call[x].op = "create" /\ call[x].action = a /\ b \in call[x].left
    <3>1. PICK x \in Agents : call[x].op = "create" /\ call[x].action = a /\ b \in call[x].left
      BY <2>2
    <3>2. CASE x = c /\ b = d
      <4>1. status[d] # "missing"
        BY <3>2 DEF RowsExist
      <4> QED
        BY <1>2, <3>1, <3>2, <4>1 DEF AddDependency
    <3>3. CASE x = c /\ b # d
      <4>1. call'[c].op = "create" /\ call'[c].action = a /\ b \in call'[c].left
        BY <1>2, <3>1, <3>3 DEF AddDependency, Advance
      <4> QED
        BY <4>1
    <3>4. CASE x # c
      BY <1>2, <3>1, <3>4 DEF AddDependency, Advance, End
    <3> QED
      BY <3>2, <3>3, <3>4
  <2> QED
    BY <2>1, <2>2 DEF DeclaredKept
<1>3. ASSUME NEW c \in Agents, NEW steps \in SUBSET Actions, BeginRoutine(c, steps)
      PROVE DeclaredKept'
  BY <1>0, <1>3 DEF BeginRoutine, Begin, Idle
<1>4. ASSUME NEW c \in Agents, NEW a \in Actions, InsertStep(c, a) PROVE DeclaredKept'
  BY <1>0, <1>4 DEF InsertStep, Advance, End
<1>5. ASSUME NEW c \in Agents, NEW a \in Actions, NEW s \in GivenStatus, UpdateAction(c, a, s)
      PROVE DeclaredKept'
  BY <1>5 DEF UpdateAction, DeclaredKept
<1>6. ASSUME NEW c \in Agents, NextAction(c) PROVE DeclaredKept'
  BY <1>6 DEF NextAction, DeclaredKept
<1>7. ASSUME NEW c \in Agents, NEW a \in Actions, BeginAcquire(c, a) PROVE DeclaredKept'
  BY <1>0, <1>7 DEF BeginAcquire, BeginLease, Begin, Idle
<1>8. ASSUME NEW c \in Agents, NEW l \in LeaseIds, NEW ttl \in 0..MaxTTL, EndAcquire(c, l, ttl)
      PROVE DeclaredKept'
  BY <1>0, <1>8 DEF EndAcquire, Grant, End
<1>9. ASSUME NEW c \in Agents, NEW a \in Actions, BeginRelease(c, a) PROVE DeclaredKept'
  BY <1>0, <1>9 DEF BeginRelease, CheckHolder, BeginLease, Active, Begin, Idle
<1>10. ASSUME NEW c \in Agents, EndRelease(c) PROVE DeclaredKept'
  BY <1>0, <1>10 DEF EndRelease, End
<1>11. ASSUME NEW c \in Agents, NEW a \in Actions, BeginRenew(c, a) PROVE DeclaredKept'
  BY <1>0, <1>11 DEF BeginRenew, CheckHolder, BeginLease, Active, Begin, Idle
<1>12. ASSUME NEW c \in Agents, NEW ttl \in 0..MaxTTL, EndRenew(c, ttl) PROVE DeclaredKept'
  BY <1>0, <1>12 DEF EndRenew, Grant, End
<1>13. ASSUME NEW c \in Agents, Die(c) PROVE DeclaredKept'
  BY <1>13 DEF Die, End, DeclaredKept
<1>14. CASE Tick
  BY <1>14 DEF Tick, DeclaredKept
<1>15. CASE UNCHANGED vars
  BY <1>15 DEF vars, DeclaredKept
<1> QED
  BY <1>1, <1>2, <1>3, <1>4, <1>5, <1>6, <1>7, <1>8, <1>9, <1>10, <1>11,
     <1>12, <1>13, <1>14, <1>15 DEF Next

\* The agent and the action of a lease in use never change, so a lookup that
\* found the caller's own lease stays right however late it is used.
LEMMA HoldsRowStep == TypeOK /\ HoldsRow /\ [Next]_vars => HoldsRow'
<1> SUFFICES ASSUME TypeOK, HoldsRow, [Next]_vars PROVE HoldsRow'
  OBVIOUS
<1> USE CoordinationAssumption DEF history, TypeOK, Call, Lease, NoCall, HoldsRow
<1>1. ASSUME NEW c \in Agents, NEW a \in Actions, NEW wanted \in SUBSET Actions,
             CreateAction(c, a, wanted)
      PROVE HoldsRow'
  <2>1. leases' = leases /\ \A d \in Agents : d # c => call'[d] = call[d]
    BY <1>1 DEF CreateAction, Begin
  <2>2. call'[c] = call[c] \/ call'[c].op = "create"
    BY <1>1 DEF CreateAction, Begin
  <2> QED  BY <2>1, <2>2
<1>2. ASSUME NEW c \in Agents, NEW d \in Actions, AddDependency(c, d) PROVE HoldsRow'
  <2>1. /\ leases' = leases
        /\ \A x \in Agents : call'[x] = call[x] \/ call'[x].op \in {"idle", "create"}
    BY <1>2 DEF AddDependency, Advance, End
  <2> QED  BY <2>1
<1>3. ASSUME NEW c \in Agents, NEW steps \in SUBSET Actions, BeginRoutine(c, steps)
      PROVE HoldsRow'
  BY <1>3 DEF BeginRoutine, Begin, Idle
<1>4. ASSUME NEW c \in Agents, NEW a \in Actions, InsertStep(c, a) PROVE HoldsRow'
  BY <1>4 DEF InsertStep, Advance, End
<1>5. ASSUME NEW c \in Agents, NEW a \in Actions, NEW s \in GivenStatus, UpdateAction(c, a, s)
      PROVE HoldsRow'
  BY <1>5 DEF UpdateAction
<1>6. ASSUME NEW c \in Agents, NextAction(c) PROVE HoldsRow'
  BY <1>6 DEF NextAction
<1>7. ASSUME NEW c \in Agents, NEW a \in Actions, BeginAcquire(c, a) PROVE HoldsRow'
  BY <1>7 DEF BeginAcquire, BeginLease, Begin, Idle
<1>8. ASSUME NEW c \in Agents, NEW l \in LeaseIds, NEW ttl \in 0..MaxTTL, EndAcquire(c, l, ttl)
      PROVE HoldsRow'
  BY <1>8 DEF EndAcquire, Grant, End
<1>9. ASSUME NEW c \in Agents, NEW a \in Actions, BeginRelease(c, a) PROVE HoldsRow'
  BY <1>9 DEF BeginRelease, CheckHolder, BeginLease, Active, Begin, Idle
<1>10. ASSUME NEW c \in Agents, EndRelease(c) PROVE HoldsRow'
  BY <1>10 DEF EndRelease, End
<1>11. ASSUME NEW c \in Agents, NEW a \in Actions, BeginRenew(c, a) PROVE HoldsRow'
  BY <1>11 DEF BeginRenew, CheckHolder, BeginLease, Active, Begin, Idle
<1>12. ASSUME NEW c \in Agents, NEW ttl \in 0..MaxTTL, EndRenew(c, ttl) PROVE HoldsRow'
  BY <1>12 DEF EndRenew, Grant, End
<1>13. ASSUME NEW c \in Agents, Die(c) PROVE HoldsRow'
  BY <1>13 DEF Die, End
<1>14. CASE Tick
  BY <1>14 DEF Tick
<1>15. CASE UNCHANGED vars
  BY <1>15 DEF vars
<1> QED
  BY <1>1, <1>2, <1>3, <1>4, <1>5, <1>6, <1>7, <1>8, <1>9, <1>10, <1>11,
     <1>12, <1>13, <1>14, <1>15 DEF Next

\* What a step does to the leases in use: only the two statements that end a
\* release or a renewal change one, and each changes the caller's own.
LEMMA TouchStep ==
  ASSUME TypeOK, HoldsRow, [Next]_vars, NEW l \in LeaseIds,
         leases[l].status # "unused", leases'[l] # leases[l]
  PROVE  /\ leases[l].status = "active"
         /\ leases'[l].agent = leases[l].agent /\ leases'[l].action = leases[l].action
         /\ \E c \in Agents : c = leases[l].agent /\ ~Idle(c) /\ call'[c] = NoCall
<1> USE DEF history, TypeOK, Lease, Call, HoldsRow, Idle, NoCall
<1>1. ASSUME NEW c \in Agents, NEW m \in LeaseIds, NEW ttl \in 0..MaxTTL, EndAcquire(c, m, ttl)
      PROVE FALSE
  BY <1>1 DEF EndAcquire
<1>2. ASSUME NEW c \in Agents, EndRelease(c)
      PROVE /\ leases[l].status = "active"
            /\ leases'[l].agent = leases[l].agent /\ leases'[l].action = leases[l].action
            /\ \E x \in Agents : x = leases[l].agent /\ ~Idle(x) /\ call'[x] = NoCall
  <2>1. l = call[c].row
    BY <1>2 DEF EndRelease
  <2>2. leases[l].status = "active"
    BY <1>2, <2>1 DEF EndRelease
  <2>3. leases[l].agent = c
    BY <1>2, <2>1 DEF EndRelease
  <2> QED
    BY <1>2, <2>1, <2>2, <2>3 DEF EndRelease, End
<1>3. ASSUME NEW c \in Agents, NEW ttl \in 0..MaxTTL, EndRenew(c, ttl)
      PROVE /\ leases[l].status = "active"
            /\ leases'[l].agent = leases[l].agent /\ leases'[l].action = leases[l].action
            /\ \E x \in Agents : x = leases[l].agent /\ ~Idle(x) /\ call'[x] = NoCall
  <2>1. /\ l = call[c].row /\ leases[l].status = "active"
        /\ leases' = [leases EXCEPT ![l].expires = now + ttl]
        /\ call' = [call EXCEPT ![c] = NoCall]
    BY <1>3 DEF EndRenew, Grant
  <2>2. leases[l].agent = c /\ call[c].op = "renew"
    BY <1>3, <2>1 DEF EndRenew
  <2> QED
    BY <2>1, <2>2
<1>4. CASE UNCHANGED leases
  BY <1>4
<1> QED
  BY <1>1, <1>2, <1>3, <1>4
  DEF Next, CreateAction, AddDependency, BeginRoutine, InsertStep, UpdateAction, NextAction,
      BeginAcquire, BeginRelease, BeginRenew, CheckHolder, BeginLease, Die, Tick, vars

\* A new action is not yet declared upon, so declared dependencies stay in no
\* circle; and whatever an action waits for besides them was created while its
\* own creation was in flight, which entangled it.
LEMMA DependencyStep ==
  TypeOK /\ RowsExist /\ Ordered /\ Explained /\ [Next]_vars => Ordered' /\ Explained'
<1> SUFFICES ASSUME TypeOK, RowsExist, Ordered, Explained, [Next]_vars
             PROVE Ordered' /\ Explained'
  OBVIOUS
<1> USE DEF TypeOK, Call, NoCall
<1>0. ASSUME NEW a \in Actions, Insert(a) PROVE
        /\ entangled \subseteq entangled'
        /\ \A c \in Agents : call[c].op = "create" => \A d \in call[c].left :
             \/ call[c].action = d
             \/ <<call[c].action, d>> \in declared
             \/ call[c].action \in entangled'
             \/ status'[d] = "missing"
  BY <1>0 DEF Insert, Awaiting, Explained
<1>1. ASSUME NEW c \in Agents, NEW a \in Actions, NEW wanted \in SUBSET Actions,
             CreateAction(c, a, wanted)
      PROVE Ordered' /\ Explained'
  <2>1. /\ status[a] = "missing" /\ Insert(a) /\ UNCHANGED deps
        /\ declared' = declared \cup {<<a, d>> : d \in {x \in wanted : status[x] # "missing"}}
    BY <1>1 DEF CreateAction
  <2>2. \A x \in Actions : <<x, a>> \notin declared'
    BY <2>1 DEF RowsExist
  <2>3. ASSUME NEW S \in (SUBSET Actions) \ {{}}
        PROVE \E x \in S : \A d \in S : <<x, d>> \notin declared'
    <3>1. CASE S \subseteq {a}
      BY <2>2, <3>1
    <3>2. CASE ~(S \subseteq {a})
      <4>1. PICK x \in S \ {a} : \A d \in S \ {a} : <<x, d>> \notin declared
        BY <3>2 DEF Ordered
      <4> QED
        BY <2>1, <2>2, <4>1
    <3> QED
      BY <3>1, <3>2
  <2>4. status' = [status EXCEPT ![a] = "pending"]
    BY <2>1 DEF Insert
  <2>5. \A d \in wanted : d = a \/ <<a, d>> \in declared' \/ status'[d] = "missing"
    BY <2>1, <2>4
  <2>6. ASSUME NEW x \in Agents, call'[x].op = "create"
        PROVE  \/ call'[x] = call[x]
               \/ call'[x].action = a /\ call'[x].left = wanted
    BY <1>1, <2>6 DEF CreateAction, Begin
  <2>7. Explained'
    <3>1. \A x, d \in Actions : <<x, d>> \in deps' =>
            x = d \/ <<x, d>> \in declared' \/ x \in entangled'
      BY <1>0, <2>1 DEF Explained
    <3>2. ASSUME NEW x \in Agents, call'[x].op = "create", NEW d \in call'[x].left
          PROVE  \/ call'[x].action = d
                 \/ <<call'[x].action, d>> \in declared'
                 \/ call'[x].action \in entangled'
                 \/ status'[d] = "missing"
      <4>1. CASE call'[x] = call[x]
        BY <1>0, <2>1, <3>2, <4>1
      <4>2. CASE call'[x].action = a /\ call'[x].left = wanted
        BY <2>5, <3>2, <4>2
      <4> QED
        BY <2>6, <3>2, <4>1, <4>2
    <3> QED
      BY <3>1, <3>2 DEF Explained
  <2> QED
    BY <2>3, <2>7 DEF Ordered
<1>2. ASSUME NEW c \in Agents, NEW d \in Actions, AddDependency(c, d)
      PROVE Ordered' /\ Explained'
  <2>1. /\ call[c].op = "create" /\ d \in call[c].left
        /\ \/ deps' = deps
           \/ status[d] # "missing" /\ deps' = deps \cup {<<call[c].action, d>>}
        /\ UNCHANGED <<status, declared, entangled>>
    BY <1>2 DEF AddDependency
  <2>2. \A x \in Agents : call'[x].op = "create" =>
          call'[x].action = call[x].action /\ call'[x].left \subseteq call[x].left
                                           /\ call[x].op = "create"
    BY <1>2 DEF AddDependency, Advance, End
  <2> QED
    BY <2>1, <2>2 DEF Ordered, Explained
<1>3. ASSUME NEW c \in Agents, NEW a \in Actions, InsertStep(c, a)
      PROVE Ordered' /\ Explained'
  <2>1. UNCHANGED <<deps, declared>> /\ (Insert(a) \/ UNCHANGED <<status, entangled>>)
    BY <1>3 DEF InsertStep
  <2>2. \A x \in Agents : call'[x].op = "create" => call'[x] = call[x]
    BY <1>3 DEF InsertStep, Advance, End
  <2>3. CASE Insert(a)
    BY <1>0, <2>1, <2>2, <2>3 DEF Ordered, Explained
  <2>4. CASE UNCHANGED <<status, entangled>>
    BY <2>1, <2>2, <2>4 DEF Ordered, Explained
  <2> QED
    BY <2>1, <2>3, <2>4
<1>4. ASSUME UNCHANGED <<deps, declared, entangled>>,
             \A d \in Actions : status[d] = "missing" => status'[d] = "missing",
             \A c \in Agents : call'[c].op = "create" => call'[c] = call[c]
      PROVE Ordered' /\ Explained'
  <2>1. \A c \in Agents : call[c].left \subseteq Actions
    OBVIOUS
  <2> QED
    BY <1>4, <2>1 DEF Ordered, Explained
<1>5. ASSUME NEW c \in Agents, NEW steps \in SUBSET Actions, BeginRoutine(c, steps)
      PROVE Ordered' /\ Explained'
  BY <1>4, <1>5 DEF BeginRoutine, Begin, history
<1>6. ASSUME NEW c \in Agents, NEW a \in Actions, NEW s \in GivenStatus, UpdateAction(c, a, s)
      PROVE Ordered' /\ Explained'
  BY CoordinationAssumption, <1>4, <1>6 DEF UpdateAction, history
<1>7. ASSUME NEW c \in Agents, NEW a \in Actions,
             BeginAcquire(c, a) \/ BeginRelease(c, a) \/ BeginRenew(c, a)
      PROVE Ordered' /\ Explained'
  BY <1>4, <1>7 DEF BeginAcquire, BeginRelease, BeginRenew, CheckHolder, BeginLease, Begin, history
<1>8. ASSUME NEW c \in Agents, NEW l, End(c) \/ Grant(c, l), UNCHANGED <<status, deps, declared, entangled>>
      PROVE Ordered' /\ Explained'
  BY <1>4, <1>8 DEF End, Grant
<1>9. CASE UNCHANGED <<status, deps, call, history>>
  BY <1>4, <1>9 DEF history
<1> QED
  BY <1>1, <1>2, <1>3, <1>5, <1>6, <1>7, <1>8, <1>9
  DEF Next, NextAction, EndAcquire, EndRelease, EndRenew, Die, Tick, vars

\* Time only takes leases out of force.
LEMMA ActiveShrinks ==
  ASSUME TypeOK, now' \in Nat, now' >= now, UNCHANGED leases, NEW a
  PROVE  Active(a)' \subseteq Active(a)
BY DEF TypeOK, Lease, Active

\* What a grant does: it reaches the leases of one action, whoever has looked
\* these up has met it, and it is contested if its own call has met another.
LEMMA GrantStep ==
  ASSUME TypeOK, HoldsRow, LeaseExclusive, Claiming, UNCHANGED now,
         NEW c \in Agents, NEW l \in LeaseIds, Grant(c, l),
         \A m \in LeaseIds \ {l} : leases'[m] = leases[m],
         leases'[l].action = call[c].action,
         \A x : l \in Active(x) => x = call[c].action,
         c \notin met => \A m \in Active(call[c].action) :
                          m = l \/ {m, l} \cap contested # {}
  PROVE  LeaseExclusive' /\ Claiming'
<1> DEFINE a == call[c].action
<1>1. \A x : \A m \in Active(x)' : m # l => m \in Active(x)
  BY DEF Active
<1>2. \A x : x # a => Active(x)' \subseteq Active(x)
  <2>1. \A x : l \in Active(x)' => x = a
    BY DEF Active
  <2> QED
    BY <1>1, <2>1
<1>3. contested \subseteq contested' /\ (c \in met => l \in contested')
  BY DEF Grant
<1>4. ASSUME NEW x \in Actions, NEW m \in Active(x)', NEW n \in Active(x)', m # n
      PROVE  {m, n} \cap contested' # {}
  <2>1. CASE m # l /\ n # l
    BY <1>1, <1>3, <1>4, <2>1 DEF LeaseExclusive
  <2>2. CASE x # a
    BY <1>2, <1>3, <1>4, <2>2 DEF LeaseExclusive
  <2>3. CASE x = a /\ (m = l \/ n = l)
    BY <1>1, <1>3, <1>4, <2>3
  <2> QED
    BY <2>1, <2>2, <2>3
<1>5. ASSUME NEW d \in Agents \ met', call'[d].op \in {"acquire", "renew"}
      PROVE  call'[d] = call[d] /\ d \notin met /\ call[d].action # a
  BY <1>5 DEF Grant, NoCall, TypeOK
<1>6. ASSUME NEW d \in Agents \ met', call'[d].op = "acquire"
      PROVE  (Active(call[d].action) = {})'
  BY <1>2, <1>5, <1>6 DEF Claiming
<1>7. ASSUME NEW d \in Agents \ met', call'[d].op = "renew"
      PROVE  (\A m \in Active(call[d].action) :
                m = call[d].row \/ {m, call[d].row} \cap contested # {})'
  BY <1>2, <1>3, <1>5, <1>7 DEF Claiming
<1> QED
  BY <1>4, <1>6, <1>7 DEF LeaseExclusive, Claiming

\* What a call of tool_lease looked up still holds when it acts on it, unless it
\* has met a grant; so leases that overlap are contested.
LEMMA LeaseStep ==
  TypeOK /\ HoldsRow /\ LeaseExclusive /\ Claiming /\ [Next]_vars
  => LeaseExclusive' /\ Claiming'
<1> SUFFICES ASSUME TypeOK, HoldsRow, LeaseExclusive, Claiming, [Next]_vars
             PROVE LeaseExclusive' /\ Claiming'
  OBVIOUS
<1> USE DEF Call, NoCall
\* A step that brings no lease into force and starts no claim.
<1>1. ASSUME \A a : Active(a)' \subseteq Active(a),
             UNCHANGED contested,
             \A c \in Agents : call'[c].op \in {"acquire", "renew"} =>
               call'[c] = call[c] /\ (c \in met => c \in met')
      PROVE LeaseExclusive' /\ Claiming'
  BY <1>1 DEF LeaseExclusive, Claiming
<1>2. now \in Nat /\ now + 1 \in Nat /\ now + 1 >= now /\ now >= now
  BY CoordinationAssumption DEF TypeOK
<1>3. ASSUME UNCHANGED leases, now' \in {now, now + 1} PROVE \A a : Active(a)' \subseteq Active(a)
  BY <1>2, <1>3, ActiveShrinks
<1>4. ASSUME UNCHANGED <<leases, contested>>, now' \in {now, now + 1},
             \A c \in Agents : call'[c].op \in {"acquire", "renew"} =>
               call'[c] = call[c] /\ (c \in met => c \in met')
      PROVE LeaseExclusive' /\ Claiming'
  BY <1>1, <1>3, <1>4
<1>5. ASSUME NEW c \in Agents, NEW a \in Actions,
             BeginAcquire(c, a) \/ BeginRelease(c, a) \/ BeginRenew(c, a)
      PROVE LeaseExclusive' /\ Claiming'
  <2>1. UNCHANGED <<leases, now, met, contested>> /\ \A x : Active(x)' = Active(x)
    BY <1>5 DEF BeginAcquire, BeginRelease, BeginRenew, CheckHolder, BeginLease, history, Active
  <2>2. \A x \in Agents \ {c} : call'[x] = call[x]
    BY <1>5 DEF BeginAcquire, BeginRelease, BeginRenew, CheckHolder, BeginLease, Begin, TypeOK
  <2>3. call'[c].op = "acquire" => call'[c].action = a /\ Active(a) = {}
    BY <1>5 DEF BeginAcquire, BeginRelease, BeginRenew, CheckHolder, BeginLease, Begin, TypeOK
  <2>4. call'[c].op = "renew" => call'[c].action = a /\ call'[c].row \in Active(a)
    BY <1>5 DEF BeginAcquire, BeginRelease, BeginRenew, CheckHolder, BeginLease, Begin, TypeOK
  <2>5. LeaseExclusive'
    BY <2>1 DEF LeaseExclusive
  <2>6. Claiming'
    BY <1>5, <2>1, <2>2, <2>3, <2>4 DEF Claiming, LeaseExclusive
  <2> QED
    BY <2>5, <2>6
<1>6. ASSUME NEW c \in Agents, End(c), UNCHANGED <<leases, now, contested>>
      PROVE LeaseExclusive' /\ Claiming'
  BY <1>4, <1>6 DEF End, TypeOK
<1>7. ASSUME NEW c \in Agents, NEW l \in LeaseIds, NEW ttl \in 0..MaxTTL, EndAcquire(c, l, ttl)
      PROVE LeaseExclusive' /\ Claiming'
  <2>1. CASE UNCHANGED <<leases, contested>> /\ End(c)
    BY <1>6, <1>7, <2>1 DEF EndAcquire
  <2>2. CASE /\ leases' = [leases EXCEPT ![l] = [action |-> call[c].action, agent |-> c,
                                                status |-> "active", expires |-> now + ttl]]
             /\ Grant(c, l)
    <3>1. UNCHANGED now /\ call[c].op = "acquire" /\ leases[l].status = "unused"
      BY <1>7 DEF EndAcquire
    <3>2. \A x : l \notin Active(x)
      BY <3>1 DEF Active
    <3>3. leases'[l].action = call[c].action /\ \A m \in LeaseIds \ {l} : leases'[m] = leases[m]
      BY <2>2 DEF TypeOK
    <3>4. c \notin met => Active(call[c].action) = {}
      BY <3>1 DEF Claiming
    <3> QED
      BY <2>2, <3>1, <3>2, <3>3, <3>4, GrantStep
  <2> QED
    BY <1>7, <2>1, <2>2 DEF EndAcquire
<1>8. ASSUME NEW c \in Agents, EndRelease(c) PROVE LeaseExclusive' /\ Claiming'
  <2>1. \A x : Active(x)' \subseteq Active(x)
    BY <1>8 DEF EndRelease, HoldsRow, Active, Lease, TypeOK
  <2> QED
    BY <1>1, <1>8, <2>1 DEF EndRelease, End, TypeOK
<1>9. ASSUME NEW c \in Agents, NEW ttl \in 0..MaxTTL, EndRenew(c, ttl)
      PROVE LeaseExclusive' /\ Claiming'
  <2> DEFINE r == call[c].row
  <2>1. CASE UNCHANGED <<leases, contested>> /\ End(c)
    BY <1>6, <1>9, <2>1 DEF EndRenew
  <2>2. CASE leases' = [leases EXCEPT ![r].expires = now + ttl] /\ Grant(c, r)
    <3>1. UNCHANGED now /\ call[c].op = "renew"
      BY <1>9 DEF EndRenew
    <3>2. r \in LeaseIds /\ leases[r].action = call[c].action
      BY <3>1 DEF HoldsRow
    <3>3. leases'[r].action = call[c].action /\ \A m \in LeaseIds \ {r} : leases'[m] = leases[m]
      BY <2>2, <3>2 DEF TypeOK, Lease
    <3>4. \A x : r \in Active(x) => x = call[c].action
      BY <3>2 DEF Active
    <3>5. c \notin met => \A m \in Active(call[c].action) : m = r \/ {m, r} \cap contested # {}
      BY <3>1 DEF Claiming
    <3> QED
      BY <2>2, <3>1, <3>2, <3>3, <3>4, <3>5, GrantStep
  <2> QED
    BY <1>9, <2>1, <2>2 DEF EndRenew
<1>10. CASE Tick \/ UNCHANGED vars
  BY <1>4, <1>10 DEF Tick, vars, history
<1>11. ASSUME NEW c \in Agents, NEW a \in Actions, NEW wanted \in SUBSET Actions,
              CreateAction(c, a, wanted)
       PROVE LeaseExclusive' /\ Claiming'
  BY <1>4, <1>11 DEF CreateAction, Begin, TypeOK
<1>12. ASSUME NEW c \in Agents, NEW a \in Actions, AddDependency(c, a) \/ InsertStep(c, a)
       PROVE LeaseExclusive' /\ Claiming'
  <2>1. UNCHANGED <<leases, now, contested>>
    BY <1>12 DEF AddDependency, InsertStep
  <2>2. \A x \in Agents : call'[x].op \in {"acquire", "renew"} =>
          call'[x] = call[x] /\ (x \in met => x \in met')
    BY <1>12 DEF AddDependency, InsertStep, Advance, End, TypeOK
  <2> QED
    BY <1>4, <2>1, <2>2
<1>13. ASSUME NEW c \in Agents, NEW steps \in SUBSET Actions, BeginRoutine(c, steps)
       PROVE LeaseExclusive' /\ Claiming'
  BY <1>4, <1>13 DEF BeginRoutine, Begin, history, TypeOK
<1>14. ASSUME NEW c \in Agents, Die(c) PROVE LeaseExclusive' /\ Claiming'
  BY <1>6, <1>14 DEF Die
<1>15. ASSUME NEW c \in Agents,
              \/ NextAction(c)
              \/ \E a \in Actions, s \in GivenStatus : UpdateAction(c, a, s)
       PROVE LeaseExclusive' /\ Claiming'
  BY <1>4, <1>15 DEF NextAction, UpdateAction, history
<1> QED
  BY <1>5, <1>7, <1>8, <1>9, <1>10, <1>11, <1>12, <1>13, <1>14, <1>15 DEF Next

\* The inductive invariant holds however calls interleave.
LEMMA Invariance == Spec => []CoordinationInv
<1>1. Init => CoordinationInv
  <2> SUFFICES ASSUME Init PROVE CoordinationInv
    OBVIOUS
  <2> USE CoordinationAssumption DEF Init, NoCall, NoLease
  <2>1. TypeOK
    BY DEF TypeOK, Call, Lease
  <2>2. RowsExist /\ DeclaredKept /\ HoldsRow
    BY DEF RowsExist, DeclaredKept, HoldsRow
  <2>3. Ordered /\ Explained
    BY DEF Ordered, Explained
  <2>4. LeaseExclusive /\ Claiming
    BY DEF Claiming, LeaseExclusive, Active
  <2> QED
    BY <2>1, <2>2, <2>3, <2>4 DEF CoordinationInv
<1>2. CoordinationInv /\ [Next]_vars => CoordinationInv'
  BY TypeStep, RowsExistStep, DeclaredKeptStep, HoldsRowStep, DependencyStep, LeaseStep
     DEF CoordinationInv
<1> QED
  BY <1>1, <1>2, PTL DEF Spec

\* Every variable keeps the shape of the tables and of the calls in flight.
THEOREM TypeCorrectness == Spec => []TypeOK
<1>1. CoordinationInv => TypeOK
  BY DEF CoordinationInv
<1> QED
  BY <1>1, Invariance, PTL

\* However calls interleave, two leases on one action are in force together only
\* if one of them was granted by a call that had met the grant of another
\* (tool_lease, mcp_server.rs:3700).
THEOREM LeaseExclusiveAlways == Spec => []LeaseExclusive
<1>1. CoordinationInv => LeaseExclusive
  BY DEF CoordinationInv
<1> QED
  BY <1>1, Invariance, PTL

\* However calls interleave, actions wait for one another in a circle only if one
\* of them was declared to depend on an action that was created while its own
\* creation was in flight (tool_action_create, mcp_server.rs:3567).
THEOREM NoStandstillAlways == Spec => []NoStandstill
<1>1. CoordinationInv => NoStandstill
  <2> SUFFICES ASSUME CoordinationInv, NEW S \in (SUBSET (Actions \ entangled)) \ {{}}
               PROVE \E a \in S : \A d \in S \ {a} : <<a, d>> \notin deps
    BY DEF NoStandstill
  <2>1. PICK a \in S : \A d \in S : <<a, d>> \notin declared
    BY DEF CoordinationInv, Ordered
  <2>2. \A d \in S \ {a} : <<a, d>> \notin deps
    BY <2>1 DEF CoordinationInv, Explained
  <2> QED
    BY <2>2
<1> QED
  BY <1>1, Invariance, PTL

\* However calls interleave, a lease in use is touched by its holder alone
\* (tool_lease, mcp_server.rs:3742 and 3764).
THEOREM OnlyHolderTouchesLeaseAlways == Spec => OnlyHolderTouchesLease
<1> DEFINE Touch ==
      \A l \in LeaseIds :
        leases[l].status # "unused" /\ leases'[l] # leases[l] =>
          /\ leases[l].status = "active"
          /\ leases'[l].agent = leases[l].agent /\ leases'[l].action = leases[l].action
          /\ \E c \in Agents : c = leases[l].agent /\ ~Idle(c) /\ call'[c] = NoCall
<1>1. CoordinationInv /\ [Next]_vars => [Touch]_vars
  BY TouchStep DEF CoordinationInv
<1> QED
  BY <1>1, Invariance, PTL DEF Spec, OnlyHolderTouchesLease

\* However calls interleave, what tool_next hands out is ready if its creation has
\* come to its end and lost nothing (tool_next, mcp_server.rs:3661).
THEOREM HandedIsReadyAlways == Spec => HandedIsReady
<1> DEFINE Ready ==
      handed = None /\ handed' # None =>
        \/ handed' \in cut
        \/ \E c \in Agents : call[c].op = "create" /\ call[c].action = handed'
        \/ \A d \in Actions : <<handed', d>> \in declared =>
             status[d] \in {"done", "cancelled"}
<1>1. CoordinationInv /\ [Next]_vars => [Ready]_vars
  <2> SUFFICES ASSUME CoordinationInv, [Next]_vars PROVE Ready
    OBVIOUS
  <2>1. ASSUME NEW c \in Agents, NextAction(c) PROVE Ready
    BY <2>1 DEF NextAction, CoordinationInv, DeclaredKept, Frontier
  <2> DEFINE Same == handed' = handed \/ handed' = None
  <2>2. Same => Ready
    OBVIOUS
  <2>3. ASSUME NEW c \in Agents, NEW a \in Actions, NEW wanted \in SUBSET Actions,
               CreateAction(c, a, wanted)
        PROVE  Same
    BY <2>3 DEF CreateAction, Begin
  <2>4. ASSUME NEW c \in Agents, NEW a \in Actions,
               \/ AddDependency(c, a) \/ InsertStep(c, a)
               \/ \E s \in GivenStatus : UpdateAction(c, a, s)
        PROVE  Same
    BY <2>4 DEF AddDependency, InsertStep, UpdateAction
  <2>5. ASSUME NEW c \in Agents, NEW a \in Actions,
               BeginAcquire(c, a) \/ BeginRelease(c, a) \/ BeginRenew(c, a)
        PROVE  Same
    BY <2>5 DEF BeginAcquire, BeginRelease, BeginRenew, CheckHolder, BeginLease, Begin
  <2>6. ASSUME NEW c \in Agents,
               \/ \E steps \in SUBSET Actions : BeginRoutine(c, steps)
               \/ \E l \in LeaseIds, ttl \in 0..MaxTTL : EndAcquire(c, l, ttl)
               \/ EndRelease(c)
               \/ \E ttl \in 0..MaxTTL : EndRenew(c, ttl)
               \/ Die(c)
        PROVE  Same
    BY <2>6 DEF BeginRoutine, Begin, EndAcquire, EndRelease, EndRenew, Die
  <2>7. CASE Tick \/ UNCHANGED vars
    BY <2>7 DEF Tick, vars
  <2> HIDE DEF Same, Ready
  <2> QED
    BY <2>1, <2>2, <2>3, <2>4, <2>5, <2>6, <2>7 DEF Next
<1> QED
  BY <1>1, Invariance, PTL DEF Spec, HandedIsReady
=============================================================================
