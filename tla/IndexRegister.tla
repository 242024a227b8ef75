--------------------------- MODULE IndexRegister ----------------------------
(***************************************************************************)
(* What the sharded vector index promises to those who load it: a register *)
(* that flushes replace.  Replacing it is not atomic: from the moment a    *)
(* flush begins to publish until it is done the register is unreadable,    *)
(* and it stays so when the flush is cut short, or when it has published   *)
(* an index of another dimension.  Two flushes that have both begun before *)
(* one has published may get hold of the same place, and then a load can   *)
(* return anything until a later flush publishes.  Otherwise a load, which *)
(* takes its time, returns a value the register had meanwhile.             *)
(***************************************************************************)
EXTENDS Integers

CONSTANTS
  Loaders,
  Versions,  \* positive numbers, later ones for later flushes
  Readable   \* those of the dimension that loads expect

VARIABLES
  value,    \* what a load would return
  current,  \* the last version that has been the value
  seen,     \* per loader: values since its load began, {} between loads
  got       \* per loader: what its last load returned

vars == <<value, current, seen, got>>

Nothing    == 0   \* no index has been flushed
Unreadable == -1  \* a load ends in an error
Garbage    == -2  \* bytes that are no version of the index
Mixed      == -3  \* two flushes have made one place theirs

Results == Versions \cup {Nothing, Unreadable, Garbage}

Init ==
  /\ value = Nothing
  /\ current = Nothing
  /\ seen = [r \in Loaders |-> {}]
  /\ got = [r \in Loaders |-> Nothing]

Assign(v) ==
  /\ value' = v
  /\ seen' = [r \in Loaders |-> IF seen[r] = {} THEN {} ELSE seen[r] \cup {v}]

Spoil == Assign(Unreadable) /\ UNCHANGED <<current, got>>
Clash == Assign(Mixed) /\ UNCHANGED <<current, got>>

\* Versions are published in the order in which their flushes began.
Publish(v) ==
  /\ value = Unreadable
  /\ v > current
  /\ Assign(v)
  /\ current' = v
  /\ UNCHANGED got

\* A flush that is done after a later one has begun to publish replaces nothing,
\* but a load that has found it unreadable may still return it.
ComeLate(v) ==
  /\ \E late \in SUBSET {r \in Loaders : Unreadable \in seen[r]} :
       seen' = [r \in Loaders |-> IF r \in late THEN seen[r] \cup {v} ELSE seen[r]]
  /\ UNCHANGED <<value, current, got>>

BeginLoad(r) ==
  /\ seen[r] = {}
  /\ seen' = [seen EXCEPT ![r] = {value}]
  /\ UNCHANGED <<value, current, got>>

EndLoad(r) ==
  /\ \E v \in IF Mixed \in seen[r] THEN Results ELSE seen[r] : got' = [got EXCEPT ![r] = v]
  /\ seen' = [seen EXCEPT ![r] = {}]
  /\ UNCHANGED <<value, current>>

Next ==
  \/ Spoil
  \/ Clash
  \/ \E v \in Readable : Publish(v) \/ ComeLate(v)
  \/ \E r \in Loaders : BeginLoad(r) \/ EndLoad(r)

Spec == Init /\ [][Next]_vars
=============================================================================
