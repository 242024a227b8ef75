---------------------------- MODULE RepairProofs ----------------------------
(***************************************************************************)
(* Repair keeps the drawers, and what is not a drawer up to a success:     *)
(* proofs for every set of drawers, with and without users who open the    *)
(* palace and store drawers while a repair is running.                     *)
(***************************************************************************)
EXTENDS Repair, TLAPS

\* The directory p serves every drawer that has been stored.
Holds(p) == stored \subseteq Served(dir[p])

\* The steps at which the palace has not been touched, and at which the new one
\* waits in the staging directory.
Before == {"idle", "clear", "copy", "count", "stage", "fill", "unset", "demote"}
Ready  == {"unset", "demote", "promote"}

\* Where the drawers are while nothing grave has happened.
DrawersKept ==
  /\ pc \in Before \cup {"discard", "done"} => Holds("palace")
  /\ pc \in Ready => Holds("staging")
  /\ pc = "promote" => Served(dir["palace"]) = {} /\ Holds("aside")
  /\ pc = "restore" => IF Served(dir["palace"]) = {} THEN Holds("aside") ELSE Holds("palace")
  /\ pc \in {"count", "stage", "fill", "unset", "demote", "promote", "restore"} =>
       (whole => Holds("backup"))
  /\ pc = "reinstate" => Holds("backup")

\* Where everything else is: what a step is about to remove is somewhere else too.
RestKept ==
  /\ ~dir["staging"].rest
  /\ pc = "copy" => ~dir["backup"].rest
  /\ pc = "count" \/ (pc = "done" /\ mode = "vector") => (dir["backup"].rest => dir["palace"].rest)
  /\ pc \in {"count", "stage", "fill", "unset", "demote", "restore"} =>
       (whole /\ dir["palace"].rest => dir["backup"].rest)
  /\ pc = "demote" => ~dir["aside"].rest
  /\ pc = "promote" => ~dir["palace"].rest /\ (whole /\ dir["aside"].rest => dir["backup"].rest)
  /\ pc \in {"count", "stage", "fill", "unset", "demote", "promote", "discard"} => mode # "vector"

\* A repair that was cut short has left the palace as it was at that moment, and
\* any that goes ahead afterwards is counted among the losses.
CutShort ==
  /\ pc = "idle"
  /\ \A d \in stored : \E p \in Places : d \in Served(dir[p])

RepairInv ==
  /\ TypeOK
  /\ risk = "none" => DrawersKept
  /\ risk = "cut" => CutShort

-----------------------------------------------------------------------------
(***************************************************************************)
(* Contents.                                                               *)
(***************************************************************************)

LEMMA MissingType == /\ Missing \in Content /\ Sound(Missing) /\ Served(Missing) = {}
                     /\ EmptyDir \in Content /\ Sound(EmptyDir) /\ Served(EmptyDir) = {}
                     /\ ~Missing.there /\ EmptyDir.there
                     /\ Missing.rest = FALSE /\ EmptyDir.rest = FALSE
  BY DEF Missing, EmptyDir, Content, Sound, Served

\* Opening a directory changes nothing of what it serves and keeps.
LEMMA OpenedType ==
  ASSUME NEW c \in Content, Sound(c)
  PROVE  /\ Opened(c) \in Content /\ Sound(Opened(c))
         /\ Served(Opened(c)) = Served(c)
         /\ Opened(c).there
         /\ Opened(c).rest = c.rest
<1>1. Served(c) \in SUBSET Drawers
  BY DEF Served, Content
<1>2. CASE c.there
  <2>1. Opened(c) = [c EXCEPT !.db = TRUE, !.table = Served(c)]
    BY <1>2 DEF Opened
  <2>2. Opened(c) \in Content
    BY <1>1, <2>1 DEF Content
  <2>3. /\ Opened(c).db /\ Opened(c).table = Served(c) /\ Opened(c).json = c.json
        /\ Opened(c).there /\ Opened(c).rest = c.rest
    BY <1>2, <2>1 DEF Content
  <2> QED  BY <2>2, <2>3 DEF Served, Sound
<1>3. CASE ~c.there
  <2>1. Opened(c) = EmptyDir
    BY <1>3 DEF Opened
  <2>2. c.rest = FALSE /\ Served(c) = {}
    BY <1>3 DEF Sound, Served, Content
  <2> QED  BY <2>1, <2>2, MissingType
<1> QED  BY <1>2, <1>3

LEMMA PiecesType ==
  ASSUME NEW c \in Content, NEW e \in Pieces(c)
  PROVE  e \in Content /\ Sound(e)
<1>1. PICK b \in {FALSE, c.db}, j \in {{}, c.json}, r \in {FALSE, c.rest} :
        e = [there |-> TRUE, db |-> b, table |-> IF b THEN c.table ELSE {}, json |-> j, rest |-> r]
  BY DEF Pieces
<1>2. b \in BOOLEAN /\ j \in SUBSET Drawers /\ r \in BOOLEAN /\ c.table \in SUBSET Drawers
  BY <1>1 DEF Content
<1> QED  BY <1>1, <1>2 DEF Content, Sound

LEMMA RemainsType ==
  ASSUME NEW c \in Content, Sound(c), NEW e \in Remains(c)
  PROVE  e \in Content /\ Sound(e)
BY PiecesType, MissingType DEF Remains

LEMMA PlacesAre ==
  /\ "palace" \in Places /\ "staging" \in Places /\ "aside" \in Places /\ "backup" \in Places
  BY DEF Places

\* What a crash leaves in the directory under way.
LEMMA LeftOverType ==
  ASSUME TypeOK, NEW c \in LeftOver
  PROVE  c \in Content /\ Sound(c) /\ Underway \in Places
<1> USE PlacesAre
<1>0. \A p \in Places : dir[p] \in Content /\ Sound(dir[p])
  BY DEF TypeOK
<1>1. Underway \in Places
  BY DEF Underway
<1>2. CASE c \in Pieces(dir["palace"]) \cup {Missing}
  BY <1>0, <1>1, <1>2, PiecesType, MissingType
<1>3. CASE \E t \in SUBSET Served(dir["palace"]) : c = [EmptyDir EXCEPT !.db = TRUE, !.table = t]
  <2>1. Served(dir["palace"]) \in SUBSET Drawers
    BY <1>0 DEF Served, Content
  <2> QED  BY <1>1, <1>3, <2>1 DEF EmptyDir, Missing, Content, Sound
<1>4. CASE \E p \in Places : c \in Remains(dir[p]) \/ c = dir[p]
  BY <1>0, <1>1, <1>4, RemainsType
<1> QED  BY <1>1, <1>2, <1>3, <1>4 DEF LeftOver

\* One directory is rewritten, the others stay.
LEMMA PutKeeps ==
  ASSUME TypeOK, NEW p \in Places, NEW c \in Content, Sound(c), Put(p, c)
  PROVE  /\ dir' \in [Places -> Content]
         /\ \A q \in Places : Sound(dir'[q])
         /\ dir'[p] = c
         /\ \A q \in Places : q # p => dir'[q] = dir[q]
BY DEF Put, TypeOK

-----------------------------------------------------------------------------
(***************************************************************************)
(* Types.                                                                  *)
(***************************************************************************)

\* The variables other than the directories.
Rest == /\ pc \in Steps \cup {"idle"} /\ mode \in {"index", "sqlite", "vector"}
        /\ whole \in BOOLEAN /\ stored \subseteq Drawers
        /\ risk \in {"none", "cut", "lossy"}

LEMMA TypeInit == Init => TypeOK
<1> SUFFICES ASSUME Init PROVE TypeOK
  OBVIOUS
<1>1. [EmptyDir EXCEPT !.rest = TRUE] \in Content /\ Sound([EmptyDir EXCEPT !.rest = TRUE])
  BY DEF EmptyDir, Missing, Content, Sound
<1> QED  BY <1>1, MissingType DEF Init, TypeOK, Steps

\* A step that rewrites one directory.
LEMMA OneDir ==
  ASSUME TypeOK, NEW p \in Places, NEW c \in Content, Sound(c), Put(p, c), Rest'
  PROVE  TypeOK'
BY PutKeeps DEF TypeOK, Rest

\* A step that rewrites two.
LEMMA TwoDirs ==
  ASSUME TypeOK, NEW p \in Places, NEW c \in Content, Sound(c),
         NEW q \in Places, NEW e \in Content, Sound(e), p # q,
         dir' = [dir EXCEPT ![p] = c, ![q] = e], Rest'
  PROVE  TypeOK'
<1>1. dir \in [Places -> Content]
  BY DEF TypeOK
<1>2. dir' \in [Places -> Content]
  BY <1>1
<1>3. /\ dir'[q] = e /\ dir'[p] = c
      /\ \A r \in Places : r # p /\ r # q => dir'[r] = dir[r]
  BY <1>1
<1>4. \A r \in Places : Sound(dir'[r])
  BY <1>3 DEF TypeOK
<1> QED  BY <1>2, <1>4 DEF TypeOK, Rest

LEMMA TypeStep == TypeOK /\ [Next]_vars => TypeOK'
<1> SUFFICES ASSUME TypeOK, [Next]_vars PROVE TypeOK'
  OBVIOUS
<1> USE PlacesAre, MissingType
<1>0. Rest /\ \A p \in Places : dir[p] \in Content /\ Sound(dir[p])
  BY DEF TypeOK, Rest
<1>1. ASSUME NEW d \in Drawers, Store(d) PROVE TypeOK'
  <2> DEFINE c == Opened(dir["palace"])
             e == [c EXCEPT !.table = IF c.db THEN @ \cup {d} ELSE @, !.json = c.table \cup {d}]
  <2>1. c \in Content /\ Sound(c) /\ c.there
    BY <1>0, OpenedType
  <2> HIDE DEF c
  <2>2. e \in Content /\ Sound(e)
    <3>1. e.table \in SUBSET Drawers /\ e.json \in SUBSET Drawers
      BY <2>1 DEF Content
    <3> QED  BY <2>1, <3>1 DEF Content, Sound
  <2>3. Put("palace", e)
    BY <1>1 DEF Store, c
  <2>4. Rest'
    BY <1>0, <1>1 DEF Store, Rest, Endanger
  <2> QED  BY <2>2, <2>3, <2>4, OneDir
<1>2. CASE BeginIndex \/ BeginVector
  <2>1. Put("palace", Opened(dir["palace"]))
    BY <1>2 DEF BeginIndex, BeginVector, BeginCounted
  <2>2. Rest'
    BY <1>0, <1>2 DEF BeginIndex, BeginVector, BeginCounted, Rest, RiskOfRepair, GoTo, Steps
  <2> QED  BY <1>0, <2>1, <2>2, OpenedType, OneDir
<1>3. CASE BeginSqlite
  BY <1>0, <1>3 DEF BeginSqlite, TypeOK, Rest, RiskOfRepair, GoTo, Steps
<1>4. CASE ClearBackup
  <2>1. Put("backup", Missing) /\ Rest'
    BY <1>0, <1>4 DEF ClearBackup, Rest, GoTo, Steps
  <2> QED  BY <2>1, OneDir
<1>5. CASE CopyBackup
  <2>1. Put("backup", dir["palace"]) /\ Rest'
    BY <1>0, <1>5 DEF CopyBackup, Rest, GoTo, AfterBackup, Steps
  <2> QED  BY <1>0, <2>1, OneDir
<1>6. CASE PartialBackup
  <2>1. PICK c \in Pieces(dir["palace"]) \cup {Missing} : Put("backup", c)
    BY <1>6 DEF PartialBackup
  <2>2. Rest'
    BY <1>0, <1>6 DEF PartialBackup, Rest, GoTo, AfterBackup, Steps
  <2>3. c \in Content /\ Sound(c)
    BY <1>0, <2>1, PiecesType
  <2> QED  BY <2>1, <2>2, <2>3, OneDir
<1>7. CASE Count
  <2> DEFINE e == IF Served(dir["palace"]) = {} THEN Missing ELSE dir["backup"]
  <2>1. dir' = [dir EXCEPT !["palace"] = Opened(dir["palace"]), !["backup"] = e] /\ Rest'
    <3>1. dir \in [Places -> Content]
      BY DEF TypeOK
    <3> QED  BY <1>0, <1>7, <3>1 DEF Count, Rest, GoTo, Steps
  <2>2. e \in Content /\ Sound(e)
    BY <1>0
  <2> QED  BY <1>0, <2>1, <2>2, OpenedType, TwoDirs
<1>8. CASE ClearStaging
  <2>1. Put("staging", EmptyDir) /\ Rest'
    BY <1>0, <1>8 DEF ClearStaging, Rest, GoTo, Steps
  <2> QED  BY <2>1, OneDir
<1>9. CASE Fill
  <2> DEFINE docs == Served(dir["palace"])
             e(rows) == [there |-> TRUE, db |-> TRUE, table |-> rows, json |-> docs, rest |-> FALSE]
  <2>1. PICK rows \in SUBSET docs :
          dir' = [dir EXCEPT !["palace"] = Opened(dir["palace"]), !["staging"] = e(rows)]
    BY <1>9 DEF Fill
  <2>2. Rest'
    BY <1>0, <1>9 DEF Fill, Rest, GoTo, Endanger, Steps
  <2>3. e(rows) \in Content /\ Sound(e(rows))
    <3>1. docs \in SUBSET Drawers
      BY <1>0 DEF Content, Served
    <3> QED  BY <2>1, <3>1 DEF Content, Sound
  <2> QED  BY <1>0, <2>1, <2>2, <2>3, OpenedType, TwoDirs
<1>10. CASE FailStaging
  <2>1. PICK c \in {Missing, EmptyDir} : Put("staging", c)
    BY <1>10 DEF FailStaging
  <2>2. Rest'
    BY <1>0, <1>10 DEF FailStaging, Rest, GoTo, Steps
  <2> QED  BY <2>1, <2>2, OneDir
<1>11. CASE ClearAside
  <2>1. Put("aside", Missing) /\ Rest'
    BY <1>0, <1>11 DEF ClearAside, Rest, GoTo, Steps
  <2> QED  BY <2>1, OneDir
<1>12. CASE Demote
  <2>1. dir' = [dir EXCEPT !["aside"] = dir["palace"], !["palace"] = Missing] /\ Rest'
    BY <1>0, <1>12 DEF Demote, Rest, GoTo, Steps
  <2> QED  BY <1>0, <2>1, TwoDirs
<1>13. CASE FailDemote
  <2>1. Put("staging", Missing) /\ Rest'
    BY <1>0, <1>13 DEF FailDemote, Rest, GoTo, Steps
  <2> QED  BY <2>1, OneDir
<1>14. CASE Promote
  <2>1. dir' = [dir EXCEPT !["palace"] = dir["staging"], !["staging"] = Missing] /\ Rest'
    BY <1>0, <1>14 DEF Promote, Rest, GoTo, Steps
  <2> QED  BY <1>0, <2>1, TwoDirs
<1>15. CASE FailPromote
  <2>1. Rest'
    BY <1>0, <1>15 DEF FailPromote, Rest, GoTo, Steps
  <2>2. CASE UNCHANGED dir
    BY <2>1, <2>2 DEF TypeOK, Rest
  <2>3. CASE dir' = [dir EXCEPT !["palace"] = dir["aside"], !["aside"] = Missing]
    BY <1>0, <2>1, <2>3, TwoDirs
  <2> QED  BY <1>15, <2>2, <2>3 DEF FailPromote
<1>16. CASE Discard
  <2>1. Put("aside", Missing) /\ Rest'
    BY <1>0, <1>16 DEF Discard, Rest, GoTo, Steps
  <2> QED  BY <2>1, OneDir
<1>17. CASE Succeed
  <2>1. Put("backup", Missing) /\ Rest'
    BY <1>0, <1>17 DEF Succeed, Rest, GoTo, Steps
  <2> QED  BY <2>1, OneDir
<1>18. CASE Restore
  <2>1. Rest'
    BY <1>0, <1>18 DEF Restore, Rest, GoTo, Endanger, Steps
  <2>2. CASE UNCHANGED dir
    BY <2>1, <2>2 DEF TypeOK, Rest
  <2>3. CASE \E c \in Remains(dir["palace"]) : Put("palace", c)
    BY <1>0, <2>1, <2>3, RemainsType, OneDir
  <2> QED  BY <1>18, <2>2, <2>3 DEF Restore
<1>19. CASE Reinstate
  <2>1. dir' = [dir EXCEPT !["palace"] = dir["backup"], !["backup"] = Missing] /\ Rest'
    BY <1>0, <1>19 DEF Reinstate, Rest, GoTo, Steps
  <2> QED  BY <1>0, <2>1, TwoDirs
<1>20. CASE FailReinstate
  BY <1>0, <1>20 DEF FailReinstate, TypeOK, Rest, GoTo, Endanger, Steps
<1>21. CASE Crash
  <2>1. PICK c \in LeftOver : Put(Underway, c)
    BY <1>21 DEF Crash
  <2>2. Rest'
    BY <1>0, <1>21 DEF Crash, Rest, GoTo, Endanger, Steps
  <2>3. c \in Content /\ Sound(c) /\ Underway \in Places
    BY <1>0, <2>1, LeftOverType
  <2> QED  BY <2>1, <2>2, <2>3, OneDir
<1>22. CASE Look
  <2>1. Put("palace", Opened(dir["palace"])) /\ Rest'
    BY <1>0, <1>22 DEF Look, Rest
  <2> QED  BY <1>0, <2>1, OpenedType, OneDir
<1>23. CASE OpenHalf
  <2> DEFINE c    == dir["palace"]
             e(t) == [c EXCEPT !.db = TRUE, !.table = t]
  <2>1. c.there /\ \E t \in SUBSET c.json : Put("palace", e(t))
    BY <1>23 DEF OpenHalf
  <2>2. PICK t \in SUBSET c.json : Put("palace", e(t))
    BY <2>1
  <2>3. Rest'
    BY <1>0, <1>23 DEF OpenHalf, Rest, Endanger
  <2>4. e(t) \in Content /\ Sound(e(t))
    BY <1>0, <2>1, <2>2 DEF Content, Sound
  <2> QED  BY <2>2, <2>3, <2>4, OneDir
<1>24. CASE UNCHANGED vars
  BY <1>24 DEF vars, TypeOK
<1> QED
  BY <1>1, <1>2, <1>3, <1>4, <1>5, <1>6, <1>7, <1>8, <1>9, <1>10, <1>11, <1>12, <1>13, <1>14,
     <1>15, <1>16, <1>17, <1>18, <1>19, <1>20, <1>21, <1>22, <1>23, <1>24 DEF Next

-----------------------------------------------------------------------------
(***************************************************************************)
(* The inductive invariant.                                                *)
(***************************************************************************)

\* What a step must re-establish besides the types.
Kept == /\ risk = "none" => DrawersKept
        /\ risk = "cut" => CutShort

LEMMA InitKept == Init => Kept
<1> SUFFICES ASSUME Init PROVE Kept
  OBVIOUS
<1>1. Holds("palace")
  BY DEF Init, Holds
<1> QED  BY <1>1 DEF Init, Kept, DrawersKept, Before, Ready

\* What adding a drawer makes of a directory, once it is opened.
WithDrawer(c, d) ==
  [Opened(c) EXCEPT !.table = IF Opened(c).db THEN @ \cup {d} ELSE @,
                    !.json = Opened(c).table \cup {d}]

LEMMA StoreServes ==
  ASSUME NEW c \in Content, Sound(c), NEW d \in Drawers
  PROVE  /\ Served(c) \cup {d} \subseteq Served(WithDrawer(c, d))
         /\ WithDrawer(c, d).rest = c.rest
<1> DEFINE o == Opened(c)
           e == WithDrawer(c, d)
<1>1. o \in Content /\ Sound(o) /\ Served(o) = Served(c) /\ o.rest = c.rest
  BY OpenedType
<1>2. /\ e.table = IF o.db THEN o.table \cup {d} ELSE o.table
      /\ e.json = o.table \cup {d} /\ e.rest = o.rest
  BY <1>1 DEF WithDrawer, Content
<1>3. CASE c.there
  <2>1. o.db /\ o.table = Served(c)
    BY <1>3 DEF Opened, Content
  <2> QED  BY <1>1, <1>2, <2>1 DEF Served
<1>4. CASE ~c.there
  <2>1. o = EmptyDir /\ Served(c) = {}
    BY <1>4 DEF Opened, Sound, Served, Content
  <2>2. ~o.db /\ o.table = {}
    BY <2>1 DEF EmptyDir, Missing
  <2> QED  BY <1>1, <1>2, <2>1, <2>2 DEF Served
<1> QED  BY <1>3, <1>4

\* A step of the repair: nothing has been cut short before it, and no drawer is
\* stored during it.  It is enough to look at what it does when nothing grave has
\* happened, and when it is cut short itself.
LEMMA StepOfRepair ==
  ASSUME Kept, pc # "idle", stored' = stored,
         risk = "lossy" => risk' = "lossy", risk' \in {"none", "cut", "lossy"},
         risk \in {"none", "cut", "lossy"},
         risk = "none" /\ risk' = "none" /\ DrawersKept => DrawersKept',
         risk = "none" /\ risk' = "cut" /\ DrawersKept => CutShort'
  PROVE  Kept'
BY DEF Kept, CutShort

\* A directory that is not there holds nothing.
LEMMA GoneIsEmpty ==
  ASSUME NEW c \in Content, Sound(c), ~c.there
  PROVE  Served(c) = {} /\ ~c.rest
BY DEF Sound, Served, Content


LEMMA KeptStep == TypeOK /\ Kept /\ [Next]_vars => Kept'
<1> SUFFICES ASSUME TypeOK, Kept, [Next]_vars PROVE Kept'
  OBVIOUS
<1> USE PlacesAre, MissingType
<1>0. /\ dir \in [Places -> Content]
      /\ \A p \in Places : dir[p] \in Content /\ Sound(dir[p])
      /\ risk \in {"none", "cut", "lossy"}
      /\ mode \in {"index", "sqlite", "vector"}
      /\ Kept
  BY DEF TypeOK
<1>1. ASSUME NEW d \in Drawers, Store(d) PROVE Kept'
  <2> DEFINE e == WithDrawer(dir["palace"], d)
  <2>1. /\ Served(dir["palace"]) \cup {d} \subseteq Served(e)
    BY <1>0, StoreServes
  <2> HIDE DEF e
  <2>2. /\ dir' = [dir EXCEPT !["palace"] = e]
        /\ stored' = stored \cup {d} /\ whole' = whole /\ pc' = pc
        /\ IF pc = "idle" THEN risk' = risk ELSE risk' = "lossy"
    BY <1>0, <1>1 DEF Store, Put, Endanger, WithDrawer, e
  <2>3. /\ dir'["palace"] = e
        /\ \A p \in Places : p # "palace" => dir'[p] = dir[p]
    BY <1>0, <2>2
  <2>4. \A p \in Places : Served(dir[p]) \subseteq Served(dir'[p])
    BY <2>1, <2>3
  <2>5. CASE pc = "idle" /\ risk = "none"
    <3>1. DrawersKept'
      BY <1>0, <2>1, <2>2, <2>3, <2>5 DEF Kept, DrawersKept, Holds, Before, Ready
    <3> QED  BY <2>2, <2>5, <3>1 DEF Kept
  <2>6. CASE pc = "idle" /\ risk = "cut"
    <3>1. CutShort
      BY <1>0, <2>6 DEF Kept
    <3>2. \A x \in stored' : \E p \in Places : x \in Served(dir'[p])
      <4> SUFFICES ASSUME NEW x \in stored' PROVE \E p \in Places : x \in Served(dir'[p])
        OBVIOUS
      <4>1. CASE x = d
        BY <2>1, <2>3, <4>1
      <4>2. CASE x \in stored
        BY <2>4, <3>1, <4>2 DEF CutShort
      <4> QED  BY <2>2, <4>1, <4>2
    <3>3. CutShort'
      BY <2>2, <2>6, <3>2 DEF CutShort
    <3> QED  BY <2>2, <2>6, <3>3 DEF Kept
  <2>7. CASE pc # "idle" \/ risk = "lossy"
    <3>1. risk' = "lossy"
      BY <2>2, <2>7
    <3> QED  BY <3>1 DEF Kept
  <2> QED  BY <1>0, <2>5, <2>6, <2>7
<1>2. CASE BeginIndex \/ BeginVector
  <2> DEFINE e == Opened(dir["palace"])
  <2>1. /\ Served(e) = Served(dir["palace"])
    BY <1>0, OpenedType
  <2> HIDE DEF e
  <2>2. /\ dir' = [dir EXCEPT !["palace"] = e]
        /\ stored' = stored /\ whole' = whole
        /\ pc = "idle"
        /\ \/ pc' = "idle" /\ risk' = risk
           \/ pc' = "clear" /\ risk' = IF risk = "cut" THEN "lossy" ELSE risk
    BY <1>2 DEF BeginIndex, BeginVector, BeginCounted, Put, GoTo, RiskOfRepair, e
  <2>3. /\ dir'["palace"] = e
        /\ \A p \in Places : p # "palace" => dir'[p] = dir[p]
    BY <1>0, <2>2
  <2>4. \A p \in Places : Served(dir[p]) = Served(dir'[p])
    BY <2>1, <2>3
  <2>5. ASSUME risk = "none" PROVE DrawersKept'
    BY <1>0, <2>2, <2>4, <2>5 DEF Kept, DrawersKept, Holds, Before, Ready
  <2>6. ASSUME risk = "cut", risk' = "cut" PROVE CutShort'
    <3>1. CutShort /\ pc' = "idle"
      BY <1>0, <2>2, <2>6 DEF Kept
    <3> QED  BY <2>2, <2>4, <3>1 DEF CutShort
  <2> QED  BY <1>0, <2>2, <2>5, <2>6 DEF Kept
<1>3. CASE BeginSqlite
  <2>1. /\ pc = "idle" /\ pc' = "clear" /\ risk' # "cut" /\ (risk' = "none" => risk = "none")
        /\ UNCHANGED <<dir, stored, whole>>
    BY <1>0, <1>3 DEF BeginSqlite, GoTo, RiskOfRepair
  <2>2. ASSUME risk = "none" PROVE DrawersKept'
    BY <1>0, <2>1, <2>2 DEF Kept, DrawersKept, Holds, Before, Ready
  <2> QED  BY <2>1, <2>2 DEF Kept
<1>4. CASE ClearBackup
  <2>1. /\ pc = "clear" /\ pc' = "copy" /\ whole' = whole
        /\ dir'["backup"] = Missing
        /\ dir'["palace"] = dir["palace"]
        /\ dir'["staging"] = dir["staging"]
        /\ dir'["aside"] = dir["aside"]
    BY <1>0, <1>4 DEF ClearBackup, Put, GoTo
  <2>2. pc # "idle" /\ stored' = stored /\ risk' = risk
    BY <1>4 DEF ClearBackup
  <2>3. ASSUME DrawersKept PROVE DrawersKept'
    BY <1>0, <2>1, <2>2, <2>3 DEF DrawersKept, Holds, Before, Ready
  <2> QED  BY <1>0, <2>2, <2>3, StepOfRepair
<1>5. CASE CopyBackup
  <2>1. /\ pc = "copy" /\ pc' \in {"stage", "count", "done"}
        /\ dir'["backup"] = dir["palace"]
        /\ dir'["palace"] = dir["palace"]
        /\ dir'["staging"] = dir["staging"]
        /\ dir'["aside"] = dir["aside"]
    BY <1>0, <1>5 DEF CopyBackup, Put, GoTo, AfterBackup
  <2>2. pc # "idle" /\ stored' = stored /\ risk' = risk
    BY <1>5 DEF CopyBackup
  <2>3. ASSUME DrawersKept PROVE DrawersKept'
    BY <1>0, <2>1, <2>2, <2>3 DEF DrawersKept, Holds, Before, Ready
  <2> QED  BY <1>0, <2>2, <2>3, StepOfRepair
<1>6. CASE PartialBackup
  <2>1. /\ pc = "copy" /\ pc' \in {"stage", "count", "done"} /\ ~whole'
        /\ dir'["palace"] = dir["palace"]
        /\ dir'["staging"] = dir["staging"]
        /\ dir'["aside"] = dir["aside"]
    BY <1>0, <1>6 DEF PartialBackup, Put, GoTo, AfterBackup
  <2>2. pc # "idle" /\ stored' = stored /\ risk' = risk
    BY <1>6 DEF PartialBackup
  <2>3. ASSUME DrawersKept PROVE DrawersKept'
    BY <1>0, <2>1, <2>2, <2>3 DEF DrawersKept, Holds, Before, Ready
  <2> QED  BY <1>0, <2>2, <2>3, StepOfRepair
<1>7. CASE Count
  <2> DEFINE e == Opened(dir["palace"])
  <2>0. Served(e) = Served(dir["palace"])
    BY <1>0, OpenedType
  <2> HIDE DEF e
  <2>1. /\ pc = "count" /\ whole' = whole
        /\ dir'["palace"] = e /\ dir'["staging"] = dir["staging"] /\ dir'["aside"] = dir["aside"]
        /\ \/ pc' = "idle"
           \/ pc' = "stage" /\ dir'["backup"] = dir["backup"]
    BY <1>0, <1>7 DEF Count, GoTo, e
  <2>2. pc # "idle" /\ stored' = stored /\ risk' = risk
    BY <1>7 DEF Count
  <2>3. ASSUME DrawersKept PROVE DrawersKept'
    BY <1>0, <2>0, <2>1, <2>2, <2>3 DEF DrawersKept, Holds, Before, Ready
  <2> QED  BY <1>0, <2>2, <2>3, StepOfRepair
<1>8. CASE ClearStaging
  <2>1. /\ pc = "stage" /\ pc' = "fill" /\ whole' = whole
        /\ dir'["staging"] = EmptyDir
        /\ dir'["palace"] = dir["palace"]
        /\ dir'["aside"] = dir["aside"]
        /\ dir'["backup"] = dir["backup"]
    BY <1>0, <1>8 DEF ClearStaging, Put, GoTo
  <2>2. pc # "idle" /\ stored' = stored /\ risk' = risk
    BY <1>8 DEF ClearStaging
  <2>3. ASSUME DrawersKept PROVE DrawersKept'
    BY <1>0, <2>1, <2>2, <2>3 DEF DrawersKept, Holds, Before, Ready
  <2> QED  BY <1>0, <2>2, <2>3, StepOfRepair
<1>9. CASE Fill
  <2> DEFINE docs == Served(dir["palace"])
             e == Opened(dir["palace"])
             new(rows) == [there |-> TRUE, db |-> TRUE, table |-> rows, json |-> docs, rest |-> FALSE]
  <2>0. Served(e) = docs
    BY <1>0, OpenedType
  <2>1. PICK rows \in SUBSET docs :
          /\ dir' = [dir EXCEPT !["palace"] = e, !["staging"] = new(rows)]
          /\ IF rows \in {docs, {}} THEN risk' = risk ELSE risk' = "lossy"
    BY <1>0, <1>9 DEF Fill, Endanger
  <2>2. /\ pc = "fill" /\ pc' = "unset" /\ whole' = whole
        /\ stored' = stored
    BY <1>9 DEF Fill, GoTo
  <2> HIDE DEF e
  <2>3. rows \in {docs, {}} => Served(new(rows)) = docs
    BY DEF Served
  <2> HIDE DEF new, docs
  <2>4. /\ dir'["palace"] = e /\ dir'["staging"] = new(rows)
        /\ dir'["aside"] = dir["aside"] /\ dir'["backup"] = dir["backup"]
    BY <1>0, <2>1
  <2>5. ASSUME DrawersKept, risk' # "lossy" PROVE DrawersKept'
    <3>1. Served(dir["palace"]) = docs /\ Served(dir'["staging"]) = docs /\ Served(dir'["palace"]) = docs
      BY <2>0, <2>1, <2>3, <2>4, <2>5 DEF docs
    <3> QED  BY <1>0, <2>2, <2>4, <2>5, <3>1 DEF DrawersKept, Holds, Before, Ready
  <2>6. risk' = risk \/ risk' = "lossy"
    BY <2>1
  <2> QED  BY <1>0, <2>2, <2>5, <2>6, StepOfRepair
<1>10. CASE FailStaging
  <2>1. /\ pc \in {"stage", "fill"} /\ pc' = "restore" /\ whole' = whole
        /\ dir'["palace"] = dir["palace"]
        /\ dir'["aside"] = dir["aside"]
        /\ dir'["backup"] = dir["backup"]
    BY <1>0, <1>10 DEF FailStaging, Put, GoTo
  <2>2. pc # "idle" /\ stored' = stored /\ risk' = risk
    BY <1>10 DEF FailStaging
  <2>3. ASSUME DrawersKept PROVE DrawersKept'
    BY <1>0, <2>1, <2>2, <2>3 DEF DrawersKept, Holds, Before, Ready
  <2> QED  BY <1>0, <2>2, <2>3, StepOfRepair
<1>11. CASE ClearAside
  <2>1. /\ pc = "unset" /\ pc' = "demote" /\ whole' = whole
        /\ dir'["palace"] = dir["palace"]
        /\ dir'["staging"] = dir["staging"]
        /\ dir'["backup"] = dir["backup"]
    BY <1>0, <1>11 DEF ClearAside, Put, GoTo
  <2>2. pc # "idle" /\ stored' = stored /\ risk' = risk
    BY <1>11 DEF ClearAside
  <2>3. ASSUME DrawersKept PROVE DrawersKept'
    BY <1>0, <2>1, <2>2, <2>3 DEF DrawersKept, Holds, Before, Ready
  <2> QED  BY <1>0, <2>2, <2>3, StepOfRepair
<1>12. CASE Demote
  <2>1. /\ pc = "demote" /\ pc' = "promote" /\ whole' = whole
        /\ dir'["aside"] = dir["palace"] /\ dir'["palace"] = Missing
        /\ dir'["staging"] = dir["staging"]
        /\ dir'["backup"] = dir["backup"]
    BY <1>0, <1>12 DEF Demote, Put, GoTo
  <2>2. pc # "idle" /\ stored' = stored /\ risk' = risk
    BY <1>12 DEF Demote
  <2>3. ASSUME DrawersKept PROVE DrawersKept'
    BY <1>0, <2>1, <2>2, <2>3 DEF DrawersKept, Holds, Before, Ready
  <2> QED  BY <1>0, <2>2, <2>3, StepOfRepair
<1>13. CASE FailDemote
  <2>1. /\ pc = "demote" /\ pc' = "restore" /\ whole' = whole
        /\ dir'["palace"] = dir["palace"]
        /\ dir'["aside"] = dir["aside"]
        /\ dir'["backup"] = dir["backup"]
    BY <1>0, <1>13 DEF FailDemote, Put, GoTo
  <2>2. pc # "idle" /\ stored' = stored /\ risk' = risk
    BY <1>13 DEF FailDemote
  <2>3. ASSUME DrawersKept PROVE DrawersKept'
    BY <1>0, <2>1, <2>2, <2>3 DEF DrawersKept, Holds, Before, Ready
  <2> QED  BY <1>0, <2>2, <2>3, StepOfRepair
<1>14. CASE Promote
  <2>1. /\ pc = "promote" /\ pc' = "discard"
        /\ dir'["palace"] = dir["staging"]
    BY <1>0, <1>14 DEF Promote, GoTo
  <2>2. stored' = stored /\ risk' = risk
    BY <1>14 DEF Promote
  <2>3. ASSUME DrawersKept PROVE DrawersKept'
    BY <2>1, <2>2, <2>3 DEF DrawersKept, Holds, Before, Ready
  <2> QED  BY <1>0, <2>1, <2>2, <2>3, StepOfRepair
<1>15. CASE FailPromote
  <2>1. /\ pc = "promote" /\ pc' = "restore" /\ whole' = whole
        /\ stored' = stored /\ risk' = risk
    BY <1>15 DEF FailPromote, GoTo
  <2>2. /\ dir'["backup"] = dir["backup"]
        /\ \/ dir'["palace"] = dir["palace"] /\ dir'["aside"] = dir["aside"]
           \/ dir'["palace"] = dir["aside"]
    BY <1>0, <1>15 DEF FailPromote
  <2>3. ASSUME DrawersKept PROVE DrawersKept'
    BY <2>1, <2>2, <2>3 DEF DrawersKept, Holds, Before, Ready
  <2> QED  BY <1>0, <2>1, <2>3, StepOfRepair
<1>16. CASE Discard
  <2>1. /\ pc = "discard" /\ pc' = "done" /\ whole' = whole
        /\ dir'["palace"] = dir["palace"]
        /\ dir'["staging"] = dir["staging"]
        /\ dir'["backup"] = dir["backup"]
    BY <1>0, <1>16 DEF Discard, Put, GoTo
  <2>2. pc # "idle" /\ stored' = stored /\ risk' = risk
    BY <1>16 DEF Discard
  <2>3. ASSUME DrawersKept PROVE DrawersKept'
    BY <1>0, <2>1, <2>2, <2>3 DEF DrawersKept, Holds, Before, Ready
  <2> QED  BY <1>0, <2>2, <2>3, StepOfRepair
<1>17. CASE Succeed
  <2>1. /\ pc = "done" /\ pc' = "idle" /\ whole' = whole
        /\ dir'["palace"] = dir["palace"]
        /\ dir'["staging"] = dir["staging"]
        /\ dir'["aside"] = dir["aside"]
    BY <1>0, <1>17 DEF Succeed, Put, GoTo
  <2>2. pc # "idle" /\ stored' = stored /\ risk' = risk
    BY <1>17 DEF Succeed
  <2>3. ASSUME DrawersKept PROVE DrawersKept'
    BY <1>0, <2>1, <2>2, <2>3 DEF DrawersKept, Holds, Before, Ready
  <2> QED  BY <1>0, <2>2, <2>3, StepOfRepair
<1>18. CASE Restore
  <2>1. /\ pc = "restore" /\ whole' = whole /\ stored' = stored
        /\ risk = "lossy" => risk' = "lossy"
        /\ risk' \in {"none", "cut", "lossy"}
    BY <1>0, <1>18 DEF Restore, Endanger
  <2>2. CASE dir["backup"].there
    <3>1. /\ pc' = "reinstate" /\ (whole \/ risk' = "lossy") /\ (risk' = risk \/ risk' = "lossy")
          /\ dir'["backup"] = dir["backup"]
      BY <1>0, <1>18, <2>2 DEF Restore, Put, GoTo, Endanger
    <3>2. ASSUME DrawersKept, risk' # "lossy" PROVE DrawersKept'
      BY <1>0, <2>1, <3>1, <3>2 DEF DrawersKept, Holds, Before, Ready
    <3> QED  BY <1>0, <2>1, <3>1, <3>2, StepOfRepair
  <2>3. CASE ~dir["backup"].there
    <3>1. /\ pc' = "idle" /\ dir' = dir
          /\ IF Served(dir["palace"]) = {} THEN risk' \in {"cut", "lossy"} ELSE risk' = risk
      BY <1>0, <1>18, <2>3 DEF Restore, GoTo, Endanger
    <3>2. ASSUME DrawersKept, Served(dir["palace"]) # {} PROVE DrawersKept'
      BY <2>1, <3>1, <3>2 DEF DrawersKept, Holds, Before, Ready
    <3>3. ASSUME DrawersKept PROVE CutShort'
      <4>1. \E p \in Places : Holds(p)
        BY <2>1, <3>3 DEF DrawersKept
      <4> QED  BY <2>1, <3>1, <4>1 DEF CutShort, Holds
    <3> QED  BY <1>0, <2>1, <3>1, <3>2, <3>3, StepOfRepair
  <2> QED  BY <2>2, <2>3
<1>19. CASE Reinstate
  <2>1. /\ pc = "reinstate" /\ pc' = "idle" /\ whole' = whole
        /\ dir'["palace"] = dir["backup"]
    BY <1>0, <1>19 DEF Reinstate, GoTo
  <2>2. stored' = stored /\ risk' = risk
    BY <1>19 DEF Reinstate
  <2>3. ASSUME DrawersKept PROVE DrawersKept'
    BY <2>1, <2>2, <2>3 DEF DrawersKept, Holds, Before, Ready
  <2> QED  BY <1>0, <2>1, <2>2, <2>3, StepOfRepair
<1>20. CASE FailReinstate
  <2>1. /\ pc = "reinstate" /\ pc' = "idle" /\ dir' = dir
        /\ stored' = stored
        /\ risk' = IF risk = "lossy" THEN risk ELSE "cut"
    BY <1>20 DEF FailReinstate, GoTo, Endanger
  <2>2. ASSUME DrawersKept PROVE CutShort'
    <3>1. Holds("backup")
      BY <2>1, <2>2 DEF DrawersKept
    <3> QED  BY <2>1, <3>1 DEF CutShort, Holds
  <2> QED  BY <1>0, <2>1, <2>2, StepOfRepair
<1>21. CASE Crash
  <2>1. PICK c \in LeftOver : Put(Underway, c)
    BY <1>21 DEF Crash
  <2>2. /\ pc # "idle" /\ pc' = "idle" /\ stored' = stored
        /\ risk = "lossy" => risk' = "lossy"
        /\ risk' \in {"none", "cut", "lossy"}
    BY <1>0, <1>21 DEF Crash, GoTo, Endanger
  <2>3. Underway \in Places /\ \A p \in Places : p # Underway => dir'[p] = dir[p]
    BY <1>0, <2>1, LeftOverType DEF Put
  <2>4. CASE pc \notin {"promote", "reinstate", "restore"}
    <3>1. risk' = risk
      BY <1>21, <2>4 DEF Crash
    <3>2. dir'["palace"] = dir["palace"]
      <4>1. CASE pc \in {"clear", "copy", "done", "stage", "fill", "unset", "discard"}
        <5>1. Underway # "palace"
          BY <4>1 DEF Underway
        <5> QED  BY <2>3, <5>1
      <4>2. CASE pc \in {"count", "demote"}
        <5>1. Underway = "palace" /\ LeftOver = {dir["palace"]}
          BY <4>2 DEF Underway, LeftOver
        <5> QED  BY <1>0, <2>1, <5>1 DEF Put
      <4> QED  BY <2>2, <2>4, <4>1, <4>2 DEF TypeOK, Steps
    <3>3. ASSUME DrawersKept PROVE DrawersKept'
      <4>1. Holds("palace")
        BY <2>2, <2>4, <3>3 DEF DrawersKept, Before, TypeOK, Steps
      <4> QED  BY <2>2, <3>2, <4>1 DEF DrawersKept, Holds, Before, Ready
    <3> QED  BY <1>0, <2>2, <3>1, <3>3, StepOfRepair
  <2>5. CASE pc \in {"promote", "reinstate"}
    <3>1. risk' \in {"cut", "lossy"}
      BY <1>0, <1>21, <2>5 DEF Crash, Endanger
    <3>2. Underway = "palace"
      BY <2>5 DEF Underway
    <3>3. dir'["aside"] = dir["aside"] /\ dir'["backup"] = dir["backup"]
      BY <2>3, <3>2
    <3>4. ASSUME DrawersKept PROVE CutShort'
      <4>1. Holds("aside") \/ Holds("backup")
        BY <2>5, <3>4 DEF DrawersKept
      <4> QED  BY <2>2, <3>3, <4>1 DEF CutShort, Holds
    <3> QED  BY <1>0, <2>2, <3>1, <3>4, StepOfRepair
  <2>6. CASE pc = "restore"
    <3>1. risk' \in {"cut", "lossy"} /\ (risk' = "cut" => whole \/ ~dir["backup"].there)
      BY <1>0, <1>21, <2>6 DEF Crash, Endanger
    <3>2. Underway = "palace"
      BY <2>6 DEF Underway
    <3>3. dir'["aside"] = dir["aside"] /\ dir'["backup"] = dir["backup"]
      BY <2>3, <3>2
    <3>4. ~dir["backup"].there => dir'["palace"] = dir["palace"]
      <4>1. ~dir["backup"].there => LeftOver = {dir["palace"]}
        BY <2>6 DEF LeftOver
      <4> QED  BY <1>0, <2>1, <3>2, <4>1 DEF Put
    <3>5. ASSUME DrawersKept, risk' = "cut" PROVE CutShort'
      <4>1. CASE whole
        <5>1. Holds("backup")
          BY <2>6, <3>5, <4>1 DEF DrawersKept
        <5> QED  BY <2>2, <3>3, <5>1 DEF CutShort, Holds
      <4>2. CASE ~dir["backup"].there
        <5>1. Holds("palace") \/ Holds("aside")
          BY <2>6, <3>5 DEF DrawersKept
        <5> QED  BY <2>2, <3>3, <3>4, <4>2, <5>1 DEF CutShort, Holds
      <4> QED  BY <3>1, <3>5, <4>1, <4>2
    <3> QED  BY <1>0, <2>2, <3>1, <3>5, StepOfRepair
  <2> QED  BY <2>4, <2>5, <2>6
<1>22. CASE Look
  <2> DEFINE e == Opened(dir["palace"])
  <2>1. Served(e) = Served(dir["palace"])
    BY <1>0, OpenedType
  <2> HIDE DEF e
  <2>2. dir' = [dir EXCEPT !["palace"] = e] /\ UNCHANGED <<pc, mode, whole, stored, risk>>
    BY <1>22 DEF Look, Put, e
  <2>3. \A p \in Places : Served(dir'[p]) = Served(dir[p])
    BY <1>0, <2>1, <2>2
  <2>4. /\ \A p \in Places : Holds(p)' <=> Holds(p)
        /\ Served(dir'["palace"]) = Served(dir["palace"])
    BY <2>2, <2>3 DEF Holds
  <2>5. DrawersKept => DrawersKept'
    BY <2>2, <2>4 DEF DrawersKept
  <2>6. CutShort => CutShort'
    BY <2>2, <2>3 DEF CutShort
  <2> QED  BY <1>0, <2>2, <2>5, <2>6 DEF Kept
<1>23. CASE OpenHalf
  BY <1>0, <1>23 DEF OpenHalf, Endanger, Kept
<1>24. CASE UNCHANGED vars
  BY <1>0, <1>24 DEF vars, Kept, DrawersKept, CutShort, Holds
<1> QED
  BY <1>0, <1>1, <1>2, <1>3, <1>4, <1>5, <1>6, <1>7, <1>8, <1>9, <1>10, <1>11, <1>12, <1>13, <1>14,
     <1>15, <1>16, <1>17, <1>18, <1>19, <1>20, <1>21, <1>22, <1>23, <1>24 DEF Next

-----------------------------------------------------------------------------
(***************************************************************************)
(* What is not a drawer.                                                   *)
(***************************************************************************)

\* Copies and remains hold nothing that was not there.
LEMMA RemainsRest ==
  ASSUME NEW c \in Content, NEW e \in Pieces(c) \cup {c, Missing}
  PROVE  e.rest => c.rest
<1>1. CASE e \in Pieces(c)
  <2>1. PICK b \in {FALSE, c.db}, j \in {{}, c.json}, r \in {FALSE, c.rest} :
          e = [there |-> TRUE, db |-> b, table |-> IF b THEN c.table ELSE {}, json |-> j, rest |-> r]
    BY <1>1 DEF Pieces
  <2>2. e.rest = r
    BY <2>1
  <2> QED  BY <2>2
<1> QED  BY <1>1, MissingType

\* Where it may be lost.
Excused ==
  \/ pc \in {"discard", "done"} /\ mode # "vector"
  \/ pc = "restore" /\ ~whole
  \/ pc \in {"clear", "unset"} /\ ~dir["palace"].rest

\* The places are four.
LEMMA LostIs ==
  RestLost <=> /\ \/ dir["palace"].rest \/ dir["staging"].rest
                  \/ dir["aside"].rest \/ dir["backup"].rest
               /\ ~dir'["palace"].rest /\ ~dir'["staging"].rest
               /\ ~dir'["aside"].rest /\ ~dir'["backup"].rest
BY DEF RestLost, Places

\* Every step keeps it where it can be found again, or may lose it.
LEMMA RestStep == TypeOK /\ RestKept /\ [Next]_vars => RestKept' /\ (RestLost => Excused)
<1> SUFFICES ASSUME TypeOK, RestKept, [Next]_vars PROVE RestKept' /\ (RestLost => Excused)
  OBVIOUS
<1> USE PlacesAre, MissingType, LostIs
<1>0. /\ dir \in [Places -> Content]
      /\ \A p \in Places : dir[p] \in Content /\ Sound(dir[p])
      /\ pc \in Steps \cup {"idle"} /\ mode \in {"index", "sqlite", "vector"}
  BY DEF TypeOK
<1>1. CASE Look \/ OpenHalf \/ \E d \in Drawers : Store(d)
  <2>1. PICK e \in {c \in Content : c.rest = dir["palace"].rest} : Put("palace", e)
    <3>1. CASE Look
      BY <1>0, <3>1, OpenedType DEF Look
    <3>2. CASE OpenHalf
      BY <1>0, <3>2 DEF OpenHalf, Content
    <3>3. CASE \E d \in Drawers : Store(d)
      <4>1. PICK d \in Drawers : Put("palace", WithDrawer(dir["palace"], d))
        BY <3>3 DEF Store, WithDrawer
      <4>2. WithDrawer(dir["palace"], d).rest = dir["palace"].rest
        BY <1>0, StoreServes
      <4>3. WithDrawer(dir["palace"], d) \in Content
        <5> DEFINE o == Opened(dir["palace"])
        <5>1. o \in Content
          BY <1>0, OpenedType
        <5> HIDE DEF o
        <5>2. o.table \in SUBSET Drawers
          BY <5>1 DEF Content
        <5> QED  BY <5>1, <5>2 DEF WithDrawer, Content, o
      <4> QED  BY <4>1, <4>2, <4>3
    <3> QED  BY <1>1, <3>1, <3>2, <3>3
  <2>2. UNCHANGED <<pc, mode, whole>>
    BY <1>1 DEF Look, OpenHalf, Store
  <2>3. \A p \in Places : dir'[p].rest = dir[p].rest
    BY <1>0, <2>1 DEF Put
  <2> QED  BY <2>2, <2>3 DEF RestKept
<1>2. CASE BeginIndex \/ BeginVector \/ BeginSqlite
  <2>1. \A p \in Places : dir'[p].rest = dir[p].rest
    <3>1. dir' = dir \/ Put("palace", Opened(dir["palace"]))
      BY <1>2 DEF BeginIndex, BeginVector, BeginSqlite, BeginCounted
    <3> QED  BY <1>0, <3>1, OpenedType DEF Put
  <2>2. pc' \in {"idle", "clear"}
    BY <1>2 DEF BeginIndex, BeginVector, BeginSqlite, BeginCounted, GoTo
  <2> QED  BY <2>1, <2>2 DEF RestKept
<1>3. CASE ClearBackup
  BY <1>0, <1>3 DEF ClearBackup, Put, GoTo, RestKept, Excused
<1>4. CASE CopyBackup \/ PartialBackup
  <2>1. PICK e \in Pieces(dir["palace"]) \cup {dir["palace"], Missing} :
          /\ Put("backup", e)
          /\ whole' => e = dir["palace"]
    BY <1>4 DEF CopyBackup, PartialBackup
  <2>2. e.rest => dir["palace"].rest
    BY <1>0, <2>1, RemainsRest
  <2>3. /\ pc = "copy" /\ mode' = mode
        /\ pc' \in {"stage", "count", "done"} /\ (pc' = "done" <=> mode = "vector")
    BY <1>0, <1>4 DEF CopyBackup, PartialBackup, GoTo, AfterBackup
  <2>4. /\ dir'["backup"] = e /\ dir'["palace"] = dir["palace"]
        /\ dir'["staging"] = dir["staging"] /\ dir'["aside"] = dir["aside"]
    BY <1>0, <2>1 DEF Put
  <2> QED  BY <2>1, <2>2, <2>3, <2>4 DEF RestKept
<1>5. CASE Count
  <2>1. /\ dir'["palace"] = Opened(dir["palace"]) /\ dir'["backup"] \in {dir["backup"], Missing}
        /\ dir'["staging"] = dir["staging"] /\ dir'["aside"] = dir["aside"]
        /\ \/ pc' = "idle"
           \/ pc' = "stage" /\ dir'["backup"] = dir["backup"]
    BY <1>0, <1>5 DEF Count, GoTo
  <2>2. dir'["palace"].rest = dir["palace"].rest
    BY <1>0, <2>1, OpenedType
  <2>3. pc = "count" /\ UNCHANGED <<mode, whole>>
    BY <1>5 DEF Count
  <2> QED  BY <2>1, <2>2, <2>3 DEF RestKept
<1>6. CASE ClearStaging
  BY <1>0, <1>6 DEF ClearStaging, Put, GoTo, RestKept
<1>7. CASE Fill
  <2>1. /\ dir'["palace"] = Opened(dir["palace"]) /\ dir'["staging"].rest = FALSE
        /\ dir'["backup"] = dir["backup"] /\ dir'["aside"] = dir["aside"]
    BY <1>0, <1>7 DEF Fill
  <2>2. dir'["palace"].rest = dir["palace"].rest
    BY <1>0, <2>1, OpenedType
  <2>3. pc = "fill" /\ pc' = "unset" /\ UNCHANGED <<mode, whole>>
    BY <1>7 DEF Fill, GoTo
  <2> QED  BY <2>1, <2>2, <2>3 DEF RestKept
<1>8. CASE FailStaging \/ FailDemote
  <2>1. PICK e \in {Missing, EmptyDir} : Put("staging", e)
    BY <1>8 DEF FailStaging, FailDemote
  <2>2. /\ dir'["staging"] = e /\ dir'["palace"] = dir["palace"]
        /\ dir'["backup"] = dir["backup"] /\ dir'["aside"] = dir["aside"]
    BY <1>0, <2>1 DEF Put
  <2>3. pc \in {"stage", "fill", "demote"} /\ pc' = "restore" /\ UNCHANGED <<mode, whole>>
    BY <1>8 DEF FailStaging, FailDemote, GoTo
  <2> QED  BY <2>2, <2>3 DEF RestKept
<1>9. CASE ClearAside
  BY <1>0, <1>9 DEF ClearAside, Put, GoTo, RestKept, Excused
<1>10. CASE Demote
  BY <1>0, <1>10 DEF Demote, GoTo, RestKept
<1>11. CASE Promote
  <2>1. ~dir["palace"].rest
    BY <1>11 DEF Promote, RestKept
  <2> QED  BY <1>0, <1>11, <2>1 DEF Promote, GoTo, RestKept
<1>12. CASE FailPromote
  <2>1. pc = "promote" /\ pc' = "restore" /\ UNCHANGED <<mode, whole>>
    BY <1>12 DEF FailPromote, GoTo
  <2>2. CASE dir' = dir
    BY <2>1, <2>2 DEF RestKept
  <2>3. CASE dir' = [dir EXCEPT !["palace"] = dir["aside"], !["aside"] = Missing]
    BY <1>0, <2>1, <2>3 DEF RestKept
  <2> QED  BY <1>12, <2>2, <2>3 DEF FailPromote
<1>13. CASE Discard
  BY <1>0, <1>13 DEF Discard, Put, GoTo, RestKept, Excused
<1>14. CASE Succeed
  BY <1>0, <1>14 DEF Succeed, Put, GoTo, RestKept, Excused
<1>15. CASE Restore
  <2>1. pc = "restore" /\ pc' \in {"idle", "reinstate"} /\ UNCHANGED <<mode, whole>>
    BY <1>15 DEF Restore, GoTo
  <2>2. /\ dir'["staging"] = dir["staging"] /\ dir'["backup"] = dir["backup"]
        /\ dir'["aside"] = dir["aside"]
    BY <1>0, <1>15 DEF Restore, Put
  <2> QED  BY <2>1, <2>2 DEF RestKept, Excused
<1>16. CASE Reinstate
  <2>1. ~dir["palace"].rest
    BY <1>0, <1>16, GoneIsEmpty DEF Reinstate
  <2> QED  BY <1>0, <1>16, <2>1 DEF Reinstate, GoTo, RestKept
<1>17. CASE FailReinstate
  BY <1>17 DEF FailReinstate, GoTo, RestKept
<1>18. CASE Crash
  <2>1. PICK c \in LeftOver : Put(Underway, c)
    BY <1>18 DEF Crash
  <2>2. pc' = "idle" /\ pc # "idle"
    BY <1>18 DEF Crash, GoTo
  <2>3. Underway \in Places /\ dir'[Underway] = c /\ \A p \in Places : p # Underway => dir'[p] = dir[p]
    BY <1>0, <2>1, LeftOverType DEF Put
  <2>4. ~dir'["staging"].rest
    <3>1. CASE pc = "stage"
      BY <1>0, <2>1, <2>3, <3>1, RemainsRest DEF Underway, LeftOver, Remains, RestKept
    <3>2. CASE pc = "fill"
      BY <1>0, <2>1, <2>3, <3>2 DEF Underway, LeftOver, EmptyDir, Missing, RestKept
    <3>3. CASE pc \notin {"stage", "fill"}
      <4>1. Underway # "staging"
        BY <3>3 DEF Underway
      <4> QED  BY <2>3, <4>1 DEF RestKept
    <3> QED  BY <3>1, <3>2, <3>3
  <2>5. RestLost => Excused
    <3>1. CASE pc \in {"clear", "unset", "discard", "done", "copy"}
      <4>1. Underway \in {"aside", "backup"} /\ dir'["palace"] = dir["palace"]
        BY <2>3, <3>1 DEF Underway
      <4>2. pc = "copy" => Underway = "backup"
        BY DEF Underway
      <4>3. pc = "done" => Underway = "backup"
        BY DEF Underway
      <4> QED  BY <2>3, <3>1, <4>1, <4>2, <4>3 DEF RestKept, Excused
    <3>2. CASE pc \in {"stage", "fill"}
      <4>1. Underway = "staging"
        BY <3>2 DEF Underway
      <4> QED  BY <2>3, <4>1 DEF RestKept
    <3>3. CASE pc = "restore"
      <4>1. Underway = "palace"
        BY <3>3 DEF Underway
      <4> QED  BY <2>3, <3>3, <4>1 DEF RestKept, Excused
    <3>4. CASE pc \in {"count", "demote", "promote", "reinstate"}
      <4>1. c = dir[Underway]
        BY <2>1, <3>4 DEF LeftOver
      <4> QED  BY <2>3, <4>1
    <3> QED  BY <1>0, <2>2, <3>1, <3>2, <3>3, <3>4 DEF Steps
  <2> QED  BY <2>2, <2>4, <2>5 DEF RestKept
<1>19. CASE UNCHANGED vars
  BY <1>19 DEF vars, RestKept
<1> QED
  BY <1>1, <1>2, <1>3, <1>4, <1>5, <1>6, <1>7, <1>8, <1>9, <1>10, <1>11, <1>12, <1>13, <1>14,
     <1>15, <1>16, <1>17, <1>18, <1>19 DEF Next

-----------------------------------------------------------------------------
(***************************************************************************)
(* Theorems.                                                               *)
(***************************************************************************)

\* The directories, the step of the repair and the histories keep their types:
\* rows are in a database file, and nothing is in a directory that is missing.
THEOREM TypeCorrectness == Spec => []TypeOK
<1> QED  BY TypeInit, TypeStep, PTL DEF Spec

\* The inductive invariant: where drawers and everything else are at each step of a
\* repair (rebuild_via_staging), and after one that was cut short.
THEOREM Invariance == Spec => []RepairInv
<1>1. Init => RepairInv
  BY TypeInit, InitKept DEF RepairInv, Kept
<1>2. RepairInv /\ [Next]_vars => RepairInv'
  BY TypeStep, KeptStep DEF RepairInv, Kept
<1> QED  BY <1>1, <1>2, PTL DEF Spec

\* With no repair under way and none cut short in the middle of a swap, the palace
\* serves every drawer that users have stored (rebuild_via_staging and
\* restore_from_backup), whatever failed and wherever processes died.
THEOREM ServedAtRestAlways == Spec => []ServedAtRest
<1>1. RepairInv => ServedAtRest
  BY DEF RepairInv, DrawersKept, Before, Holds, ServedAtRest
<1> QED  BY <1>1, Invariance, PTL

\* Every drawer is in one of the directories unless one of the listed losses has
\* happened (repair.rs:1057-1065, the two renames, and a death between them).
THEOREM NothingLostAlways == Spec => []NothingLost
<1>1. RepairInv => NothingLost
  <2> SUFFICES ASSUME RepairInv, risk # "lossy"
               PROVE  \A d \in stored : \E p \in Places : d \in Served(dir[p])
    BY DEF NothingLost
  <2>1. CASE risk = "cut"
    BY <2>1 DEF RepairInv, CutShort
  <2>2. CASE risk = "none"
    <3>1. \E p \in Places : Holds(p)
      BY <2>2, PlacesAre DEF RepairInv, TypeOK, Steps, DrawersKept, Before, Ready
    <3> QED  BY <3>1 DEF Holds
  <2> QED  BY <2>1, <2>2 DEF RepairInv, TypeOK
<1> QED  BY <1>1, Invariance, PTL

\* What a palace holds besides drawers is lost when a repair succeeds, when one that
\* failed restores a backup that is not whole, and when one begins that finds it only
\* in what a predecessor left: by no other failure and by no other crash
\* (rebuild_via_staging, restore_from_backup), whatever users do meanwhile.
THEOREM RestOutlivesFailuresAlways == Spec => RestOutlivesFailures
<1>1. Init => RestKept
  BY MissingType DEF Init, RestKept, Places
<1>2. TypeOK /\ RestKept /\ [Next]_vars =>
        RestKept' /\ [RestLost => Excused]_vars
  BY RestStep
<1> QED  BY <1>1, <1>2, TypeCorrectness, PTL DEF Spec, RestOutlivesFailures, Excused
=============================================================================
