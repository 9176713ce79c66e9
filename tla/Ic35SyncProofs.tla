--------------------------- MODULE Ic35SyncProofs ---------------------------
(***************************************************************************)
(* Theorems about Ic35Sync, for every number of files, records and edits.  *)
(***************************************************************************)
EXTENDS Ic35Sync, FiniteSetTheorems, TLAPS

-----------------------------------------------------------------------------
(* What the operators on the two stores return.                            *)

(* What a transaction leaves in the IC35 are records again.                *)
LEMMA DevTyped ==
  ASSUME TypeOK, NEW id, NEW d \in Data \cup {NoData}
  PROVE  /\ DevPut(id, d) \in [Ids -> DevRec]
         /\ DevDelete(id) \in [Ids -> DevRec]
         /\ DevCommit(id) \in [Ids -> DevRec]
  BY DEF TypeOK, DevPut, DevDelete, DevCommit, DevRec, DevFlags, Gone, Live

(* So are the PIM records after an update from the IC35, after a deletion, *)
(* and after a record-ID and the clean status were set.                    *)
LEMMA PimTyped ==
  ASSUME TypeOK, NEW s \in Slots, NEW id \in Ids, NEW d \in Data \cup {NoData}
  PROVE  /\ Ic35ToPim(s, id, d) \in [Slots -> PimRec]
         /\ PimDelete(s) \in [Slots -> PimRec]
         /\ PimClean(s, id) \in [Slots -> PimRec]
  BY DEF TypeOK, Ic35ToPim, PimDelete, PimClean, PimRec, PimStat, NoPim

LEMMA StampedTyped ==
  ASSUME TypeOK
  PROVE  Stamped(pim) \in [Slots -> PimRec] /\ Stamped(file) \in [Slots -> PimRec]
  BY DEF TypeOK, Stamped, PimRec

(* The IC35 announces a number of records, not an infinity.                *)
LEMMA CountsTyped ==
  ASSUME NEW f
  PROVE  /\ IsFiniteSet(LiveIds(f)) /\ Cardinality(LiveIds(f)) \in Nat
         /\ IsFiniteSet(ChangedIds(f)) /\ Cardinality(ChangedIds(f)) \in Nat
<1>1. LiveIds(f) \in SUBSET Ids /\ ChangedIds(f) \in SUBSET Ids
  BY DEF LiveIds, ChangedIds
<1> QED
  BY <1>1, IdsAssumption, FS_Subset, FS_CardinalityType

-----------------------------------------------------------------------------
(* Type correctness: every variable keeps to its type.                     *)

LEMMA EmptyTyped == NoPim \in PimRec /\ EmptyPim \in [Slots -> PimRec]
  BY DEF NoPim, EmptyPim, PimRec, PimStat

LEMMA UserTyped == TypeOK /\ User => TypeOK'
<1> SUFFICES ASSUME TypeOK, User PROVE TypeOK'
  OBVIOUS
<1>1. UserEdits
  BY DEF User, DevCreates, DevEdits, DevDeletes, PimCreates, PimEdits, PimRemoves
<1>2. /\ edits' \in Nat
      /\ UNCHANGED <<faults, crashes, pim, pc, cmd, fno, initexp, same, rval,
                     nrec, irec, mleft, tab, todo, op>>
  BY <1>1 DEF UserEdits, TypeOK, ctl, loop
<1>3. dev' \in [Ids -> DevRec] /\ file' \in [Slots -> PimRec]
  <2>1. CASE \E id \in Ids, d \in Data : DevCreates(id, d) \/ DevEdits(id, d)
    BY <2>1 DEF DevCreates, DevEdits, TypeOK, DevRec, DevFlags
  <2>2. CASE \E id \in Ids : DevDeletes(id)
    BY <2>2 DEF DevDeletes, TypeOK, DevRec, DevFlags
  <2>3. CASE \E s \in Slots, d \in Data : PimCreates(s, d)
    <3> PICK s \in Slots, d \in Data : PimCreates(s, d)
      BY <2>3
    <3>1. [id |-> 0, data |-> d, stat |-> "dirty",
           newer |-> SlotFile[s] \in RevFiles] \in PimRec
      BY DEF PimRec, PimStat
    <3> QED
      BY <3>1 DEF PimCreates, TypeOK
  <2>4. CASE \E s \in Slots, d \in Data : PimEdits(s, d)
    <3> PICK s \in Slots, d \in Data : PimEdits(s, d)
      BY <2>4
    <3>1. /\ [file[s] EXCEPT !.data = d, !.newer = TRUE] \in PimRec
          /\ [file[s] EXCEPT !.data = d, !.stat = "dirty"] \in PimRec
      BY DEF TypeOK, PimRec, PimStat
    <3>2. \/ file' = [file EXCEPT ![s] = [file[s] EXCEPT !.data = d, !.newer = TRUE]]
          \/ file' = [file EXCEPT ![s] = [file[s] EXCEPT !.data = d, !.stat = "dirty"]]
      BY DEF PimEdits, TypeOK, PimRec
    <3> QED
      BY <3>1, <3>2 DEF PimEdits, TypeOK
  <2>5. CASE \E s \in Slots : PimRemoves(s)
    <3> PICK s \in Slots : PimRemoves(s)
      BY <2>5
    <3>1. [file[s] EXCEPT !.stat = "del"] \in PimRec
      BY DEF TypeOK, PimRec, PimStat
    <3> QED
      BY <3>1, EmptyTyped DEF PimRemoves, TypeOK
  <2> QED
    BY <2>1, <2>2, <2>3, <2>4, <2>5 DEF User
<1> QED
  BY <1>2, <1>3 DEF TypeOK

LEMMA FrameTyped ==
  ASSUME TypeOK, (\E c \in Commands : Start(c)) \/ WriteSysInfo \/ Finish \/ Crash
  PROVE  TypeOK'
<1>0. 1 \in Files /\ {"idle", "file", "finish"} \subseteq PCs
  BY FilesAssumption DEF Files, PCs
<1>1. CASE \E c \in Commands : Start(c)
  BY <1>0, <1>1 DEF Start, TypeOK, count, loop
<1>2. CASE WriteSysInfo
  <2>1. pim' \in [Slots -> PimRec] /\ file' \in [Slots -> PimRec]
    BY <1>2, StampedTyped DEF WriteSysInfo, TypeOK
  <2>2. edits' \in Nat /\ faults' \in Nat /\ crashes' \in Nat /\ pc' \in PCs
    BY <1>2 DEF WriteSysInfo, Fault, TypeOK, PCs, count
  <2> QED
    BY <1>2, <2>1, <2>2 DEF WriteSysInfo, TypeOK, ctl, loop
<1>4. CASE Finish
  BY <1>0, <1>4, EmptyTyped DEF Finish, NoLoop, TypeOK, Ops, count
<1>5. CASE Crash
  <2>1. file' \in [Slots -> PimRec]
    BY <1>5, EmptyTyped DEF Crash, TypeOK
  <2>2. crashes' \in Nat
    BY <1>5 DEF Crash, TypeOK
  <2>3. /\ pim' = EmptyPim
        /\ pc' = "idle" /\ cmd' = "none" /\ fno' = 1
        /\ initexp' = FALSE /\ same' = FALSE /\ rval' = "OK" /\ NoLoop
        /\ UNCHANGED <<dev, edits, faults>>
    BY <1>5 DEF Crash
  <2> QED
    BY <1>0, <2>1, <2>2, <2>3, EmptyTyped DEF NoLoop, TypeOK, Ops
<1> QED
  BY <1>1, <1>2, <1>4, <1>5

(* What a transaction leaves of the frame when the run gives up, or when a *)
(* file is done.                                                           *)
LEMMA GiveUpTyped ==
  ASSUME TypeOK, GiveUp,
         dev' \in [Ids -> DevRec], edits' \in Nat, faults' \in Nat, crashes' \in Nat
  PROVE  TypeOK'
  BY DEF GiveUp, NoLoop, TypeOK, PCs, Ops

LEMMA FaultTyped ==
  ASSUME TypeOK, Fault PROVE edits' \in Nat /\ faults' \in Nat /\ crashes' \in Nat
  BY DEF Fault, TypeOK

LEMMA AnswerLostTyped ==
  ASSUME TypeOK, NEW d \in [Ids -> DevRec], AnswerLost(d) PROVE TypeOK'
  BY FaultTyped, GiveUpTyped DEF AnswerLost

LEMMA FileDoneTyped ==
  ASSUME TypeOK, NEW after \in PCs, FileDone(after), same' \in BOOLEAN,
         UNCHANGED <<dev, file, count, pim>>
  PROVE  TypeOK'
<1>1. fno' \in Files /\ pc' \in PCs
  BY FilesAssumption DEF FileDone, TypeOK, Files, PCs
<1> QED
  BY <1>1 DEF FileDone, NoLoop, TypeOK, Ops, count

LEMMA SyncTyped == TypeOK /\ SyncNext => TypeOK'
<1> SUFFICES ASSUME TypeOK, SyncNext PROVE TypeOK'
  OBVIOUS
<1> USE DEF count, ctl, loop
<1>0. /\ {"file", "export", "modlen", "mod", "commit", "update", "len", "index",
          "delete", "stamp", "finish"} \subseteq PCs
      /\ \A s \in Slots : pim[s].data \in Data \cup {NoData}
      /\ \A id \in Ids : dev[id].data \in Data \cup {NoData}
  BY DEF PCs, TypeOK, PimRec, DevRec
<1>1. CASE BeginExport
  BY <1>0, <1>1, CountsTyped DEF BeginExport, StartLoop, TypeOK
<1>2. CASE \E id \in Ids : ExportRead(id)
  <2> PICK id \in Ids : ExportRead(id)
    BY <1>2
  <2>1. pim' \in [Slots -> PimRec]
    BY <1>0, PimTyped DEF ExportRead, PutSlots, ByID, FirstFree, FreeSlots
  <2> QED
    BY <2>1 DEF ExportRead, TypeOK
<1>3. CASE ExportDone
  <2>1. CASE cmd = "export"
    BY <1>0, <1>3, <2>1, FileDoneTyped DEF ExportDone, TypeOK
  <2>2. CASE cmd # "export"
    BY <1>0, <1>3, <2>2 DEF ExportDone, NoLoop, TypeOK, Ops
  <2> QED
    BY <2>1, <2>2
<1>4. CASE BeginSync
  BY <1>0, <1>4 DEF BeginSync, TypeOK
<1>5. CASE ModLen
  <2>1. ChangedIds(fno) \subseteq Ids
    BY DEF ChangedIds
  <2> QED
    BY <1>0, <1>5, <2>1, CountsTyped DEF ModLen, TypeOK
<1>6. CASE \E id \in Ids : ModRead(id)
  <2> PICK id \in Ids : ModRead(id)
    BY <1>6
  <2>1. pim' \in [Slots -> PimRec]
    BY <1>0, PimTyped DEF ModRead, Received, PutSlots, ByID, FirstFree, FreeSlots, TypeOK
  <2>2. mleft' \subseteq Ids /\ irec' \in Nat /\ tab' \subseteq Ids
    BY DEF ModRead, TypeOK
  <2> QED
    BY <2>1, <2>2 DEF ModRead, TypeOK
<1>7. CASE ModDone
  BY <1>0, <1>7 DEF ModDone, TypeOK
<1>8. CASE \E id \in Ids : Commit(id)
  <2> PICK id \in Ids : Commit(id)
    BY <1>8
  <2>1. DevCommit(id) \in [Ids -> DevRec]
    BY DevTyped
  <2>2. CASE AnswerLost(DevCommit(id))
    BY <2>1, <2>2, AnswerLostTyped
  <2> QED
    BY <2>1, <2>2 DEF Commit, TypeOK
<1>9. CASE CommitDone
  <2>1. CASE initexp
    BY <1>0, <1>9, <2>1, FileDoneTyped DEF CommitDone, TypeOK
  <2>2. CASE ~initexp
    BY <1>0, <1>9, <2>2 DEF CommitDone, TypeOK, PimOf
  <2> QED
    BY <2>1, <2>2
<1>10. CASE \E s \in Slots : PushDeleted(s)
  <2> PICK s \in Slots : PushDeleted(s)
    BY <1>10
  <2>1. DevDelete(pim[s].id) \in [Ids -> DevRec]
    BY DevTyped
  <2>2. CASE AnswerLost(DevDelete(pim[s].id))
    BY <2>1, <2>2, AnswerLostTyped
  <2>3. CASE GiveUp /\ UNCHANGED <<dev, count>>
    BY <2>3, GiveUpTyped DEF TypeOK
  <2>4. PimDelete(s) \in [Slots -> PimRec]
    BY EmptyTyped DEF PimDelete, TypeOK
  <2> QED
    BY <2>1, <2>2, <2>3, <2>4 DEF PushDeleted, VisitedFreed, TypeOK
<1>11. CASE \E s \in Slots : PushNothing(s)
  BY <1>11 DEF PushNothing, Visited, TypeOK
<1>12. CASE \E s \in Slots : PushChanged(s)
  <2> PICK s \in Slots : PushChanged(s)
    BY <1>12
  <2>0. pim[s].id \in Ids
    BY DEF PushChanged, TypeOK, PimRec
  <2>1. DevPut(pim[s].id, pim[s].data) \in [Ids -> DevRec]
    BY <1>0, DevTyped
  <2>2. CASE AnswerLost(DevPut(pim[s].id, pim[s].data))
    BY <2>1, <2>2, AnswerLostTyped
  <2>3. PimClean(s, pim[s].id) \in [Slots -> PimRec]
    BY <1>0, <2>0, PimTyped
  <2> QED
    BY <2>1, <2>2, <2>3 DEF PushChanged, Visited, TypeOK
<1>13. CASE \E s \in Slots : PushNew(s)
  <2> PICK s \in Slots : PushNew(s)
    BY <1>13
  <2>1. CASE GiveUp /\ UNCHANGED <<dev, count>>
    BY <2>1, GiveUpTyped DEF TypeOK
  <2>2. CASE \E id \in FreshIds(fno) : AnswerLost(DevPut(id, pim[s].data))
    BY <1>0, <2>2, DevTyped, AnswerLostTyped
  <2>3. CASE \E id \in FreshIds(fno) :
               /\ dev' = DevPut(id, pim[s].data) /\ pim' = PimClean(s, id)
               /\ Visited(s)
               /\ UNCHANGED <<file, count, pc, ctl>>
    <3> PICK id \in FreshIds(fno) :
               /\ dev' = DevPut(id, pim[s].data) /\ pim' = PimClean(s, id)
               /\ Visited(s)
               /\ UNCHANGED <<file, count, pc, ctl>>
      BY <2>3
    <3>1. id \in Ids
      BY DEF FreshIds
    <3>2. dev' \in [Ids -> DevRec] /\ pim' \in [Slots -> PimRec]
      BY <1>0, <3>1, DevTyped, PimTyped
    <3> QED
      BY <3>2 DEF Visited, TypeOK
  <2> QED
    BY <2>1, <2>2, <2>3 DEF PushNew
<1>14. CASE PushDone
  BY <1>0, <1>14 DEF PushDone, TypeOK
<1>15. CASE Len
  BY <1>0, <1>15, CountsTyped DEF Len, StartLoop, TypeOK
<1>16. CASE \E id \in Ids : IndexRead(id)
  BY <1>16 DEF IndexRead, TypeOK
<1>17. CASE IndexDone
  BY <1>0, <1>17 DEF IndexDone, TypeOK
<1>18. CASE \E id \in Ids : Delete(id)
  <2> PICK id \in Ids : Delete(id)
    BY <1>18
  <2>1. DevDelete(id) \in [Ids -> DevRec]
    BY DevTyped
  <2>2. CASE AnswerLost(DevDelete(id))
    BY <2>1, <2>2, AnswerLostTyped
  <2> QED
    BY <2>1, <2>2 DEF Delete, TypeOK
<1>19. CASE DeleteDone
  BY <1>0, <1>19, FileDoneTyped DEF DeleteDone, TypeOK
<1>20. CASE CallFails
  BY <1>20, FaultTyped, GiveUpTyped DEF CallFails, TypeOK
<1> QED
  BY <1>1, <1>2, <1>3, <1>4, <1>5, <1>6, <1>7, <1>8, <1>9, <1>10, <1>11, <1>12,
     <1>13, <1>14, <1>15, <1>16, <1>17, <1>18, <1>19, <1>20
  DEF SyncNext, Phase0, Phase1, Phase2, Phase3

LEMMA ImportTyped == TypeOK /\ ImportNext => TypeOK'
<1> SUFFICES ASSUME TypeOK, ImportNext PROVE TypeOK'
  OBVIOUS
<1> USE DEF count, ctl, loop
<1>0. /\ {"file", "impread", "impcmp", "impexec", "stamp", "finish"} \subseteq PCs
      /\ \A s \in Slots : pim[s].data \in Data \cup {NoData}
  BY DEF PCs, TypeOK, PimRec
<1>1. CASE BeginImport
  BY <1>0, <1>1, CountsTyped DEF BeginImport, StartLoop, TypeOK
<1>2. CASE ImportCallFails
  BY <1>2, FaultTyped, GiveUpTyped DEF ImportCallFails, TypeOK
<1>3. CASE \E id \in Ids : ImportRead(id)
  BY <1>3 DEF ImportRead, TypeOK
<1>4. CASE ImportReadDone
  BY <1>0, <1>4 DEF ImportReadDone, TypeOK
<1>5. CASE ImportCompare
  <2>1. \A s \in Slots : Action(s) \in Ops
    BY DEF Action, Ops
  <2> QED
    BY <1>0, <1>5, <2>1 DEF ImportCompare, TypeOK, Ops
<1>6. CASE \E s \in Slots : ImportExec(s)
  <2> PICK s \in Slots : ImportExec(s)
    BY <1>6
  <2> PICK id \in IF op[s] = "write" THEN FreshIds(fno) ELSE {pim[s].id} :
           \/ /\ dev' = Effect(s, id) /\ pim' = PimClean(s, id)
              /\ UNCHANGED <<rval, count>>
           \/ /\ dev' \in {dev, Effect(s, id)} /\ rval' = "ERR"
              /\ Fault /\ UNCHANGED pim
    BY DEF ImportExec
  <2>1. dev' \in [Ids -> DevRec]
    <3>1. DevCommit(id) \in [Ids -> DevRec] /\ DevPut(id, pim[s].data) \in [Ids -> DevRec]
      BY <1>0, DevTyped
    <3> QED
      BY <3>1 DEF Effect, TypeOK
  <2>2. pim' \in [Slots -> PimRec]
    <3>1. \A n \in Ids \cup {0} : [pim[s] EXCEPT !.id = n, !.stat = "clean"] \in PimRec
      BY DEF TypeOK, PimRec, PimStat
    <3>2. id \in Ids \cup {0}
      BY DEF FreshIds, TypeOK, PimRec
    <3>3. PimClean(s, id) = [pim EXCEPT ![s] = [pim[s] EXCEPT !.id = id, !.stat = "clean"]]
      BY DEF PimClean, TypeOK, PimRec
    <3> QED
      BY <3>1, <3>2, <3>3 DEF TypeOK
  <2>3. /\ edits' \in Nat /\ faults' \in Nat /\ crashes' \in Nat
        /\ rval' \in {"OK", "ERR"}
    BY FaultTyped DEF TypeOK
  <2>4. op' \in [Slots -> Ops]
    BY DEF ImportExec, Executed, TypeOK, Ops
  <2> QED
    BY <2>1, <2>2, <2>3, <2>4 DEF ImportExec, Executed, TypeOK
<1>7. CASE \E s \in Slots : ImportFull(s)
  <2> PICK s \in Slots : ImportFull(s)
    BY <1>7
  <2>1. op' \in [Slots -> Ops]
    BY DEF ImportFull, Executed, TypeOK, Ops
  <2> QED
    BY <2>1 DEF ImportFull, Executed, TypeOK
<1>8. CASE ImportDone
  <2>1. same' \in BOOLEAN
    BY <1>8 DEF ImportDone, TypeOK
  <2>2. CASE rval = "OK"
    BY <1>0, <1>8, <2>1, <2>2, FileDoneTyped DEF ImportDone
  <2>3. CASE rval # "OK"
    BY <1>0, <1>8, <2>1, <2>3 DEF ImportDone, NoLoop, TypeOK, Ops
  <2> QED
    BY <2>2, <2>3
<1> QED
  BY <1>1, <1>2, <1>3, <1>4, <1>5, <1>6, <1>7, <1>8 DEF ImportNext

LEMMA TypeInit == Init => TypeOK
<1> SUFFICES ASSUME Init PROVE TypeOK
  OBVIOUS
<1>1. dev \in [Ids -> DevRec]
  BY DEF Init, Unborn, DevRec, DevFlags
<1>2. fno \in Files /\ pc \in PCs
  BY FilesAssumption DEF Init, Files, PCs
<1> QED
  BY <1>1, <1>2, EmptyTyped DEF Init, TypeOK, Ops

LEMMA TypeStep == TypeOK /\ [Next]_vars => TypeOK'
<1> SUFFICES ASSUME TypeOK, [Next]_vars PROVE TypeOK'
  OBVIOUS
<1>1. CASE UNCHANGED vars
  BY <1>1 DEF vars, count, ctl, loop, TypeOK
<1> QED
  BY <1>1, UserTyped, FrameTyped, SyncTyped, ImportTyped DEF Next, Program

(* Spec keeps every variable to its type: no command, failure or kill      *)
(* leaves a record, a counter or a table that is not one.                  *)
THEOREM TypeCorrect == Spec => []TypeOK
  BY TypeInit, TypeStep, PTL DEF Spec

-----------------------------------------------------------------------------
(* Record-IDs.  UniqueIds alone is not inductive: write_frec puts an ID    *)
(* into a PIM record without looking at the others.  It cannot be in use   *)
(* there, because every ID in a PIM record was given by the IC35, and the  *)
(* IC35 gives none twice.                                                  *)

Born(d) == {id \in Ids : d[id].chg # "unborn"}

IdsOK(p, d) ==
  /\ UniqueIds(p)
  /\ \A s \in Slots : p[s].id # 0 => p[s].stat # "none" /\ p[s].id \in Born(d)

IdInv == TypeOK /\ IdsOK(pim, dev) /\ IdsOK(file, dev)

(* Other records in the IC35, none of them unborn again.                   *)
LEMMA IdsOKBorn ==
  ASSUME NEW p, NEW d, NEW e, IdsOK(p, d), Born(d) \subseteq Born(e)
  PROVE  IdsOK(p, e)
  BY DEF IdsOK

(* Records removed, or changed but for their record-ID.                    *)
LEMMA IdsOKSame ==
  ASSUME NEW p, NEW q, NEW d, IdsOK(p, d),
         \A s \in Slots : \/ q[s].id = 0
                          \/ q[s].id = p[s].id /\ (p[s].stat # "none" => q[s].stat # "none")
  PROVE  IdsOK(q, d)
  BY DEF IdsOK, UniqueIds

(* One record gets a record-ID that no other record has.                   *)
LEMMA IdsOKGiven ==
  ASSUME NEW p, NEW q, NEW d, IdsOK(p, d), NEW t \in Slots, NEW id \in Born(d),
         \A s \in Slots \ {t} : q[s] = p[s] /\ p[s].id # id,
         q[t].id = id, q[t].stat # "none"
  PROVE  IdsOK(q, d)
  BY DEF IdsOK, UniqueIds

(* The IC35 does not forget that it gave a record-ID.                      *)
LEMMA BornStays == TypeOK /\ [Next]_vars => Born(dev) \subseteq Born(dev')
<1> SUFFICES ASSUME TypeOK, [Next]_vars PROVE Born(dev) \subseteq Born(dev')
  OBVIOUS
<1>1. \A id : /\ Born(dev) \subseteq Born(DevDelete(id))
              /\ Born(dev) \subseteq Born(DevCommit(id))
              /\ \A d : Born(dev) \subseteq Born(DevPut(id, d))
  BY DEF TypeOK, DevDelete, DevCommit, DevPut, Born, Gone, Live
<1>2. CASE User
  <2>1. \A id, d : (DevCreates(id, d) \/ DevEdits(id, d)) => Born(dev) \subseteq Born(dev')
    BY DEF DevCreates, DevEdits, TypeOK, Born
  <2>2. \A id : DevDeletes(id) => Born(dev) \subseteq Born(dev')
    BY DEF DevDeletes, TypeOK, Born
  <2>3. \A s, d : PimCreates(s, d) \/ PimEdits(s, d) \/ PimRemoves(s) => UNCHANGED dev
    BY DEF PimCreates, PimEdits, PimRemoves
  <2> QED
    BY <1>2, <2>1, <2>2, <2>3 DEF User
<1>3. CASE SyncNext
  <2>1. CASE \E id \in Ids : Commit(id) \/ Delete(id)
    BY <1>1, <2>1 DEF Commit, Delete, AnswerLost
  <2>2. CASE \E s \in Slots : PushDeleted(s) \/ PushChanged(s) \/ PushNew(s)
    BY <1>1, <2>2 DEF PushDeleted, PushChanged, PushNew, AnswerLost
  <2>3. CASE UNCHANGED dev
    BY <2>3
  <2> QED
    BY <1>3, <2>1, <2>2, <2>3 DEF SyncNext, Phase0, Phase1, Phase2, Phase3, BeginExport,
       ExportRead, ExportDone, BeginSync, ModLen, ModRead, ModDone, CommitDone,
       PushNothing, PushDone, Len, IndexRead, IndexDone, DeleteDone, CallFails
<1>4. CASE ImportNext
  <2>1. CASE \E s \in Slots : ImportExec(s)
    BY <1>1, <2>1 DEF ImportExec, Effect
  <2>2. CASE UNCHANGED dev
    BY <2>2
  <2> QED
    BY <1>4, <2>1, <2>2 DEF ImportNext, BeginImport, ImportCallFails, ImportRead,
       ImportReadDone, ImportCompare, ImportFull, ImportDone
<1>5. CASE (\E c \in Commands : Start(c)) \/ WriteSysInfo \/ Finish \/ Crash
  BY <1>5 DEF Start, WriteSysInfo, Finish, Crash
<1> QED
  BY <1>2, <1>3, <1>4, <1>5 DEF Next, Program, vars

(* The PIM files are edited by the user and replaced by the program.       *)
LEMMA FileIdsKept == IdInv /\ [Next]_vars => IdsOK(file', dev)
<1> SUFFICES ASSUME IdInv, [Next]_vars PROVE IdsOK(file', dev)
  OBVIOUS
<1> USE DEF IdInv
<1>1. CASE UNCHANGED file
  BY <1>1
<1>2. CASE \E s \in Slots, d \in Data : PimCreates(s, d)
  <2>1. \A t \in Slots : file'[t] = file[t] \/ file'[t].id = 0
    BY <1>2 DEF PimCreates, TypeOK
  <2> QED
    BY <2>1, IdsOKSame
<1>3. CASE \E s \in Slots, d \in Data : PimEdits(s, d)
  <2> PICK s \in Slots, d \in Data : PimEdits(s, d)
    BY <1>3
  <2>1. \A t \in Slots : t # s => file'[t] = file[t]
    BY DEF PimEdits, TypeOK
  <2>2. file'[s].id = file[s].id /\ file'[s].stat # "none"
    BY DEF PimEdits, TypeOK, PimRec
  <2> QED
    BY <2>1, <2>2, IdsOKSame
<1>4. CASE \E s \in Slots : PimRemoves(s)
  <2> PICK s \in Slots : PimRemoves(s)
    BY <1>4
  <2>1. \A t \in Slots : t # s => file'[t] = file[t]
    BY DEF PimRemoves, TypeOK
  <2>2. file'[s].id = 0 \/ (file'[s].id = file[s].id /\ file'[s].stat # "none")
    <3>1. CASE PimMarksDeleted
      BY <3>1 DEF PimRemoves, TypeOK, PimRec
    <3>2. CASE ~PimMarksDeleted
      BY <3>2 DEF PimRemoves, NoPim, TypeOK
    <3> QED
      BY <3>1, <3>2
  <2> QED
    BY <2>1, <2>2, IdsOKSame
<1>5. CASE WriteSysInfo
  BY <1>5, IdsOKSame DEF WriteSysInfo, Stamped, TypeOK, PimRec
<1>6. CASE Finish
  BY <1>6 DEF Finish
<1>7. CASE Crash
  <2>1. CASE \E S \in SUBSET Slots :
               file' = [s \in Slots |-> IF s \in S THEN pim[s] ELSE NoPim]
    <3>1. \A s \in Slots : file'[s] = pim[s] \/ file'[s].id = 0
      BY <2>1 DEF NoPim
    <3> QED
      BY <3>1, IdsOKSame
  <2> QED
    BY <1>1, <1>7, <2>1 DEF Crash
<1>8. CASE SyncNext
  BY <1>1, <1>8 DEF SyncNext, Phase0, Phase1, Phase2, Phase3, BeginExport, ExportRead,
     ExportDone, BeginSync, ModLen, ModRead, ModDone, Commit, CommitDone, PushDeleted,
     PushNothing, PushChanged, PushNew, PushDone, Len, IndexRead, IndexDone, Delete,
     DeleteDone, CallFails, AnswerLost, GiveUp
<1>9. CASE ImportNext
  BY <1>1, <1>9 DEF ImportNext, BeginImport, ImportCallFails, ImportRead, ImportReadDone,
     ImportCompare, ImportExec, Executed, ImportFull, ImportDone, GiveUp
<1> QED
  BY <1>1, <1>2, <1>3, <1>4, <1>5, <1>6, <1>7, <1>8, <1>9
  DEF Next, Program, User, DevCreates, DevEdits, DevDeletes, Start, vars

(* vca_putic35rec keeps record-IDs apart: it looks for a record with the   *)
(* ID before it adds one.                                                  *)
LEMMA PutIds ==
  ASSUME IdInv, NEW id \in Born(dev), NEW s \in PutSlots(id), NEW d
  PROVE  IdsOK(Ic35ToPim(s, id, d), dev)
<1> DEFINE q == Ic35ToPim(s, id, d)
<1>1. s \in Slots /\ id # 0
  BY IdsAssumption DEF PutSlots, ByID, FirstFree, FreeSlots, Born
<1>2. \A t \in Slots : t # s => q[t] = pim[t] /\ pim[t].id # id
  <2> SUFFICES ASSUME NEW t \in Slots, t # s, pim[t].id = id PROVE FALSE
    BY <1>1 DEF Ic35ToPim, IdInv, TypeOK
  <2>1. t \in ByID(id)
    BY <1>1 DEF ByID, Present, IdInv, IdsOK
  <2>2. s \in ByID(id)
    BY <2>1 DEF PutSlots
  <2> QED
    BY <1>1, <2>2 DEF ByID, IdInv, IdsOK, UniqueIds
<1>3. q[s].id = id /\ q[s].stat = "clean"
  BY <1>1 DEF Ic35ToPim, IdInv, TypeOK
<1> QED
  BY <1>1, <1>2, <1>3, IdsOKGiven DEF IdInv

(* The PIM records in memory are changed by the commands only.             *)
LEMMA PimIds == IdInv /\ [Next]_vars => IdsOK(pim', dev')
<1> SUFFICES ASSUME IdInv, [Next]_vars PROVE IdsOK(pim', dev')
  OBVIOUS
<1> USE DEF IdInv
<1>0. Born(dev) \subseteq Born(dev')
  BY BornStays
<1>1. CASE IdsOK(pim', dev)
  BY <1>0, <1>1, IdsOKBorn
<1>2. CASE UNCHANGED pim
  BY <1>1, <1>2
<1>3. CASE \E c \in Commands : Start(c)
  BY <1>1, <1>3 DEF Start
<1>4. CASE WriteSysInfo
  <2>1. \A s \in Slots : pim'[s].id = pim[s].id /\ pim'[s].stat = pim[s].stat
    BY <1>4 DEF WriteSysInfo, Stamped, TypeOK, PimRec
  <2> QED
    BY <1>1, <2>1, IdsOKSame
<1>5. CASE Finish \/ Crash
  <2>1. \A s \in Slots : pim'[s].id = 0
    BY <1>5 DEF Finish, Crash, EmptyPim, NoPim
  <2> QED
    BY <1>1, <2>1, IdsOKSame
<1>6. CASE \E id \in Ids : ExportRead(id) \/ ModRead(id)
  <2> PICK id \in Ids : ExportRead(id) \/ ModRead(id)
    BY <1>6
  <2>1. CASE /\ Live(dev[id])
             /\ \E s \in PutSlots(id) : pim' = Ic35ToPim(s, id, dev[id].data)
    <3>1. id \in Born(dev)
      BY <2>1 DEF Live, Born
    <3> QED
      BY <1>1, <2>1, <3>1, PutIds
  <2>2. CASE \E s \in ByID(id) : pim' = PimDelete(s)
    <3>1. \A s \in Slots : pim'[s] = pim[s] \/ pim'[s].id = 0
      BY <2>2 DEF PimDelete, NoPim, ByID, TypeOK
    <3> QED
      BY <1>1, <3>1, IdsOKSame
  <2> QED
    BY <1>2, <2>1, <2>2 DEF ExportRead, ModRead, Received, IsIndex, LiveIds
<1>7. CASE \E s \in Slots : pim' = PimDelete(s)
  <2>1. \A s \in Slots : pim'[s] = pim[s] \/ pim'[s].id = 0
    BY <1>7 DEF PimDelete, NoPim, TypeOK
  <2> QED
    BY <1>1, <2>1, IdsOKSame
<1>8. CASE \E s \in Slots : pim' = PimClean(s, pim[s].id)
  <2>1. \A s \in Slots : pim'[s].id = pim[s].id
                         /\ (pim[s].stat # "none" => pim'[s].stat # "none")
    BY <1>8 DEF PimClean, TypeOK, PimRec
  <2> QED
    BY <1>1, <2>1, IdsOKSame
<1>9. CASE \E s \in Slots, id \in FreshIds(fno) :
             pim' = PimClean(s, id) /\ dev' = DevPut(id, pim[s].data)
  <2> PICK s \in Slots, id \in FreshIds(fno) :
             pim' = PimClean(s, id) /\ dev' = DevPut(id, pim[s].data)
    BY <1>9
  <2>1. id \in Ids /\ id \notin Born(dev) /\ id \in Born(dev')
    BY DEF FreshIds, Born, DevPut, TypeOK
  <2>2. \A t \in Slots : pim[t].id # id
    BY <2>1, IdsAssumption DEF IdsOK
  <2>3. pim'[s].id = id /\ pim'[s].stat = "clean"
    BY DEF PimClean, TypeOK, PimRec
  <2>4. \A t \in Slots \ {s} : pim'[t] = pim[t]
    BY DEF PimClean, TypeOK
  <2>5. IdsOK(pim, dev')
    BY <1>0, IdsOKBorn
  <2> QED
    BY <2>1, <2>2, <2>3, <2>4, <2>5, IdsOKGiven
<1>10. CASE User
  BY <1>2, <1>10 DEF User, UserEdits, DevCreates, DevEdits, DevDeletes, PimCreates,
     PimEdits, PimRemoves
<1>11. CASE SyncNext
  <2>1. CASE \E s \in Slots : PushDeleted(s) \/ PushChanged(s) \/ PushNew(s)
    BY <1>2, <1>7, <1>8, <1>9, <2>1
    DEF PushDeleted, PushChanged, PushNew, AnswerLost, GiveUp
  <2>2. CASE UNCHANGED pim
    BY <1>2, <2>2
  <2> QED
    BY <1>6, <1>11, <2>1, <2>2 DEF SyncNext, Phase0, Phase1, Phase2, Phase3, BeginExport,
       ExportDone, BeginSync, ModLen, ModDone, Commit, CommitDone, PushNothing, PushDone,
       Len, IndexRead, IndexDone, Delete, DeleteDone, CallFails, AnswerLost, GiveUp
<1>12. CASE ImportNext
  <2>1. CASE \E s \in Slots : ImportExec(s)
    <3> PICK s \in Slots : ImportExec(s)
      BY <2>1
    <3>1. CASE UNCHANGED pim
      BY <1>2, <3>1
    <3>2. CASE op[s] = "write" /\ ~UNCHANGED pim
      <4>1. PICK id \in FreshIds(fno) : dev' = Effect(s, id) /\ pim' = PimClean(s, id)
        BY <3>2 DEF ImportExec
      <4> QED
        BY <1>9, <3>2, <4>1 DEF Effect
    <3>3. CASE op[s] # "write" /\ ~UNCHANGED pim
      BY <1>8, <3>3 DEF ImportExec
    <3> QED
      BY <3>1, <3>2, <3>3
  <2>2. CASE UNCHANGED pim
    BY <1>2, <2>2
  <2> QED
    BY <1>12, <2>1, <2>2 DEF ImportNext, BeginImport, ImportCallFails, ImportRead,
       ImportReadDone, ImportCompare, ImportFull, ImportDone, GiveUp
<1> QED
  BY <1>2, <1>3, <1>4, <1>5, <1>10, <1>11, <1>12 DEF Next, Program, vars

(* IdInv holds throughout.                                                 *)
LEMMA IdInvariant == Spec => []IdInv
<1>1. Init => IdInv
  <2> SUFFICES ASSUME Init PROVE IdInv
    OBVIOUS
  <2>1. \A s \in Slots : pim[s].id = 0 /\ file[s].id = 0
    BY DEF Init, EmptyPim, NoPim
  <2> QED
    BY <2>1, TypeInit DEF IdInv, IdsOK, UniqueIds
<1>2. IdInv /\ [Next]_vars => IdInv'
  <2> SUFFICES ASSUME IdInv, [Next]_vars PROVE IdInv'
    OBVIOUS
  <2>1. TypeOK'
    BY TypeStep DEF IdInv
  <2>2. IdsOK(file', dev')
    BY FileIdsKept, BornStays, IdsOKBorn DEF IdInv
  <2>3. IdsOK(pim', dev')
    BY PimIds
  <2> QED
    BY <2>1, <2>2, <2>3 DEF IdInv
<1> QED
  BY <1>1, <1>2, PTL DEF Spec

(* No record-ID is in two PIM records, in memory or on disk, whatever runs *)
(* were cut short by failures and kills before.                            *)
THEOREM IdsUnique == Spec => []PimIdsUnique
<1>1. IdInv => PimIdsUnique
  BY DEF IdInv, IdsOK, PimIdsUnique
<1> QED
  BY <1>1, IdInvariant, PTL

-----------------------------------------------------------------------------
(* Phase 1.  The record-IDs to commit are collected while the PIM records  *)
(* change; each record stays mirrored because the record-IDs in the PIM    *)
(* records are unique, so that no other record is put in its place.        *)

TabClear ==
  pc \notin {"mod", "commit", "index", "delete", "impread", "impcmp", "impexec"}
    => tab = {}
TabMirrored == pc \in {"mod", "commit"} => \A id \in tab : Mirrored(id)

MirrorInv == IdInv /\ TabClear /\ TabMirrored

(* The record table is empty between the loops.                            *)
LEMMA TabClearStep == TabClear /\ [Next]_vars => TabClear'
<1> SUFFICES ASSUME TabClear, [Next]_vars PROVE TabClear'
  OBVIOUS
<1> USE DEF TabClear, NoLoop, GiveUp, FileDone, StartLoop, loop
<1>1. CASE UNCHANGED vars
  BY <1>1 DEF vars
<1>2. CASE User
  BY <1>2 DEF User, UserEdits, DevCreates, DevEdits, DevDeletes, PimCreates, PimEdits,
     PimRemoves
<1>3. CASE (\E c \in Commands : Start(c)) \/ WriteSysInfo \/ Finish \/ Crash
  BY <1>3 DEF Start, WriteSysInfo, Finish, Crash
<1>4. CASE Phase0
  BY <1>4 DEF Phase0, BeginExport, ExportRead, ExportDone
<1>5. CASE Phase1
  BY <1>5 DEF Phase1, BeginSync, ModLen, ModRead, ModDone, Commit, CommitDone, AnswerLost
<1>6. CASE Phase2
  BY <1>6 DEF Phase2, PushDeleted, PushNothing, PushChanged, PushNew, PushDone, Visited,
     VisitedFreed, AnswerLost
<1>7. CASE Phase3
  BY <1>7 DEF Phase3, Len, IndexRead, IndexDone, Delete, DeleteDone, AnswerLost
<1>8. CASE CallFails
  BY <1>8 DEF CallFails
<1>9. CASE ImportNext
  BY <1>9 DEF ImportNext, BeginImport, ImportCallFails, ImportRead, ImportReadDone,
     ImportCompare, ImportExec, Executed, ImportFull, ImportDone
<1> QED
  BY <1>1, <1>2, <1>3, <1>4, <1>5, <1>6, <1>7, <1>8, <1>9 DEF Next, Program, SyncNext

(* Reading a modified record leaves those noted before as they were.       *)
LEMMA ModReadMirrored ==
  ASSUME MirrorInv, NEW id \in Ids, ModRead(id)
  PROVE  \A j \in tab' : Mirrored(j)'
<1> USE DEF MirrorInv, IdInv
<1>0. UNCHANGED dev /\ id # 0 /\ tab \subseteq Ids
  BY IdsAssumption DEF ModRead, TypeOK
<1>1. \A j \in Ids : \A s \in ByID(j) : s \in Slots /\ pim[s].id = j /\ j # 0
  BY IdsAssumption DEF ByID
<1>2. \A j \in tab : Mirrored(j)
  BY DEF ModRead, TabMirrored
<1>3. CASE ~NoConflict(id)
  BY <1>0, <1>2, <1>3 DEF ModRead, Mirrored, ByID, Present
<1>4. CASE NoConflict(id) /\ Live(dev[id])
  <2> PICK s \in PutSlots(id) : pim' = Ic35ToPim(s, id, dev[id].data)
    BY <1>4 DEF ModRead, Received
  <2>1. s \in Slots /\ (s \in ByID(id) \/ ~Present(pim, s))
    BY DEF PutSlots, ByID, FirstFree, FreeSlots
  <2>2. /\ pim'[s].id = id /\ pim'[s].data = dev[id].data /\ Present(pim', s)
        /\ \A t \in Slots : t # s => pim'[t] = pim[t]
    BY <2>1 DEF Ic35ToPim, TypeOK, Present
  <2>3. Mirrored(id)'
    BY <1>0, <1>4, <2>1, <2>2 DEF Mirrored, ByID
  <2>4. ASSUME NEW j \in tab, j # id PROVE Mirrored(j)'
    <3>1. s \notin ByID(j)
      BY <1>0, <1>1, <2>1, <2>4 DEF ByID
    <3>2. ByID(j)' = ByID(j)
      BY <2>1, <2>2, <2>4, <3>1 DEF ByID, Present
    <3>3. \A t \in ByID(j) : pim'[t] = pim[t]
      BY <2>2, <3>1 DEF ByID
    <3> QED
      BY <1>0, <1>2, <3>2, <3>3 DEF Mirrored
  <2> QED
    BY <1>4, <2>3, <2>4 DEF ModRead
<1>5. CASE NoConflict(id) /\ ~Live(dev[id])
  <2>1. \/ ByID(id) = {} /\ pim' = pim
        \/ \E s \in ByID(id) : pim' = PimDelete(s)
    BY <1>5 DEF ModRead, Received
  <2>2. Mirrored(id)'
    <3>1. ASSUME NEW t \in ByID(id)' PROVE FALSE
      <4>1. t \in Slots /\ pim'[t].id = id /\ pim'[t].stat # "none"
        BY DEF ByID, Present
      <4>2. pim'[t] = pim[t]
        BY <2>1, <4>1 DEF PimDelete, NoPim, TypeOK, ByID
      <4>3. t \in ByID(id)
        BY <4>1, <4>2 DEF ByID, Present
      <4>4. PICK s \in ByID(id) : pim' = PimDelete(s)
        BY <2>1, <4>3
      <4>5. s = t
        BY <1>0, <1>1, <4>3 DEF IdsOK, UniqueIds
      <4> QED
        BY <4>1, <4>4, <4>5 DEF PimDelete, NoPim, TypeOK
    <3> QED
      BY <1>0, <1>5, <3>1 DEF Mirrored
  <2>3. ASSUME NEW j \in tab, j # id PROVE Mirrored(j)'
    <3>1. \A t \in Slots : pim[t].id = j => pim'[t] = pim[t]
      BY <1>1, <2>1, <2>3 DEF PimDelete, TypeOK
    <3>2. \A t \in Slots : pim'[t] = pim[t] \/ pim'[t].stat = "none"
      BY <1>1, <2>1 DEF PimDelete, NoPim, TypeOK
    <3>3. ByID(j)' = ByID(j)
      BY <3>1, <3>2 DEF ByID, Present
    <3> QED
      BY <1>0, <1>1, <1>2, <3>1, <3>3 DEF Mirrored
  <2> QED
    BY <1>5, <2>2, <2>3 DEF ModRead
<1> QED
  BY <1>3, <1>4, <1>5

LEMMA TabMirroredStep == MirrorInv /\ [Next]_vars => TabMirrored'
<1> SUFFICES ASSUME MirrorInv, [Next]_vars, pc' \in {"mod", "commit"}
             PROVE  \A id \in tab' : Mirrored(id)'
  BY DEF TabMirrored
<1> USE DEF MirrorInv, IdInv
<1>1. CASE UNCHANGED vars
  BY <1>1 DEF vars, loop, TabMirrored, Mirrored, ByID, Present
<1>2. CASE ModLen
  BY <1>2 DEF ModLen, TabClear
<1>3. CASE \E id \in Ids : ModRead(id)
  BY <1>3, ModReadMirrored
<1>4. CASE ModDone
  BY <1>4 DEF ModDone, TabMirrored, Mirrored, ByID, Present, loop
<1>5. CASE \E id \in Ids : Commit(id)
  <2> PICK id \in Ids : Commit(id)
    BY <1>5
  <2>1. dev' = DevCommit(id) /\ UNCHANGED pim /\ tab' \subseteq tab
    BY DEF Commit, AnswerLost, GiveUp
  <2>2. \A j \in Ids : Live(dev'[j]) = Live(dev[j]) /\ (Live(dev[j]) => dev'[j].data = dev[j].data)
    BY <2>1 DEF DevCommit, Live, Gone, TypeOK, DevRec
  <2>3. \A j \in tab' : Mirrored(j) /\ j \in Ids
    BY <2>1 DEF Commit, TabMirrored, TypeOK
  <2> QED
    BY <2>1, <2>2, <2>3 DEF Mirrored, ByID, Present
<1>6. ~(User \/ (\E c \in Commands : Start(c)) \/ WriteSysInfo \/ Finish \/ Crash)
  BY DEF User, UserEdits, DevCreates, DevEdits, DevDeletes, PimCreates, PimEdits,
     PimRemoves, Start, WriteSysInfo, Finish, Crash
<1>7. ~(Phase0 \/ Phase2 \/ Phase3 \/ CallFails \/ BeginSync \/ CommitDone)
  BY DEF Phase0, BeginExport, ExportRead, ExportDone, FileDone, Phase2, PushDeleted,
     PushNothing, PushChanged, PushNew, PushDone, AnswerLost, GiveUp, Phase3, Len,
     IndexRead, IndexDone, Delete, DeleteDone, CallFails, BeginSync, CommitDone
<1>8. ~ImportNext
  BY DEF ImportNext, BeginImport, ImportCallFails, ImportRead, ImportReadDone,
     ImportCompare, ImportExec, Executed, ImportFull, ImportDone, FileDone, GiveUp
<1> QED
  BY <1>1, <1>2, <1>3, <1>4, <1>5, <1>6, <1>7, <1>8 DEF Next, Program, SyncNext, Phase1

(* The IC35 is told to forget a change only when the PIM records hold it.  *)
THEOREM CommitsMirrored == Spec => []CommitMirrored
<1>1. Init => TabClear /\ TabMirrored
  BY DEF Init, TabClear, TabMirrored
<1>2. IdInv /\ TabClear /\ TabMirrored /\ [Next]_vars => (TabClear /\ TabMirrored)'
  BY TabClearStep, TabMirroredStep DEF MirrorInv
<1>3. TabMirrored => CommitMirrored
  BY DEF TabMirrored, CommitMirrored
<1> QED
  BY <1>1, <1>2, <1>3, IdInvariant, PTL DEF Spec

-----------------------------------------------------------------------------
(* Phase 3.  A record on the IC35 that the PIM records do not hold is one  *)
(* without change mark: phase 1a has seen all records with one, and each   *)
(* of them it left in a PIM record, or found there.                        *)

Known(id) == Live(dev[id]) /\ Changed(dev[id]) => ByID(id) # {}
ChangesCounted == pc = "mod" => irec + Cardinality(mleft) = nrec
ChangesKnown ==
  /\ pc = "mod" => \A id \in Ids : IdFile[id] = fno /\ id \notin mleft => Known(id)
  /\ pc \in {"commit", "update", "len", "index", "delete"} =>
       \A id \in Ids : IdFile[id] = fno => Known(id)

SettleInv == ChangesCounted /\ ChangesKnown /\ DeleteSettled

(* The steps that leave the sync of a file, or are no part of it.          *)
LEMMA OutsideSync ==
  ASSUME User \/ (\E c \in Commands : Start(c)) \/ WriteSysInfo \/ Finish \/ Crash
         \/ Phase0 \/ BeginSync \/ DeleteDone \/ CallFails \/ ImportNext
  PROVE  pc' \notin {"mod", "commit", "update", "len", "index", "delete"}
<1> USE DEF GiveUp, FileDone
<1>1. CASE User
  BY <1>1 DEF User, UserEdits, DevCreates, DevEdits, DevDeletes, PimCreates, PimEdits,
     PimRemoves
<1>2. CASE (\E c \in Commands : Start(c)) \/ WriteSysInfo \/ Finish \/ Crash
  BY <1>2 DEF Start, WriteSysInfo, Finish, Crash
<1>3. CASE Phase0 \/ BeginSync \/ DeleteDone \/ CallFails
  BY <1>3 DEF Phase0, BeginExport, ExportRead, ExportDone, BeginSync, DeleteDone, CallFails
<1>4. CASE ImportNext
  BY <1>4 DEF ImportNext, BeginImport, ImportCallFails, ImportRead, ImportReadDone,
     ImportCompare, ImportExec, Executed, ImportFull, ImportDone
<1> QED
  BY <1>1, <1>2, <1>3, <1>4

(* A record known before stays known when other PIM records change.        *)
LEMMA KnownStays ==
  ASSUME NEW id \in Ids, Known(id), dev'[id] = dev[id],
         \A t \in Slots : pim[t].id = id /\ Present(pim, t) =>
           pim'[t].id = id /\ Present(pim', t)
  PROVE  Known(id)'
  BY DEF Known, ByID

LEMMA ModReadSettles ==
  ASSUME IdInv, SettleInv, NEW id \in Ids, ModRead(id)
  PROVE  SettleInv'
<1> USE DEF IdInv, SettleInv
<1>0. /\ UNCHANGED <<dev, fno, nrec>> /\ pc = "mod" /\ pc' = "mod"
      /\ id \in mleft /\ mleft' = mleft \ {id} /\ irec' = irec + 1
      /\ id # 0
  BY IdsAssumption DEF ModRead, ctl
<1>1. ChangesCounted'
  <2>1. IsFiniteSet(mleft) /\ irec \in Nat /\ nrec \in Nat
    BY IdsAssumption, FS_Subset DEF TypeOK
  <2>2. Cardinality(mleft') = Cardinality(mleft) - 1 /\ Cardinality(mleft) \in Nat
    BY <1>0, <2>1, FS_RemoveElement, FS_CardinalityType
  <2> QED
    BY <1>0, <2>1, <2>2 DEF ChangesCounted
<1>2. \A t \in Slots : pim'[t] = pim[t] \/ pim[t].id = id \/ ~Present(pim, t)
  <2>1. \/ pim' = pim
        \/ \E s \in PutSlots(id) : pim' = Ic35ToPim(s, id, dev[id].data)
        \/ \E s \in ByID(id) : pim' = PimDelete(s)
    BY DEF ModRead, Received
  <2>2. \A s \in PutSlots(id) : s \in Slots /\ (s \in ByID(id) \/ ~Present(pim, s))
    BY DEF PutSlots, ByID, FirstFree, FreeSlots
  <2> QED
    BY <2>1, <2>2 DEF Ic35ToPim, PimDelete, ByID, TypeOK
<1>3. ASSUME NEW j \in Ids, j # id, IdFile[j] = fno, j \notin mleft
      PROVE  Known(j)'
  <2>1. Known(j)
    BY <1>0, <1>3 DEF ChangesKnown
  <2> QED
    BY <1>0, <1>2, <1>3, <2>1, KnownStays DEF Present
<1>4. Known(id)'
  <2>1. CASE ~NoConflict(id)
    <3>1. UNCHANGED pim /\ ByID(id) # {}
      BY <2>1 DEF ModRead, NoConflict
    <3> QED
      BY <3>1 DEF Known, ByID, Present
  <2>2. CASE NoConflict(id) /\ Live(dev[id])
    <3> PICK s \in PutSlots(id) : pim' = Ic35ToPim(s, id, dev[id].data)
      BY <2>2 DEF ModRead, Received
    <3>1. s \in Slots
      BY DEF PutSlots, ByID, FirstFree, FreeSlots
    <3>2. pim'[s].id = id /\ Present(pim', s)
      BY <3>1 DEF Ic35ToPim, TypeOK, Present
    <3> QED
      BY <3>1, <3>2 DEF Known, ByID
  <2>3. CASE ~Live(dev[id])
    BY <1>0, <2>3 DEF Known
  <2> QED
    BY <2>1, <2>2, <2>3
<1>5. ChangesKnown'
  BY <1>0, <1>3, <1>4 DEF ChangesKnown
<1>6. DeleteSettled'
  BY <1>0 DEF DeleteSettled
<1> QED
  BY <1>1, <1>5, <1>6

(* Phase 2 changes no record known on both sides but the one it pushes,    *)
(* which loses its change mark.                                            *)
LEMMA PushSettles ==
  ASSUME IdInv, SettleInv, pc = "update", pc' = "update", fno' = fno,
         NEW s \in Slots, NEW id \in Ids,
         dev' = DevDelete(id) \/ \E d \in Data \cup {NoData} : dev' = DevPut(id, d),
         \A t \in Slots : t # s => pim'[t] = pim[t],
         pim[s].id \in {0, id}
  PROVE  SettleInv'
<1> USE DEF IdInv, SettleInv
<1>1. ~Changed(dev'[id])
  BY DEF DevDelete, DevPut, Gone, Changed, TypeOK
<1>2. \A j \in Ids : j # id => dev'[j] = dev[j]
  BY DEF DevDelete, DevPut, TypeOK
<1>3. ASSUME NEW j \in Ids, IdFile[j] = fno PROVE Known(j)'
  <2>1. CASE j = id
    BY <1>1, <2>1 DEF Known
  <2>2. CASE j # id
    <3>1. Known(j) /\ j # 0
      BY <1>3, IdsAssumption DEF ChangesKnown
    <3> QED
      BY <1>2, <2>2, <3>1, KnownStays DEF Present
  <2> QED
    BY <2>1, <2>2
<1> QED
  BY <1>3 DEF ChangesCounted, ChangesKnown, DeleteSettled

LEMMA SettleStep ==
  IdInv /\ TabClear /\ SettleInv /\ [Next]_vars => SettleInv'
<1> SUFFICES ASSUME IdInv, TabClear, SettleInv, [Next]_vars PROVE SettleInv'
  OBVIOUS
<1> USE DEF IdInv
<1>0. ASSUME pc' \notin {"mod", "commit", "update", "len", "index", "delete"}
      PROVE  SettleInv'
  BY <1>0 DEF SettleInv, ChangesCounted, ChangesKnown, DeleteSettled
(* a step that changes neither the records nor the table, nor starts to    *)
(* count                                                                   *)
<1>1. ASSUME UNCHANGED <<dev, pim, fno>>, pc' # "mod",
             pc \in {"commit", "update", "len", "index", "delete"},
             pc' \in {"index", "delete"} => tab' = tab /\ pc \in {"index", "delete"}
      PROVE  SettleInv'
  BY <1>1 DEF SettleInv, ChangesCounted, ChangesKnown, DeleteSettled, Known, ByID, Present
<1>2. CASE UNCHANGED vars
  BY <1>2 DEF vars, ctl, loop, SettleInv, ChangesCounted, ChangesKnown, DeleteSettled,
     Known, ByID, Present
<1>3. CASE User \/ (\E c \in Commands : Start(c)) \/ WriteSysInfo \/ Finish \/ Crash
           \/ Phase0 \/ BeginSync \/ DeleteDone \/ CallFails \/ ImportNext
  BY <1>0, <1>3, OutsideSync
<1>4. CASE ModLen
  <2>1. pc' = "mod" /\ mleft' = ChangedIds(fno) /\ fno' = fno
        /\ UNCHANGED <<dev, pim>>
    BY <1>4 DEF ModLen, ctl
  <2>2. irec' = 0 /\ nrec' = Cardinality(mleft')
    BY <1>4 DEF ModLen
  <2>3. ChangesCounted'
    BY <2>1, <2>2, CountsTyped DEF ChangesCounted
  <2>4. ChangesKnown'
    BY <2>1 DEF ChangesKnown, Known, ChangedIds
  <2> QED
    BY <2>1, <2>3, <2>4 DEF SettleInv, DeleteSettled
<1>5. CASE \E id \in Ids : ModRead(id)
  BY <1>5, ModReadSettles
<1>6. CASE ModDone
  <2>1. /\ pc = "mod" /\ pc' = "commit" /\ irec = nrec
        /\ UNCHANGED <<dev, pim, fno>>
    BY <1>6 DEF ModDone, ctl
  <2>2. mleft = {}
    <3>1. IsFiniteSet(mleft) /\ irec \in Nat
      BY IdsAssumption, FS_Subset DEF TypeOK
    <3>2. Cardinality(mleft) = 0
      BY <2>1, <3>1, FS_CardinalityType DEF SettleInv, ChangesCounted
    <3> QED
      BY <3>1, <3>2, FS_EmptySet
  <2> QED
    BY <2>1, <2>2 DEF SettleInv, ChangesCounted, ChangesKnown, DeleteSettled, Known, ByID,
       Present
<1>7. CASE \E id \in Ids : Commit(id)
  <2> PICK id \in Ids : Commit(id)
    BY <1>7
  <2>1. CASE pc' = "finish"
    BY <1>0, <2>1
  <2>2. CASE /\ dev' = DevCommit(id) /\ UNCHANGED <<pim, pc, fno>> /\ pc = "commit"
    <3>1. \A j \in Ids : Live(dev'[j]) /\ Changed(dev'[j]) => Live(dev[j]) /\ Changed(dev[j])
      BY <2>2 DEF DevCommit, Live, Changed, Gone, TypeOK, DevRec
    <3> QED
      BY <2>2, <3>1 DEF SettleInv, ChangesCounted, ChangesKnown, DeleteSettled, Known,
         ByID, Present
  <2> QED
    BY <2>1, <2>2 DEF Commit, AnswerLost, GiveUp, ctl
<1>8. CASE CommitDone
  BY <1>0, <1>1, <1>8 DEF CommitDone, FileDone
<1>9. CASE \E s \in Slots : PushDeleted(s)
  <2> PICK s \in Slots : PushDeleted(s)
    BY <1>9
  <2>1. CASE pc' = "finish"
    BY <1>0, <2>1
  <2>2. CASE /\ dev' = DevDelete(pim[s].id) /\ pim' = PimDelete(s)
             /\ UNCHANGED <<pc, fno>> /\ pc = "update" /\ pim[s].id \in Ids
    BY <2>2, PushSettles DEF PimDelete, TypeOK
  <2>3. pim[s].id \in Ids
    BY DEF PushDeleted, TypeOK, PimRec
  <2> QED
    BY <2>1, <2>2, <2>3 DEF PushDeleted, AnswerLost, GiveUp, ctl
<1>10. CASE \E s \in Slots : PushNothing(s)
  BY <1>1, <1>10 DEF PushNothing, ctl
<1>11. CASE \E s \in Slots : PushChanged(s) \/ PushNew(s)
  <2> PICK s \in Slots : PushChanged(s) \/ PushNew(s)
    BY <1>11
  <2>0. pim[s].data \in Data \cup {NoData}
    BY DEF TypeOK, PimRec
  <2>1. CASE pc' = "finish"
    BY <1>0, <2>1
  <2>2. CASE \E id \in Ids :
               /\ dev' = DevPut(id, pim[s].data) /\ pim' = PimClean(s, id)
               /\ UNCHANGED <<pc, fno>> /\ pc = "update" /\ pim[s].id \in {0, id}
    BY <2>0, <2>2, PushSettles DEF PimClean, TypeOK
  <2>3. CASE PushChanged(s)
    <3>1. pim[s].id \in Ids
      BY <2>3 DEF PushChanged, TypeOK, PimRec
    <3> QED
      BY <2>1, <2>2, <2>3, <3>1 DEF PushChanged, AnswerLost, GiveUp, ctl
  <2>4. CASE PushNew(s)
    BY <2>1, <2>2, <2>4 DEF PushNew, FreshIds, AnswerLost, GiveUp, ctl
  <2> QED
    BY <2>3, <2>4
<1>12. CASE PushDone
  BY <1>1, <1>12 DEF PushDone, ctl
<1>13. CASE Len
  <2>1. /\ pc = "len" /\ pc' = "index" /\ tab' = {}
        /\ UNCHANGED <<dev, pim, fno>>
    BY <1>13 DEF Len, StartLoop, TabClear, ctl
  <2> QED
    BY <2>1 DEF SettleInv, ChangesCounted, ChangesKnown, DeleteSettled, Known, ByID, Present
<1>14. CASE \E id \in Ids : IndexRead(id)
  <2> PICK id \in Ids : IndexRead(id)
    BY <1>14
  <2>1. /\ pc = "index" /\ pc' = "index" /\ UNCHANGED <<dev, pim, fno>>
        /\ IdFile[id] = fno /\ Live(dev[id])
        /\ tab' = IF ByID(id) = {} THEN tab \cup {id} ELSE tab
    BY DEF IndexRead, IsIndex, LiveIds, ctl
  <2>2. ByID(id) = {} => dev[id].chg = "clean"
    BY <2>1 DEF SettleInv, ChangesKnown, Known, Live, Changed
  <2> QED
    BY <2>1, <2>2 DEF SettleInv, ChangesCounted, ChangesKnown, DeleteSettled, Known, ByID,
       Present
<1>15. CASE IndexDone
  BY <1>1, <1>15 DEF IndexDone, ctl, loop
<1>16. CASE \E id \in Ids : Delete(id)
  <2> PICK id \in Ids : Delete(id)
    BY <1>16
  <2>1. CASE pc' = "finish"
    BY <1>0, <2>1
  <2>2. CASE /\ dev' = DevDelete(id) /\ tab' = tab \ {id}
             /\ UNCHANGED <<pim, pc, fno>> /\ pc = "delete"
    <3>1. ~Changed(dev'[id]) /\ \A j \in Ids : j # id => dev'[j] = dev[j]
      BY <2>2 DEF DevDelete, Gone, Changed, TypeOK
    <3>2. tab \subseteq Ids
      BY DEF TypeOK
    <3> QED
      BY <2>2, <3>1, <3>2 DEF SettleInv, ChangesCounted, ChangesKnown, DeleteSettled,
         Known, ByID, Present
  <2> QED
    BY <2>1, <2>2 DEF Delete, AnswerLost, GiveUp, ctl
<1> QED
  BY <1>2, <1>3, <1>4, <1>5, <1>6, <1>7, <1>8, <1>9, <1>10, <1>11, <1>12, <1>13, <1>14,
     <1>15, <1>16 DEF Next, Program, SyncNext, Phase1, Phase2, Phase3

(* Phase 3 deletes no record with a change the PIM records do not hold:    *)
(* the check ic35sync.c misses at lines 485 and 709 is not needed.         *)
THEOREM DeletesSettled == Spec => []DeleteSettled
<1>1. Init => TabClear /\ SettleInv
  BY DEF Init, TabClear, SettleInv, ChangesCounted, ChangesKnown, DeleteSettled
<1>2. IdInv /\ TabClear /\ SettleInv /\ [Next]_vars => (TabClear /\ SettleInv)'
  BY TabClearStep, SettleStep
<1>3. SettleInv => DeleteSettled
  BY DEF SettleInv
<1> QED
  BY <1>1, <1>2, <1>3, IdInvariant, PTL DEF Spec

-----------------------------------------------------------------------------
(* Phase 2.  Without marks of deletion, no record is freed under the       *)
(* iterator, and every modified record is visited.                         *)

NoMarks(p) == \A s \in Slots : p[s].stat # "del"

Pushed(s) == pim[s].id # 0 /\ (Live(dev[pim[s].id]) => pim[s].data = dev[pim[s].id].data)
PushInv ==
  pc \in {"update", "len"} =>
    \A s \in PimOf(fno) : RecStat(s) = "dirty" => (pc = "update" /\ s \in todo) \/ Pushed(s)

(* Nothing in a run marks a record deleted.                                *)
LEMMA NoMarksStep ==
  ASSUME PimMarksDeleted = FALSE, TypeOK, NoMarks(pim), NoMarks(file), [Next]_vars
  PROVE  NoMarks(pim)' /\ NoMarks(file)'
<1> USE DEF TypeOK, GiveUp, AnswerLost
<1>0. NoMarks(EmptyPim) /\ NoPim.stat # "del"
  BY DEF NoMarks, EmptyPim, NoPim
<1>1. \A s \in Slots : \A id, d :
        NoMarks(Ic35ToPim(s, id, d)) /\ NoMarks(PimDelete(s)) /\ NoMarks(PimClean(s, id))
  BY <1>0 DEF NoMarks, Ic35ToPim, PimDelete, PimClean, PimRec
<1>2. CASE UNCHANGED <<pim, file>>
  BY <1>2 DEF NoMarks
<1>3. CASE UNCHANGED vars
  BY <1>2, <1>3 DEF vars
<1>4. CASE User
  <2>1. CASE \E id \in Ids, d \in Data : DevCreates(id, d) \/ DevEdits(id, d)
    BY <1>2, <2>1 DEF DevCreates, DevEdits, UserEdits
  <2>2. CASE \E id \in Ids : DevDeletes(id)
    BY <1>2, <2>2 DEF DevDeletes, UserEdits
  <2>3. CASE \E s \in Slots, d \in Data : PimCreates(s, d)
    BY <2>3 DEF PimCreates, UserEdits, NoMarks
  <2>4. CASE \E s \in Slots, d \in Data : PimEdits(s, d)
    <3> PICK s \in Slots, d \in Data : PimEdits(s, d)
      BY <2>4
    <3>1. \A t \in Slots : t # s => file'[t] = file[t]
      BY DEF PimEdits
    <3>2. file'[s].stat # "del"
      BY DEF PimEdits, PimRec
    <3> QED
      BY <3>1, <3>2 DEF PimEdits, UserEdits, NoMarks
  <2>5. CASE \E s \in Slots : PimRemoves(s)
    BY <1>0, <2>5 DEF PimRemoves, UserEdits, NoMarks
  <2> QED
    BY <1>4, <2>1, <2>2, <2>3, <2>4, <2>5 DEF User
<1>5. CASE (\E c \in Commands : Start(c)) \/ Finish \/ Crash
  BY <1>0, <1>5 DEF Start, Finish, Crash, NoMarks
<1>6. CASE WriteSysInfo
  <2>1. NoMarks(Stamped(pim)) /\ NoMarks(Stamped(file))
    <3>1. \A r \in PimRec : [r EXCEPT !.newer = FALSE].stat = r.stat
      BY DEF PimRec
    <3>2. \A s \in Slots : pim[s] \in PimRec /\ file[s] \in PimRec
      OBVIOUS
    <3> QED
      BY <3>1, <3>2 DEF Stamped, NoMarks
  <2> QED
    BY <1>2, <1>6, <2>1 DEF WriteSysInfo, NoMarks
<1>7. CASE Phase0
  <2>1. \A id \in Ids : ExportRead(id) => NoMarks(pim)' /\ NoMarks(file)'
    BY <1>1 DEF ExportRead, PutSlots, ByID, FirstFree, FreeSlots, NoMarks
  <2> QED
    BY <1>2, <1>7, <2>1 DEF Phase0, BeginExport, ExportDone, FileDone
<1>8. CASE Phase1
  <2>1. \A id \in Ids : ModRead(id) => NoMarks(pim)' /\ NoMarks(file)'
    <3> SUFFICES ASSUME NEW id \in Ids, ModRead(id) PROVE NoMarks(pim)' /\ NoMarks(file)'
      OBVIOUS
    <3>1. pim' = pim \/ \E s \in Slots : pim' = PimDelete(s) \/ pim' = Ic35ToPim(s, id, dev[id].data)
      BY DEF ModRead, Received, PutSlots, ByID, FirstFree, FreeSlots
    <3> QED
      BY <1>1, <3>1 DEF ModRead, NoMarks
  <2> QED
    BY <1>2, <1>8, <2>1 DEF Phase1, BeginSync, ModLen, ModDone, Commit, CommitDone, FileDone
<1>9. CASE Phase2
  BY <1>1, <1>2, <1>9 DEF Phase2, PushDeleted, PushNothing, PushChanged, PushNew, PushDone,
     NoMarks
<1>10. CASE Phase3
  BY <1>2, <1>10 DEF Phase3, Len, IndexRead, IndexDone, Delete, DeleteDone, FileDone
<1>11. CASE CallFails
  BY <1>2, <1>11 DEF CallFails
<1>12. CASE ImportNext
  <2>1. \A s \in Slots : ImportExec(s) => NoMarks(pim)' /\ NoMarks(file)'
    <3> SUFFICES ASSUME NEW s \in Slots, ImportExec(s) PROVE NoMarks(pim)' /\ NoMarks(file)'
      OBVIOUS
    <3>1. UNCHANGED pim \/ \E id : pim' = PimClean(s, id)
      BY DEF ImportExec
    <3>2. UNCHANGED file
      BY DEF ImportExec, Executed
    <3> QED
      BY <1>1, <3>1, <3>2 DEF NoMarks
  <2> QED
    BY <1>2, <1>12, <2>1 DEF ImportNext, BeginImport, ImportCallFails, ImportRead,
       ImportReadDone, ImportCompare, ImportFull, Executed, ImportDone, FileDone
<1> QED
  BY <1>3, <1>4, <1>5, <1>6, <1>7, <1>8, <1>9, <1>10, <1>11, <1>12
  DEF Next, Program, SyncNext

(* One record written to the IC35 leaves the others as they were there.    *)
LEMMA PushedStays ==
  ASSUME IdInv, PushInv, pc = "update", pc' = "update", fno' = fno,
         NEW s \in Slots, NEW id \in Ids,
         pim[s].id = id \/ id \notin Born(dev),
         dev' = DevPut(id, pim[s].data), pim' = PimClean(s, id), todo' = todo \ {s}
  PROVE  PushInv'
<1> SUFFICES ASSUME NEW t \in PimOf(fno)', RecStat(t)'= "dirty", t \notin todo'
             PROVE  Pushed(t)'
  BY DEF PushInv
<1>0. /\ pim \in [Slots -> PimRec] /\ dev \in [Ids -> DevRec] /\ id # 0 /\ t \in Slots
  BY IdsAssumption DEF IdInv, TypeOK, PimOf
<1>1. CASE t = s
  <2>1. pim'[s].id = id /\ pim'[s].data = pim[s].data /\ dev'[id].data = pim[s].data
    BY <1>0 DEF PimClean, PimRec, DevPut
  <2> QED
    BY <1>0, <1>1, <2>1 DEF Pushed
<1>2. CASE t # s
  <2>1. pim'[t] = pim[t] /\ t \notin todo
    BY <1>0, <1>2 DEF PimClean
  <2>2. t \in PimOf(fno) /\ RecStat(t) = "dirty"
    BY <1>0, <2>1 DEF PimOf, Present, RecStat
  <2>3. Pushed(t)
    BY <2>1, <2>2 DEF PushInv
  <2>4. pim[t].id # id
    BY <1>0, <1>2, <2>3 DEF IdInv, IdsOK, UniqueIds, Pushed
  <2>5. dev'[pim[t].id] = dev[pim[t].id]
    BY <1>0, <2>3, <2>4 DEF DevPut, Pushed, PimRec
  <2> QED
    BY <2>1, <2>3, <2>5 DEF Pushed
<1> QED
  BY <1>1, <1>2

LEMMA PushStep == ASSUME IdInv, NoMarks(pim), PushInv, [Next]_vars PROVE PushInv'
<1> USE DEF GiveUp, AnswerLost, FileDone, ctl
<1>1. CASE pc' \notin {"update", "len"}
  BY <1>1 DEF PushInv
<1>2. CASE UNCHANGED vars
  BY <1>2 DEF vars, loop, PushInv, PimOf, Present, RecStat, Pushed
<1>3. CASE CommitDone
  <2> SUFFICES ASSUME pc' = "update" PROVE PushInv'
    BY <1>3, <1>1 DEF CommitDone
  <2>1. UNCHANGED <<dev, pim, fno>> /\ todo' = {s \in PimOf(fno) : RecStat(s) # "clean"}
    BY <1>3 DEF CommitDone
  <2> QED
    BY <2>1 DEF PushInv, PimOf, Present, RecStat
<1>4. CASE \E s \in Slots : PushDeleted(s)
  BY <1>4 DEF PushDeleted, NoMarks, RecStat
<1>5. CASE \E s \in Slots : PushNothing(s)
  <2> PICK s \in Slots : PushNothing(s)
    BY <1>5
  <2>1. UNCHANGED <<dev, pim, fno, pc>> /\ pc = "update" /\ todo' = todo \ {s}
    BY DEF PushNothing, Visited
  <2>2. RecStat(s) = "dirty" => Pushed(s)
    BY DEF PushNothing, NotOnIC35, Pushed
  <2> QED
    BY <2>1, <2>2 DEF PushInv, PimOf, Present, RecStat, Pushed
<1>6. CASE \E s \in Slots : PushChanged(s)
  <2> PICK s \in Slots : PushChanged(s)
    BY <1>6
  <2>1. pim[s].id \in Ids
    BY DEF PushChanged, IdInv, TypeOK, PimRec
  <2> QED
    BY <1>1, <2>1, PushedStays DEF PushChanged, Visited
<1>7. CASE \E s \in Slots : PushNew(s)
  <2>1. \A id \in FreshIds(fno) : id \in Ids /\ id \notin Born(dev)
    BY DEF FreshIds, Born
  <2> QED
    BY <1>1, <1>7, <2>1, PushedStays DEF PushNew, Visited
<1>8. CASE PushDone
  BY <1>8 DEF PushDone, PushInv, PimOf, Present, RecStat, Pushed
<1>9. CASE \/ User \/ (\E c \in Commands : Start(c)) \/ WriteSysInfo \/ Finish \/ Crash
           \/ Phase0 \/ BeginSync \/ DeleteDone \/ CallFails \/ ImportNext
  BY <1>1, <1>9, OutsideSync
<1>10. CASE \/ ModLen \/ (\E id \in Ids : ModRead(id) \/ Commit(id)) \/ ModDone
            \/ Len \/ (\E id \in Ids : IndexRead(id) \/ Delete(id)) \/ IndexDone
  BY <1>1, <1>10 DEF ModLen, ModRead, Commit, ModDone, Len, IndexRead, Delete, IndexDone
<1> QED
  BY <1>2, <1>3, <1>4, <1>5, <1>6, <1>7, <1>8, <1>9, <1>10
  DEF Next, Program, SyncNext, Phase1, Phase2, Phase3

(* Phase 2 leaves no modified PIM record behind, if the PIM programs drop  *)
(* the records the user deletes instead of marking them.                   *)
THEOREM AllPushed == ASSUME PimMarksDeleted = FALSE PROVE Spec => []Phase2Complete
<1>1. Init => NoMarks(pim) /\ NoMarks(file) /\ PushInv
  BY DEF Init, NoMarks, EmptyPim, NoPim, PushInv
<1>2. IdInv /\ NoMarks(pim) /\ NoMarks(file) /\ PushInv /\ [Next]_vars
      => (NoMarks(pim) /\ NoMarks(file) /\ PushInv)'
  BY NoMarksStep, PushStep DEF IdInv
<1>3. PushInv => Phase2Complete
  BY DEF PushInv, Phase2Complete, Pushed
<1> QED
  BY <1>1, <1>2, <1>3, IdInvariant, PTL DEF Spec
-----------------------------------------------------------------------------
(* Ic35Sync implements ReplicaContract, when no file holds VCARDs: every   *)
(* step of every command is a step of a session, of the user, or the       *)
(* beginning or end of a session, or changes nothing the contract sees.    *)

(* Besides the invariants behind the other theorems the steps rely on:     *)
(* which command is at which place, ...                                    *)
CmdAtPc ==
  /\ pc = "idle" <=> cmd = "none"
  /\ pc \in {"modlen", "mod", "commit", "update", "len", "index", "delete"} => cmd = "sync"
  /\ pc = "export" => cmd \in {"export", "sync"}
  /\ pc \in {"impread", "impcmp", "impexec"} => cmd = "import"

(* ... no revision time, as there is no VCARD, ...                         *)
NoRevs(p) == \A s \in Slots : ~p[s].newer

(* ... a record-ID of a file is in a record of that file, so that phase 0  *)
(* finds clean records only, those it has just made, ...                   *)
IdsInPlace(p) == \A s \in Slots : p[s].id # 0 => IdFile[p[s].id] = SlotFile[s]
ExportClean ==
  pc = "export" /\ cmd = "sync" => \A s \in PimOf(fno) : pim[s].stat = "clean"

(* ... what the IC35 still has to deliver in phase 1a is marked, phase 2   *)
(* is left with records of its file, and the actions of an import are      *)
(* still the right ones for the records they were collected for.           *)
MarkedLeft == pc = "mod" => \A id \in mleft : Changed(dev[id])
TodoHere   == pc = "update" => \A s \in todo : SlotFile[s] = fno
TabLive    == pc \in {"impread", "impcmp"} => \A id \in tab : Live(dev[id])
OpsHere ==
  \A s \in Slots : op[s] # "none" =>
    /\ pc = "impexec" /\ Present(pim, s) /\ SlotFile[s] = fno
    /\ op[s] # "write" => pim[s].id \in Ids
    /\ op[s] = "commit" => Live(dev[pim[s].id]) /\ dev[pim[s].id].data = pim[s].data

-----------------------------------------------------------------------------
(* The command at each place.                                              *)
LEMMA CmdAtPcStep == TypeOK /\ CmdAtPc /\ [Next]_vars => CmdAtPc'
<1> SUFFICES ASSUME TypeOK, CmdAtPc, [Next]_vars PROVE CmdAtPc'
  OBVIOUS
<1> USE DEF CmdAtPc, GiveUp, FileDone, ctl
<1>1. CASE UNCHANGED vars
  BY <1>1 DEF vars
<1>2. CASE User
  BY <1>2 DEF User, UserEdits, DevCreates, DevEdits, DevDeletes, PimCreates, PimEdits,
     PimRemoves
<1>3. CASE (\E c \in Commands : Start(c)) \/ WriteSysInfo \/ Finish \/ Crash
  BY <1>3, CommandsAssumption DEF Start, WriteSysInfo, Finish, Crash
<1>4. CASE Phase0
  BY <1>4 DEF Phase0, BeginExport, ExportRead, ExportDone, TypeOK
<1>5. CASE Phase1
  BY <1>5 DEF Phase1, BeginSync, ModLen, ModRead, ModDone, Commit, CommitDone, AnswerLost
<1>6. CASE Phase2
  BY <1>6 DEF Phase2, PushDeleted, PushNothing, PushChanged, PushNew, PushDone, AnswerLost
<1>7. CASE Phase3
  BY <1>7 DEF Phase3, Len, IndexRead, IndexDone, Delete, DeleteDone, AnswerLost
<1>8. CASE CallFails
  BY <1>8 DEF CallFails
<1>9. CASE ImportNext
  <2>1. CASE BeginImport \/ ImportCallFails \/ ImportReadDone \/ ImportCompare
             \/ \E id \in Ids : ImportRead(id)
    BY <1>9, <2>1 DEF BeginImport, ImportCallFails, ImportReadDone, ImportCompare, ImportRead
  <2>2. CASE \E s \in Slots : ImportExec(s) \/ ImportFull(s)
    BY <1>9, <2>2 DEF ImportExec, ImportFull, Executed
  <2>3. CASE ImportDone
    BY <1>9, <2>3 DEF ImportDone
  <2> QED
    BY <1>9, <2>1, <2>2, <2>3 DEF ImportNext
<1> QED
  BY <1>1, <1>2, <1>3, <1>4, <1>5, <1>6, <1>7, <1>8, <1>9 DEF Next, Program, SyncNext

(* What takes a record from the IC35 leaves record-IDs in their place.     *)
LEMMA PutInPlace ==
  ASSUME TypeOK, IdsInPlace(pim), NEW id \in Ids, NEW s \in PutSlots(id), NEW d
  PROVE  IdsInPlace(Ic35ToPim(s, id, d))
<1>1. s \in Slots /\ IdFile[id] = SlotFile[s]
  BY IdsAssumption DEF PutSlots, ByID, FirstFree, FreeSlots, IdsInPlace
<1> QED
  BY <1>1 DEF IdsInPlace, Ic35ToPim, TypeOK

LEMMA CleanInPlace ==
  ASSUME TypeOK, IdsInPlace(pim), NEW s \in Slots, NEW id,
         id = pim[s].id \/ IdFile[id] = SlotFile[s]
  PROVE  IdsInPlace(PimClean(s, id))
<1>1. \A t \in Slots : t # s => PimClean(s, id)[t] = pim[t]
  BY DEF PimClean, TypeOK
<1>2. PimClean(s, id)[s].id = id
  BY DEF PimClean, TypeOK, PimRec
<1> QED
  BY <1>1, <1>2 DEF IdsInPlace

LEMMA PlacesStep ==
  ASSUME TypeOK, IdsInPlace(pim), IdsInPlace(file), TodoHere, OpsHere, [Next]_vars
  PROVE  IdsInPlace(pim)' /\ IdsInPlace(file)'
<1> DEFINE Same == UNCHANGED <<pim, file>>
<1>0. /\ Same => IdsInPlace(pim)' /\ IdsInPlace(file)'
      /\ \A s : IdsInPlace(PimDelete(s))
      /\ IdsInPlace(EmptyPim)
  BY DEF IdsInPlace, PimDelete, EmptyPim, NoPim, TypeOK
<1>1. CASE UNCHANGED vars
  BY <1>0, <1>1 DEF vars
<1>2. CASE User
  <2>1. UNCHANGED pim
    BY <1>2 DEF User, UserEdits, DevCreates, DevEdits, DevDeletes, PimCreates, PimEdits,
       PimRemoves
  <2>2. CASE \E s \in Slots, d \in Data : PimEdits(s, d)
    <3> PICK s \in Slots, d \in Data : PimEdits(s, d)
      BY <2>2
    <3>1. \/ file' = [file EXCEPT ![s] = [file[s] EXCEPT !.data = d, !.newer = TRUE]]
          \/ file' = [file EXCEPT ![s] = [file[s] EXCEPT !.data = d, !.stat = "dirty"]]
      BY DEF PimEdits, TypeOK, PimRec
    <3>2. ASSUME NEW t \in Slots PROVE file'[t].id = file[t].id
      <4>1. CASE t # s
        BY <3>1, <4>1 DEF TypeOK
      <4>2. CASE t = s
        <5>1. file[s] \in PimRec
          BY DEF TypeOK
        <5>2. \/ file'[s] = [file[s] EXCEPT !.data = d, !.newer = TRUE]
              \/ file'[s] = [file[s] EXCEPT !.data = d, !.stat = "dirty"]
          BY <3>1 DEF TypeOK
        <5> QED
          BY <4>2, <5>1, <5>2 DEF PimRec
      <4> QED
        BY <4>1, <4>2
    <3> QED
      BY <2>1, <3>2 DEF IdsInPlace
  <2>3. CASE \E s \in Slots, d \in Data : PimCreates(s, d)
    <3>1. \A t \in Slots : file'[t].id \in {0, file[t].id}
      BY <2>3 DEF PimCreates, TypeOK
    <3> QED
      BY <2>1, <3>1 DEF IdsInPlace
  <2>4. CASE \E s \in Slots : PimRemoves(s)
    <3> PICK s \in Slots : PimRemoves(s)
      BY <2>4
    <3>1. \/ file' = [file EXCEPT ![s] = [file[s] EXCEPT !.stat = "del"]]
          \/ file' = [file EXCEPT ![s] = NoPim]
      BY DEF PimRemoves, TypeOK, PimRec
    <3>2. \A t \in Slots : file'[t].id \in {0, file[t].id}
      BY <3>1 DEF TypeOK, PimRec, NoPim
    <3> QED
      BY <2>1, <3>2 DEF IdsInPlace
  <2>5. CASE UNCHANGED file
    BY <1>0, <2>1, <2>5
  <2> QED
    BY <1>2, <2>2, <2>3, <2>4, <2>5 DEF User, DevCreates, DevEdits, DevDeletes
<1>3. CASE (\E c \in Commands : Start(c)) \/ Finish
  BY <1>0, <1>3 DEF Start, Finish, IdsInPlace
<1>4. CASE WriteSysInfo
  <2>1. \A t \in Slots : pim'[t].id = pim[t].id /\ file'[t].id = file[t].id
    BY <1>4 DEF WriteSysInfo, Stamped, TypeOK, PimRec
  <2> QED
    BY <2>1 DEF IdsInPlace
<1>5. CASE Crash
  <2>1. \A t \in Slots : file'[t] \in {file[t], pim[t], NoPim}
    BY <1>5 DEF Crash
  <2>2. pim' = EmptyPim
    BY <1>5 DEF Crash
  <2> QED
    BY <1>0, <2>1, <2>2 DEF IdsInPlace, NoPim
<1>6. CASE \E id \in Ids : ExportRead(id)
  BY <1>6, PutInPlace DEF ExportRead, IdsInPlace
<1>7. CASE \E id \in Ids : ModRead(id)
  BY <1>0, <1>7, PutInPlace DEF ModRead, Received, IdsInPlace
<1>8. CASE \E s \in Slots : PushDeleted(s)
  BY <1>0, <1>8 DEF PushDeleted, AnswerLost, GiveUp, IdsInPlace
<1>9. CASE \E s \in Slots : PushChanged(s)
  <2> PICK s \in Slots : PushChanged(s)
    BY <1>9
  <2>1. UNCHANGED file /\ (UNCHANGED pim \/ pim' = PimClean(s, pim[s].id))
    BY DEF PushChanged, AnswerLost, GiveUp
  <2> QED
    BY <1>0, <2>1, CleanInPlace DEF IdsInPlace
<1>10. CASE \E s \in Slots : PushNew(s)
  <2> PICK s \in Slots : PushNew(s)
    BY <1>10
  <2>1. UNCHANGED file /\ (UNCHANGED pim \/ \E id \in FreshIds(fno) : pim' = PimClean(s, id))
    BY DEF PushNew, AnswerLost, GiveUp
  <2>2. SlotFile[s] = fno
    BY DEF PushNew, TodoHere
  <2>3. \A id \in FreshIds(fno) : IdFile[id] = SlotFile[s]
    BY <2>2 DEF FreshIds
  <2> QED
    BY <1>0, <2>1, <2>3, CleanInPlace DEF IdsInPlace
<1>11. CASE \E s \in Slots : ImportExec(s)
  <2> PICK s \in Slots : ImportExec(s)
    BY <1>11
  <2>1. /\ UNCHANGED file
        /\ \/ UNCHANGED pim
           \/ \E id \in FreshIds(fno) \cup {pim[s].id} : pim' = PimClean(s, id)
    BY DEF ImportExec, Executed
  <2>2. \A id \in FreshIds(fno) : IdFile[id] = SlotFile[s]
    BY DEF FreshIds, ImportExec, OpsHere
  <2> QED
    BY <1>0, <2>1, <2>2, CleanInPlace DEF IdsInPlace
<1>12. CASE BeginExport \/ ExportDone \/ BeginSync \/ ModLen \/ ModDone
            \/ (\E id \in Ids : Commit(id)) \/ CommitDone
            \/ (\E s \in Slots : PushNothing(s)) \/ PushDone \/ Phase3 \/ CallFails
  <2>1. Same
    BY <1>12 DEF BeginExport, ExportDone, BeginSync, ModLen, ModDone, Commit, CommitDone,
       PushNothing, PushDone, Phase3, Len, IndexRead, IndexDone, Delete, DeleteDone,
       CallFails, AnswerLost, GiveUp
  <2> QED
    BY <1>0, <2>1
<1>13. CASE BeginImport \/ ImportCallFails \/ ImportReadDone \/ ImportCompare \/ ImportDone
            \/ (\E id \in Ids : ImportRead(id)) \/ (\E s \in Slots : ImportFull(s))
  <2>1. Same
    BY <1>13 DEF BeginImport, ImportCallFails, ImportReadDone, ImportCompare, ImportDone,
       ImportRead, ImportFull, Executed, GiveUp
  <2> QED
    BY <1>0, <2>1
<1> QED
  BY <1>1, <1>2, <1>3, <1>4, <1>5, <1>6, <1>7, <1>8, <1>9, <1>10, <1>11, <1>12, <1>13
  DEF Next, Program, SyncNext, Phase0, Phase1, Phase2, ImportNext

(* Without VCARDs no REV time ever counts.                                 *)
LEMMA RevsStep ==
  ASSUME RevFiles = {}, TypeOK, NoRevs(pim), NoRevs(file), [Next]_vars
  PROVE  NoRevs(pim)' /\ NoRevs(file)'
<1> DEFINE Same == UNCHANGED <<pim, file>>
<1>0. /\ Same => NoRevs(pim)' /\ NoRevs(file)'
      /\ \A s : NoRevs(PimDelete(s))
      /\ NoRevs(EmptyPim)
  BY DEF NoRevs, PimDelete, EmptyPim, NoPim, TypeOK
<1>1. \A s, id, d : NoRevs(Ic35ToPim(s, id, d))
  BY DEF NoRevs, Ic35ToPim, TypeOK
<1>2. ASSUME NEW s, NEW id PROVE NoRevs(PimClean(s, id))
  <2>1. \A t \in Slots : PimClean(s, id)[t].newer = pim[t].newer
    BY DEF PimClean, TypeOK, PimRec
  <2> QED
    BY <2>1 DEF NoRevs
<1>3. CASE UNCHANGED vars
  BY <1>0, <1>3 DEF vars
<1>4. CASE User
  <2>1. UNCHANGED pim
    BY <1>4 DEF User, UserEdits, DevCreates, DevEdits, DevDeletes, PimCreates, PimEdits,
       PimRemoves
  <2>2. CASE \E s \in Slots, d \in Data : PimEdits(s, d)
    <3> PICK s \in Slots, d \in Data : PimEdits(s, d)
      BY <2>2
    <3>1. file[s] \in PimRec /\ file'[s] = [file[s] EXCEPT !.data = d, !.stat = "dirty"]
      BY DEF PimEdits, TypeOK, PimRec
    <3>2. \A t \in Slots : t # s => file'[t] = file[t]
      BY DEF PimEdits, TypeOK
    <3> QED
      BY <2>1, <3>1, <3>2 DEF NoRevs, PimRec
  <2>3. CASE \E s \in Slots, d \in Data : PimCreates(s, d)
    <3> PICK s \in Slots, d \in Data : PimCreates(s, d)
      BY <2>3
    <3>1. ~file'[s].newer /\ \A t \in Slots : t # s => file'[t] = file[t]
      BY DEF PimCreates, TypeOK
    <3> QED
      BY <2>1, <3>1 DEF NoRevs
  <2>4. CASE \E s \in Slots : PimRemoves(s)
    <3> PICK s \in Slots : PimRemoves(s)
      BY <2>4
    <3>1. file[s] \in PimRec /\ file'[s] \in {[file[s] EXCEPT !.stat = "del"], NoPim}
      BY DEF PimRemoves, TypeOK, PimRec
    <3>2. \A t \in Slots : t # s => file'[t] = file[t]
      BY DEF PimRemoves, TypeOK
    <3> QED
      BY <2>1, <3>1, <3>2 DEF NoRevs, PimRec, NoPim
  <2>5. CASE UNCHANGED file
    BY <1>0, <2>1, <2>5
  <2> QED
    BY <1>4, <2>2, <2>3, <2>4, <2>5 DEF User, DevCreates, DevEdits, DevDeletes
<1>5. CASE (\E c \in Commands : Start(c)) \/ Finish
  BY <1>0, <1>5 DEF Start, Finish, NoRevs
<1>6. CASE WriteSysInfo
  <2>1. CASE Same
    BY <1>0, <2>1
  <2>2. CASE pim' = Stamped(pim) /\ file' = Stamped(file)
    <3>1. \A t \in Slots : ~Stamped(pim)[t].newer /\ ~Stamped(file)[t].newer
      BY DEF Stamped, TypeOK, PimRec
    <3> QED
      BY <2>2, <3>1 DEF NoRevs
  <2> QED
    BY <1>6, <2>1, <2>2 DEF WriteSysInfo
<1>7. CASE Crash
  <2>1. \A t \in Slots : file'[t] \in {file[t], pim[t], NoPim}
    BY <1>7 DEF Crash
  <2>2. pim' = EmptyPim
    BY <1>7 DEF Crash
  <2> QED
    BY <1>0, <2>1, <2>2 DEF NoRevs, NoPim
<1>8. CASE \E id \in Ids : ExportRead(id) \/ ModRead(id)
  BY <1>0, <1>1, <1>8 DEF ExportRead, ModRead, Received, NoRevs
<1>9. CASE \E s \in Slots : PushDeleted(s) \/ PushChanged(s) \/ PushNew(s) \/ ImportExec(s)
  <2>1. /\ UNCHANGED file
        /\ \/ UNCHANGED pim
           \/ \E s \in Slots : pim' = PimDelete(s) \/ \E id : pim' = PimClean(s, id)
    BY <1>9 DEF PushDeleted, PushChanged, PushNew, ImportExec, Executed, AnswerLost, GiveUp
  <2> QED
    BY <1>0, <1>2, <2>1 DEF NoRevs
<1>10. CASE BeginExport \/ ExportDone \/ BeginSync \/ ModLen \/ ModDone
            \/ (\E id \in Ids : Commit(id)) \/ CommitDone
            \/ (\E s \in Slots : PushNothing(s)) \/ PushDone \/ Phase3 \/ CallFails
  <2>1. Same
    BY <1>10 DEF BeginExport, ExportDone, BeginSync, ModLen, ModDone, Commit, CommitDone,
       PushNothing, PushDone, Phase3, Len, IndexRead, IndexDone, Delete, DeleteDone,
       CallFails, AnswerLost, GiveUp
  <2> QED
    BY <1>0, <2>1
<1>11. CASE BeginImport \/ ImportCallFails \/ ImportReadDone \/ ImportCompare \/ ImportDone
            \/ (\E id \in Ids : ImportRead(id)) \/ (\E s \in Slots : ImportFull(s))
  <2>1. Same
    BY <1>11 DEF BeginImport, ImportCallFails, ImportReadDone, ImportCompare, ImportDone,
       ImportRead, ImportFull, Executed, GiveUp
  <2> QED
    BY <1>0, <2>1
<1> QED
  BY <1>3, <1>4, <1>5, <1>6, <1>7, <1>8, <1>9, <1>10, <1>11
  DEF Next, Program, SyncNext, Phase0, Phase1, Phase2, ImportNext

-----------------------------------------------------------------------------
(* Where the steps lead.                                                   *)
LEMMA UserIdle ==
  ASSUME User PROVE pc = "idle" /\ UNCHANGED <<pim, pc, ctl, loop>>
  BY DEF User, UserEdits, DevCreates, DevEdits, DevDeletes, PimCreates, PimEdits, PimRemoves

LEMMA FrameTo ==
  ASSUME (\E c \in Commands : Start(c)) \/ WriteSysInfo \/ Finish \/ Crash
  PROVE  pc' \in {"file", "finish", "idle"}
         /\ (UNCHANGED loop \/ NoLoop)
  BY DEF Start, WriteSysInfo, Finish, Crash

(* Phase 0 meets no PIM records of the file but those it made.             *)
LEMMA ExportCleanStep ==
  ASSUME TypeOK, ExportClean, [Next]_vars PROVE ExportClean'
<1>1. CASE UNCHANGED vars
  BY <1>1 DEF vars, ctl, ExportClean, PimOf, Present
<1>2. CASE BeginExport
  BY <1>2 DEF BeginExport, ExportClean, PimOf, Present
<1>3. CASE \E id \in Ids : ExportRead(id)
  <2> PICK id \in Ids : ExportRead(id)
    BY <1>3
  <2> PICK s \in PutSlots(id) : pim' = Ic35ToPim(s, id, dev[id].data)
    BY DEF ExportRead
  <2>1. s \in Slots
    BY DEF PutSlots, ByID, FirstFree, FreeSlots
  <2>2. \A t \in Slots : pim'[t] = pim[t] \/ pim'[t].stat = "clean"
    BY <2>1 DEF Ic35ToPim, TypeOK
  <2>3. UNCHANGED <<pc, cmd, fno>> /\ pc = "export"
    BY DEF ExportRead, ctl
  <2> QED
    BY <2>2, <2>3 DEF ExportClean, PimOf, Present
<1>4. CASE pc' # "export"
  BY <1>4 DEF ExportClean
<1>5. ~User \/ pc' # "export"
  BY UserIdle
<1>6. CASE Phase1 \/ Phase2 \/ Phase3 \/ CallFails \/ ExportDone
  <2>1. pc' # "export"
    BY <1>6 DEF Phase1, BeginSync, ModLen, ModRead, ModDone, Commit, CommitDone, Phase2,
       PushDeleted, PushNothing, PushChanged, PushNew, PushDone, Phase3, Len, IndexRead,
       IndexDone, Delete, DeleteDone, CallFails, ExportDone, AnswerLost, GiveUp, FileDone
  <2> QED
    BY <1>4, <2>1
<1>7. CASE ImportNext
  <2>1. pc' # "export"
    BY <1>7 DEF ImportNext, BeginImport, ImportCallFails, ImportRead, ImportReadDone,
       ImportCompare, ImportExec, Executed, ImportFull, ImportDone, GiveUp, FileDone
  <2> QED
    BY <1>4, <2>1
<1> QED
  BY <1>1, <1>2, <1>3, <1>4, <1>5, <1>6, <1>7, FrameTo DEF Next, Program, SyncNext, Phase0

(* The IC35 delivers marked records only.                                  *)
LEMMA MarkedLeftStep ==
  ASSUME TypeOK, MarkedLeft, [Next]_vars PROVE MarkedLeft'
<1>1. CASE UNCHANGED vars
  BY <1>1 DEF vars, loop, MarkedLeft
<1>2. CASE ModLen
  BY <1>2 DEF ModLen, MarkedLeft, ChangedIds
<1>3. CASE \E id \in Ids : ModRead(id)
  BY <1>3 DEF ModRead, MarkedLeft
<1>4. CASE pc' # "mod"
  BY <1>4 DEF MarkedLeft
<1>5. ~User \/ pc' # "mod"
  BY UserIdle
<1>6. CASE Phase0 \/ BeginSync \/ ModDone \/ (\E id \in Ids : Commit(id)) \/ CommitDone
           \/ Phase2 \/ Phase3 \/ CallFails
  <2>1. pc' # "mod"
    BY <1>6 DEF Phase0, BeginExport, ExportRead, ExportDone, BeginSync, ModDone, Commit,
       CommitDone, Phase2, PushDeleted, PushNothing, PushChanged, PushNew, PushDone, Phase3,
       Len, IndexRead, IndexDone, Delete, DeleteDone, CallFails, AnswerLost, GiveUp, FileDone
  <2> QED
    BY <1>4, <2>1
<1>7. CASE ImportNext
  <2>1. pc' # "mod"
    BY <1>7 DEF ImportNext, BeginImport, ImportCallFails, ImportRead, ImportReadDone,
       ImportCompare, ImportExec, Executed, ImportFull, ImportDone, GiveUp, FileDone
  <2> QED
    BY <1>4, <2>1
<1> QED
  BY <1>1, <1>2, <1>3, <1>4, <1>5, <1>6, <1>7, FrameTo DEF Next, Program, SyncNext, Phase1

(* Phase 2 keeps to the records it found when it started.                  *)
LEMMA TodoHereStep ==
  ASSUME TodoHere, [Next]_vars PROVE TodoHere'
<1>1. CASE UNCHANGED vars
  BY <1>1 DEF vars, ctl, loop, TodoHere
<1>2. CASE CommitDone
  BY <1>2 DEF CommitDone, FileDone, TodoHere, PimOf
<1>3. CASE \E s \in Slots : PushDeleted(s) \/ PushNothing(s) \/ PushChanged(s) \/ PushNew(s)
  <2>1. pc' = "finish" \/ (UNCHANGED <<pc, fno>> /\ pc = "update" /\ todo' \subseteq todo)
    BY <1>3 DEF PushDeleted, PushNothing, PushChanged, PushNew, Visited, VisitedFreed,
       AnswerLost, GiveUp, ctl
  <2> QED
    BY <2>1 DEF TodoHere
<1>4. CASE pc' # "update"
  BY <1>4 DEF TodoHere
<1>5. ~User \/ pc' # "update"
  BY UserIdle
<1>6. CASE Phase0 \/ BeginSync \/ ModLen \/ (\E id \in Ids : ModRead(id)) \/ ModDone
           \/ (\E id \in Ids : Commit(id)) \/ PushDone \/ Phase3 \/ CallFails
  <2>1. pc' # "update"
    BY <1>6 DEF Phase0, BeginExport, ExportRead, ExportDone, BeginSync, ModLen, ModRead,
       ModDone, Commit, PushDone, Phase3, Len, IndexRead, IndexDone, Delete, DeleteDone,
       CallFails, AnswerLost, GiveUp, FileDone
  <2> QED
    BY <1>4, <2>1
<1>7. CASE ImportNext
  <2>1. pc' # "update"
    BY <1>7 DEF ImportNext, BeginImport, ImportCallFails, ImportRead, ImportReadDone,
       ImportCompare, ImportExec, Executed, ImportFull, ImportDone, GiveUp, FileDone
  <2> QED
    BY <1>4, <2>1
<1> QED
  BY <1>1, <1>2, <1>3, <1>4, <1>5, <1>6, <1>7, FrameTo
  DEF Next, Program, SyncNext, Phase1, Phase2

(* The steps of other commands are no steps of an import.                  *)
LEMMA SyncOutside ==
  ASSUME SyncNext
  PROVE  /\ pc \notin {"impread", "impcmp", "impexec"}
         /\ pc' \notin {"impread", "impcmp", "impexec"}
         /\ UNCHANGED op \/ NoLoop
<1> USE DEF GiveUp, FileDone
<1>1. CASE Phase0
  BY <1>1 DEF Phase0, BeginExport, ExportRead, ExportDone, StartLoop, loop
<1>2. CASE Phase1
  BY <1>2 DEF Phase1, BeginSync, ModLen, ModRead, ModDone, Commit, CommitDone, AnswerLost,
     loop
<1>3. CASE Phase2
  BY <1>3 DEF Phase2, PushDeleted, PushNothing, PushChanged, PushNew, PushDone, Visited,
     VisitedFreed, AnswerLost, loop
<1>4. CASE Phase3
  BY <1>4 DEF Phase3, Len, IndexRead, IndexDone, Delete, DeleteDone, StartLoop, AnswerLost,
     loop
<1>5. CASE CallFails
  BY <1>5 DEF CallFails
<1> QED
  BY <1>1, <1>2, <1>3, <1>4, <1>5 DEF SyncNext

(* An import reads the table of records that are on the IC35.              *)
LEMMA TabLiveStep ==
  ASSUME TabClear, TabLive, [Next]_vars PROVE TabLive'
<1>1. CASE UNCHANGED vars
  BY <1>1 DEF vars, loop, TabLive
<1>2. CASE BeginImport
  BY <1>2 DEF BeginImport, StartLoop, TabLive, TabClear
<1>3. CASE \E id \in Ids : ImportRead(id)
  BY <1>3 DEF ImportRead, TabLive, IsIndex, LiveIds
<1>4. CASE ImportReadDone
  BY <1>4 DEF ImportReadDone, TabLive, loop
<1>5. CASE pc' \notin {"impread", "impcmp"}
  BY <1>5 DEF TabLive
<1>6. CASE ImportCallFails \/ ImportCompare \/ ImportDone
           \/ \E s \in Slots : ImportExec(s) \/ ImportFull(s)
  <2>1. pc' \notin {"impread", "impcmp"}
    BY <1>6 DEF ImportCallFails, ImportCompare, ImportExec, Executed, ImportFull,
       ImportDone, GiveUp, FileDone
  <2> QED
    BY <1>5, <2>1
<1>7. ~(User \/ SyncNext) \/ pc' \notin {"impread", "impcmp"}
  BY UserIdle, SyncOutside
<1> QED
  BY <1>1, <1>2, <1>3, <1>4, <1>5, <1>6, <1>7, FrameTo DEF Next, Program, ImportNext

(* The action collected for a record is right for it.                      *)
Right(s) ==
  /\ Present(pim, s) /\ SlotFile[s] = fno
  /\ op[s] # "write" => pim[s].id \in Ids
  /\ op[s] = "commit" => Live(dev[pim[s].id]) /\ dev[pim[s].id].data = pim[s].data

LEMMA CompareRight ==
  ASSUME TypeOK, TabLive, ImportCompare, NEW s \in Slots, op'[s] # "none"
  PROVE  Right(s)'
<1>1. s \in PimOf(fno) /\ op'[s] = Action(s)
  BY DEF ImportCompare
<1>2. tab \subseteq Ids /\ \A id \in tab : Live(dev[id])
  BY DEF TypeOK, TabLive, ImportCompare
<1>3. UNCHANGED <<dev, pim, fno>>
  BY DEF ImportCompare, ctl
<1> QED
  BY <1>1, <1>2, <1>3, IdsAssumption DEF Right, Action, PimOf, Present

(* Executing the action of one record does not touch another's.            *)
LEMMA ExecRight ==
  ASSUME IdInv, OpsHere, NEW s \in Slots, ImportExec(s) \/ ImportFull(s),
         NEW t \in Slots, op'[t] # "none"
  PROVE  Right(t)'
<1> USE DEF IdInv
<1>1. /\ t # s /\ op'[t] = op[t] /\ UNCHANGED <<pc, fno>> /\ pc = "impexec"
      /\ op[s] # "none"
  BY DEF ImportExec, ImportFull, Executed, TypeOK
<1>2. /\ Right(t) /\ (op[s] # "write" => pim[s].id \in Ids)
  BY <1>1 DEF OpsHere, Right
<1>3. pim'[t] = pim[t]
  BY <1>1 DEF ImportExec, ImportFull, PimClean, TypeOK
<1>4. CASE op[t] # "commit"
  BY <1>1, <1>2, <1>3, <1>4 DEF Right, Present
<1>5. CASE op[t] = "commit"
  <2>1. pim[t].id \in Ids /\ pim[t].id # 0 /\ pim[t].id \in Born(dev)
    BY <1>2, <1>5, IdsAssumption DEF Right, IdsOK
  <2>2. ASSUME NEW id \in IF op[s] = "write" THEN FreshIds(fno) ELSE {pim[s].id}
        PROVE  id # pim[t].id
    BY <1>1, <2>1 DEF FreshIds, Born, IdsOK, UniqueIds
  <2>3. dev'[pim[t].id] = dev[pim[t].id]
    BY <2>1, <2>2 DEF ImportExec, ImportFull, Effect, DevCommit, DevPut, TypeOK
  <2> QED
    BY <1>1, <1>2, <1>3, <2>3 DEF Right, Present
<1> QED
  BY <1>4, <1>5

LEMMA OpsHereStep ==
  ASSUME IdInv, TabLive, OpsHere, [Next]_vars PROVE OpsHere'
<1>1. CASE UNCHANGED vars
  BY <1>1 DEF vars, ctl, loop, OpsHere, Present
<1>2. CASE ImportCompare
  <2>1. pc' = "impexec"
    BY <1>2 DEF ImportCompare
  <2> QED
    BY <1>2, <2>1, CompareRight DEF OpsHere, Right, IdInv
<1>3. CASE \E s \in Slots : ImportExec(s) \/ ImportFull(s)
  <2>1. pc' = "impexec"
    BY <1>3 DEF ImportExec, ImportFull, Executed
  <2> QED
    BY <1>3, <2>1, ExecRight DEF OpsHere, Right
(* all others run with no action collected, or drop them all               *)
<1>4. CASE (UNCHANGED op /\ pc # "impexec") \/ NoLoop
  BY <1>4 DEF OpsHere, NoLoop
<1>5. CASE ImportDone
  <2>1. \A s \in Slots : op[s] = "none" /\ op'[s] = "none"
    BY <1>5 DEF ImportDone, FileDone, NoLoop
  <2> QED
    BY <2>1 DEF OpsHere
<1>6. CASE BeginImport \/ ImportCallFails \/ (\E id \in Ids : ImportRead(id))
           \/ ImportReadDone
  BY <1>4, <1>6 DEF BeginImport, ImportCallFails, ImportRead, ImportReadDone, StartLoop,
     GiveUp, loop
<1>7. CASE User \/ SyncNext
  BY <1>4, <1>7, UserIdle, SyncOutside DEF loop
<1>8. CASE (\E c \in Commands : Start(c)) \/ WriteSysInfo \/ Finish \/ Crash
  BY <1>4, <1>8 DEF Start, WriteSysInfo, Finish, Crash, loop
<1> QED
  BY <1>1, <1>2, <1>3, <1>5, <1>6, <1>7, <1>8 DEF Next, Program, ImportNext

-----------------------------------------------------------------------------
(* All of these together.                                                  *)
CInv ==
  /\ IdInv /\ TabClear /\ TabMirrored /\ SettleInv
  /\ CmdAtPc /\ NoRevs(pim) /\ NoRevs(file) /\ IdsInPlace(pim) /\ IdsInPlace(file)
  /\ ExportClean /\ MarkedLeft /\ TodoHere /\ TabLive /\ OpsHere

LEMMA CInvariant == ASSUME RevFiles = {} PROVE Spec => []CInv
<1>1. Init => CInv
  <2> SUFFICES ASSUME Init PROVE CInv
    OBVIOUS
  <2>1. \A s \in Slots : /\ pim[s].id = 0 /\ file[s].id = 0
                         /\ ~pim[s].newer /\ ~file[s].newer /\ op[s] = "none"
    BY DEF Init, EmptyPim, NoPim
  <2>2. pc = "idle" /\ cmd = "none" /\ tab = {}
    BY DEF Init
  <2>3. IdInv
    BY <2>1, TypeInit DEF IdInv, IdsOK, UniqueIds
  <2>4. /\ TabClear /\ TabMirrored /\ SettleInv /\ CmdAtPc
        /\ ExportClean /\ MarkedLeft /\ TodoHere /\ TabLive
    BY <2>2 DEF TabClear, TabMirrored, SettleInv, ChangesCounted, ChangesKnown,
       DeleteSettled, CmdAtPc, ExportClean, MarkedLeft, TodoHere, TabLive
  <2>5. /\ NoRevs(pim) /\ NoRevs(file) /\ IdsInPlace(pim) /\ IdsInPlace(file) /\ OpsHere
    BY <2>1 DEF NoRevs, IdsInPlace, OpsHere
  <2> QED
    BY <2>3, <2>4, <2>5 DEF CInv
<1>2. CInv /\ IdInv' /\ [Next]_vars => CInv'
  <2> SUFFICES ASSUME CInv, IdInv', [Next]_vars PROVE CInv'
    OBVIOUS
  <2>0. TypeOK
    BY DEF CInv, IdInv
  <2>1. TabClear' /\ TabMirrored' /\ SettleInv'
    BY TabClearStep, TabMirroredStep, SettleStep DEF CInv, MirrorInv
  <2>2. CmdAtPc' /\ NoRevs(pim)' /\ NoRevs(file)' /\ IdsInPlace(pim)' /\ IdsInPlace(file)'
    BY <2>0, CmdAtPcStep, RevsStep, PlacesStep DEF CInv
  <2>3. ExportClean' /\ MarkedLeft' /\ TodoHere' /\ TabLive' /\ OpsHere'
    BY <2>0, ExportCleanStep, MarkedLeftStep, TodoHereStep, TabLiveStep, OpsHereStep
    DEF CInv
  <2> QED
    BY <2>1, <2>2, <2>3 DEF CInv
<1> QED
  BY <1>1, <1>2, IdInvariant, PTL DEF Spec

-----------------------------------------------------------------------------
(* The contract's view of the PIM records.                                 *)
LEMMA ShownIs ==
  /\ \A id : Contract!Holders(id) = ByID(id)
  /\ \A p : \A s \in Slots : /\ Shown(p)[s].id = p[s].id
                             /\ Shown(p)[s].data = p[s].data
                             /\ Shown(p)[s].stat = p[s].stat
  BY DEF Contract!Holders, Shown, ByID, Present

LEMMA ShownPut ==
  ASSUME TypeOK, NEW s \in Slots, NEW id, NEW d
  PROVE  Shown(Ic35ToPim(s, id, d))
           = [Shown(pim) EXCEPT ![s] = [id |-> id, data |-> d, stat |-> "clean"]]
  BY DEF Shown, Ic35ToPim, TypeOK

LEMMA ShownDelete ==
  ASSUME TypeOK, NEW s \in Slots
  PROVE  Shown(PimDelete(s)) = [Shown(pim) EXCEPT ![s] = Contract!NoPim]
  BY DEF Shown, PimDelete, NoPim, Contract!NoPim, TypeOK

LEMMA ShownClean ==
  ASSUME TypeOK, NEW s \in Slots, NEW id
  PROVE  Shown(PimClean(s, id)) = [Shown(pim) EXCEPT ![s].id = id, ![s].stat = "clean"]
<1>1. /\ PimClean(s, id)[s].id = id /\ PimClean(s, id)[s].stat = "clean"
      /\ PimClean(s, id)[s].data = pim[s].data
  BY DEF PimClean, TypeOK, PimRec
<1>2. \A t \in Slots : t # s => PimClean(s, id)[t] = pim[t]
  BY DEF PimClean, TypeOK
<1> QED
  BY <1>1, <1>2 DEF Shown

LEMMA ShownStamped == ASSUME NEW p PROVE Shown(Stamped(p)) = Shown(p)
  BY DEF Shown, Stamped

-----------------------------------------------------------------------------
(* Each step of a command is one of the contract's.                        *)

(* Taking over a record of the IC35.                                       *)
LEMMA Learns ==
  ASSUME CInv, NEW id \in Ids, Live(dev[id]), NEW s \in PutSlots(id),
         pim' = Ic35ToPim(s, id, dev[id].data), UNCHANGED dev,
         cmd \in {"export", "sync"},
         cmd = "sync" /\ s \in ByID(id) => pim[s].stat = "clean"
  PROVE  Contract!Learn(id, s)
<1>1. s \in Slots /\ (s \in ByID(id) \/ ~Present(pim, s))
  BY DEF PutSlots, ByID, FirstFree, FreeSlots
<1>2. ByID(id) \subseteq {s}
  <2> SUFFICES ASSUME NEW t \in ByID(id) PROVE t = s
    OBVIOUS
  <2>1. s \in ByID(id)
    BY DEF PutSlots
  <2> QED
    BY <2>1, IdsAssumption DEF CInv, IdInv, IdsOK, UniqueIds, ByID
<1>3. Shown(pim)' = [Shown(pim) EXCEPT ![s] =
                       [id |-> id, data |-> dev[id].data, stat |-> "clean"]]
  BY <1>1, ShownPut DEF CInv, IdInv, Shown
<1> QED
  BY <1>1, <1>2, <1>3, ShownIs DEF Contract!Learn, Contract!Live, Live, Present

LEMMA ExportKeeps ==
  ASSUME CInv, NEW id \in Ids, ExportRead(id) PROVE Contract!Next
<1>1. PICK s \in PutSlots(id) : pim' = Ic35ToPim(s, id, dev[id].data)
  BY DEF ExportRead
<1>2. s \in Slots
  BY DEF PutSlots, ByID, FirstFree, FreeSlots
<1>3. Live(dev[id]) /\ IdFile[id] = fno /\ UNCHANGED <<dev, file, cmd>> /\ pc = "export"
  BY DEF ExportRead, IsIndex, LiveIds, ctl
<1>4. cmd = "sync" /\ s \in ByID(id) => pim[s].stat = "clean"
  BY <1>3, IdsAssumption DEF CInv, IdsInPlace, ExportClean, PimOf, ByID
<1>5. Contract!Learn(id, s)
  BY <1>1, <1>3, <1>4, Learns DEF CInv, CmdAtPc
<1> QED
  BY <1>2, <1>3, <1>5 DEF Contract!Next, Contract!Session, Shown

LEMMA ModKeeps ==
  ASSUME CInv, NEW id \in Ids, ModRead(id) PROVE [Contract!Next]_Contract!cvars
<1>1. /\ UNCHANGED <<dev, file, cmd>> /\ pc = "mod" /\ cmd = "sync"
      /\ Changed(dev[id])
  BY DEF ModRead, ctl, CInv, CmdAtPc, MarkedLeft
<1>2. CASE UNCHANGED pim
  BY <1>1, <1>2 DEF Contract!cvars, Shown
<1>3. CASE NoConflict(id) /\ Live(dev[id])
  <2>1. PICK s \in PutSlots(id) : pim' = Ic35ToPim(s, id, dev[id].data)
    BY <1>3 DEF ModRead, Received
  <2>2. s \in Slots
    BY DEF PutSlots, ByID, FirstFree, FreeSlots
  <2>3. s \in ByID(id) => pim[s].stat = "clean"
    BY <1>3 DEF NoConflict, RecStat
  <2>4. Contract!Learn(id, s)
    BY <1>1, <1>3, <2>1, <2>3, Learns
  <2> QED
    BY <1>1, <2>2, <2>4 DEF Contract!Next, Contract!Session, Shown
<1>4. CASE NoConflict(id) /\ ~Live(dev[id]) /\ ~UNCHANGED pim
  <2>1. PICK s \in ByID(id) : pim' = PimDelete(s)
    BY <1>4 DEF ModRead, Received
  <2>2. s \in Slots /\ pim[s].stat = "clean"
    BY <1>4 DEF NoConflict, RecStat, ByID
  <2>3. dev[id].chg = "del"
    BY <1>1, <1>4 DEF Changed, Live
  <2>4. Shown(pim)' = [Shown(pim) EXCEPT ![s] = Contract!NoPim]
    BY <2>1, <2>2, ShownDelete DEF CInv, IdInv, Shown
  <2>5. Contract!Drop(id, s)
    BY <1>1, <2>1, <2>2, <2>3, <2>4, ShownIs DEF Contract!Drop
  <2> QED
    BY <1>1, <2>2, <2>5 DEF Contract!Next, Contract!Session, Shown
<1> QED
  BY <1>2, <1>3, <1>4 DEF ModRead

(* Committing a change.                                                    *)
LEMMA Forgets ==
  ASSUME cmd \in {"import", "sync"}, NEW id \in Ids, Mirrored(id), dev' = DevCommit(id)
  PROVE  Contract!Forget(id)
<1>1. Contract!Mirrors(id)
  BY ShownIs DEF Contract!Mirrors, Mirrored, Contract!Live, Live, ByID
<1>2. DevCommit(id) = [dev EXCEPT ![id] = Contract!Cleared(dev[id])]
  BY DEF DevCommit, Contract!Cleared, Contract!Live, Live, Gone
<1> QED
  BY <1>1, <1>2 DEF Contract!Forget

LEMMA CommitKeeps ==
  ASSUME CInv, NEW id \in Ids, Commit(id) PROVE Contract!Next
<1>1. /\ UNCHANGED <<pim, file, cmd>> /\ pc = "commit" /\ id \in tab
      /\ dev' = DevCommit(id)
  BY DEF Commit, AnswerLost, GiveUp, ctl
<1>2. Contract!Forget(id)
  BY <1>1, Forgets DEF CInv, CmdAtPc, TabMirrored
<1> QED
  BY <1>1, <1>2 DEF Contract!Next, Contract!Session, Shown

(* Pushing changes of the PIM file to the IC35.                            *)
LEMMA PushDeletedKeeps ==
  ASSUME CInv, NEW s \in Slots, PushDeleted(s) PROVE [Contract!Next]_Contract!cvars
<1> DEFINE id == pim[s].id
<1>1. /\ UNCHANGED <<file, cmd>> /\ pc = "update" /\ cmd = "sync"
      /\ id \in Ids /\ pim[s].stat = "del"
  BY DEF PushDeleted, AnswerLost, GiveUp, ctl, CInv, CmdAtPc, IdInv, TypeOK, PimRec, RecStat
<1>2. s \in Contract!Holders(id)
  BY <1>1, ShownIs DEF ByID, Present
<1>3. CASE dev' = DevDelete(id)
  <2>1. Contract!Remove(id)
    BY <1>1, <1>2, <1>3, ShownIs DEF Contract!Remove, DevDelete, Gone
  <2>2. \/ UNCHANGED Shown(pim)
        \/ Shown(pim)' = [Shown(pim) EXCEPT ![s] = Contract!NoPim]
    BY ShownDelete DEF PushDeleted, AnswerLost, GiveUp, Shown, CInv, IdInv
  <2> QED
    BY <1>1, <1>2, <2>1, <2>2 DEF Contract!Next, Contract!Session, Shown
<1>4. CASE UNCHANGED <<dev, pim>>
  BY <1>1, <1>4 DEF Contract!cvars, Shown
<1> QED
  BY <1>3, <1>4 DEF PushDeleted, AnswerLost, GiveUp

(* The PIM record is told the record-ID.                                   *)
LEMMA Acknowledges ==
  ASSUME TypeOK, NEW s \in Slots, NEW id, UNCHANGED pim \/ pim' = PimClean(s, id)
  PROVE  Contract!Acknowledge(id, s)
<1>1. CASE UNCHANGED pim
  BY <1>1 DEF Contract!Acknowledge, Shown
<1>2. CASE pim' = PimClean(s, id)
  <2>1. Shown(pim)' = Shown(PimClean(s, id))
    BY <1>2 DEF Shown
  <2>2. Shown(PimClean(s, id)) = [Shown(pim) EXCEPT ![s].id = id, ![s].stat = "clean"]
    BY ShownClean
  <2> QED
    BY <2>1, <2>2 DEF Contract!Acknowledge
<1> QED
  BY <1>1, <1>2

(* The IC35 takes the contents of a PIM record, which may be told so.      *)
LEMMA Teaches ==
  ASSUME CInv, NEW s \in Slots, NEW id \in Ids, Present(pim, s),
         cmd \in {"import", "sync"}, cmd = "sync" => pim[s].stat = "dirty",
         \/ pim[s].id = id
         \/ dev[id].chg = "unborn" /\ (pim[s].id = 0 \/ cmd = "import"),
         dev' = DevPut(id, pim[s].data),
         UNCHANGED pim \/ pim' = PimClean(s, id),
         UNCHANGED <<file, cmd>>
  PROVE  Contract!Next
<1>1. pim[s].id = id => dev[id].chg # "unborn"
  BY IdsAssumption DEF CInv, IdInv, IdsOK, Born
<1>2. Contract!Teach(id, s)
  BY <1>1, ShownIs DEF Contract!Teach, DevPut, Present
<1>3. Contract!Acknowledge(id, s)
  BY Acknowledges DEF CInv, IdInv
<1> QED
  BY <1>2, <1>3 DEF Contract!Next, Contract!Session, Shown

LEMMA PushKeeps ==
  ASSUME CInv, NEW s \in Slots, PushChanged(s) \/ PushNew(s)
  PROVE  [Contract!Next]_Contract!cvars
<1>1. /\ UNCHANGED <<file, cmd>> /\ pc = "update" /\ cmd = "sync"
      /\ Present(pim, s) /\ pim[s].stat = "dirty"
  BY DEF PushChanged, PushNew, AnswerLost, GiveUp, ctl, CInv, CmdAtPc, RecStat, NoRevs,
     Present
<1>2. CASE PushChanged(s)
  <2>1. /\ pim[s].id \in Ids /\ dev' = DevPut(pim[s].id, pim[s].data)
        /\ UNCHANGED pim \/ pim' = PimClean(s, pim[s].id)
    BY <1>2 DEF PushChanged, AnswerLost, GiveUp, CInv, IdInv, TypeOK, PimRec
  <2> QED
    BY <1>1, <2>1, Teaches
<1>3. CASE PushNew(s)
  <2>1. CASE UNCHANGED <<dev, pim>>
    BY <1>1, <2>1 DEF Contract!cvars, Shown
  <2>2. CASE \E id \in FreshIds(fno) : /\ dev' = DevPut(id, pim[s].data)
                                       /\ UNCHANGED pim \/ pim' = PimClean(s, id)
    <3> PICK id \in FreshIds(fno) : /\ dev' = DevPut(id, pim[s].data)
                                    /\ UNCHANGED pim \/ pim' = PimClean(s, id)
      BY <2>2
    <3>1. id \in Ids /\ dev[id].chg = "unborn" /\ pim[s].id = 0
      BY <1>3 DEF FreshIds, PushNew
    <3> QED
      BY <1>1, <3>1, Teaches
  <2> QED
    BY <1>3, <2>1, <2>2 DEF PushNew, AnswerLost, GiveUp
<1> QED
  BY <1>2, <1>3

(* Deleting what the PIM files no longer have.                             *)
LEMMA DeleteKeeps ==
  ASSUME CInv, NEW id \in Ids, Delete(id) PROVE Contract!Next
<1>1. /\ UNCHANGED <<pim, file, cmd>> /\ pc = "delete" /\ cmd = "sync" /\ id \in tab
      /\ dev' = DevDelete(id)
  BY DEF Delete, AnswerLost, GiveUp, ctl, CInv, CmdAtPc
<1>2. Contract!Remove(id)
  BY <1>1, ShownIs DEF Contract!Remove, DevDelete, Gone, CInv, SettleInv, DeleteSettled
<1> QED
  BY <1>1, <1>2 DEF Contract!Next, Contract!Session, Shown

(* The actions of an import.                                               *)
LEMMA ImportKeeps ==
  ASSUME CInv, NEW s \in Slots, ImportExec(s) PROVE [Contract!Next]_Contract!cvars
<1>1. PICK id \in IF op[s] = "write" THEN FreshIds(fno) ELSE {pim[s].id} :
           \/ /\ dev' = Effect(s, id) /\ pim' = PimClean(s, id)
           \/ /\ dev' \in {dev, Effect(s, id)} /\ UNCHANGED pim
  BY DEF ImportExec
<1>2. /\ UNCHANGED <<file, cmd>> /\ pc = "impexec" /\ cmd = "import" /\ op[s] # "none"
      /\ Present(pim, s) /\ op[s] \in {"commit", "update", "write"}
      /\ op[s] # "write" => pim[s].id \in Ids
      /\ op[s] = "commit" => Live(dev[pim[s].id]) /\ dev[pim[s].id].data = pim[s].data
  BY DEF ImportExec, Executed, CInv, CmdAtPc, OpsHere, IdInv, TypeOK, Ops
<1>3. CASE dev' = dev /\ pim' = pim
  BY <1>2, <1>3 DEF Contract!cvars, Shown
<1>4. CASE /\ op[s] # "commit" /\ dev' = Effect(s, id)
           /\ UNCHANGED pim \/ pim' = PimClean(s, id)
  <2>1. dev' = DevPut(id, pim[s].data)
    BY <1>4 DEF Effect
  <2>2. id \in Ids /\ (pim[s].id = id \/ dev[id].chg = "unborn")
    BY <1>1, <1>2 DEF FreshIds
  <2> QED
    BY <1>2, <1>4, <2>1, <2>2, Teaches
<1>5. CASE /\ op[s] = "commit" /\ dev' = Effect(s, id)
           /\ UNCHANGED pim \/ pim' = PimClean(s, id)
  <2>1. id = pim[s].id /\ id \in Ids /\ dev' = DevCommit(id)
    BY <1>1, <1>2, <1>5 DEF Effect
  <2>2. s \in ByID(id) /\ Mirrored(id)
    BY <1>2, <1>5, <2>1 DEF Mirrored, ByID
  <2>3. Contract!Forget(id)
    BY <1>2, <2>1, <2>2, Forgets
  <2>4. s \in Contract!Holders(id)
    BY <2>2, ShownIs
  <2>5. Contract!Acknowledge(id, s)
    BY <1>5, Acknowledges DEF CInv, IdInv
  <2> QED
    BY <1>2, <2>1, <2>3, <2>4, <2>5 DEF Contract!Next, Contract!Session, Shown
<1> QED
  BY <1>1, <1>3, <1>4, <1>5

-----------------------------------------------------------------------------
(* The steps of a run the contract does not see.                           *)
LEMMA HiddenKeep ==
  ASSUME \/ BeginExport \/ ExportDone \/ BeginSync \/ ModLen \/ ModDone \/ CommitDone
         \/ (\E s \in Slots : PushNothing(s)) \/ PushDone \/ Len \/ IndexDone
         \/ (\E id \in Ids : IndexRead(id)) \/ DeleteDone \/ CallFails
         \/ BeginImport \/ ImportCallFails \/ ImportReadDone \/ ImportCompare
         \/ (\E id \in Ids : ImportRead(id)) \/ (\E s \in Slots : ImportFull(s))
         \/ ImportDone
  PROVE  UNCHANGED <<dev, file, pim, cmd>>
<1> USE DEF ctl, GiveUp, FileDone
<1>1. CASE BeginExport \/ ExportDone \/ BeginSync \/ ModLen \/ ModDone \/ CommitDone
           \/ (\E s \in Slots : PushNothing(s)) \/ PushDone
  BY <1>1 DEF BeginExport, ExportDone, BeginSync, ModLen, ModDone, CommitDone, PushNothing,
     PushDone
<1>2. CASE Len \/ IndexDone \/ (\E id \in Ids : IndexRead(id)) \/ DeleteDone \/ CallFails
  BY <1>2 DEF Len, IndexDone, IndexRead, DeleteDone, CallFails
<1>3. CASE BeginImport \/ ImportCallFails \/ ImportReadDone \/ ImportCompare
           \/ (\E id \in Ids : ImportRead(id)) \/ (\E s \in Slots : ImportFull(s))
           \/ ImportDone
  BY <1>3 DEF BeginImport, ImportCallFails, ImportReadDone, ImportCompare, ImportRead,
     ImportFull, ImportDone, Executed
<1> QED
  BY <1>1, <1>2, <1>3

(* Beginning and end of a run, its death, and the user.                    *)
LEMMA FrameKeeps ==
  ASSUME CInv, User \/ (\E c \in Commands : Start(c)) \/ WriteSysInfo \/ Finish \/ Crash
  PROVE  [Contract!Next]_Contract!cvars
<1>0. pc = "idle" <=> cmd = "none"
  BY DEF CInv, CmdAtPc
<1>1. CASE User
  <2>1. UNCHANGED file \/ UNCHANGED dev
    BY <1>1 DEF User, DevCreates, DevEdits, DevDeletes, PimCreates, PimEdits, PimRemoves
  <2> QED
    BY <1>0, <1>1, <2>1, UserIdle DEF Contract!Next, Contract!UserChanges, Shown, ctl
<1>2. CASE \E c \in Commands : Start(c)
  BY <1>0, <1>2, CommandsAssumption
  DEF Start, Contract!Next, Contract!Begin, Shown
<1>3. CASE WriteSysInfo
  <2>1. Shown(pim)' = Shown(pim) /\ Shown(file)' = Shown(file)
    <3>1. CASE UNCHANGED <<pim, file>>
      BY <3>1 DEF Shown
    <3>2. CASE pim' = Stamped(pim) /\ file' = Stamped(file)
      <4>1. Shown(pim)' = Shown(Stamped(pim)) /\ Shown(file)' = Shown(Stamped(file))
        BY <3>2 DEF Shown
      <4> QED
        BY <4>1, ShownStamped
    <3> QED
      BY <1>3, <3>1, <3>2 DEF WriteSysInfo
  <2> QED
    BY <1>3, <2>1 DEF WriteSysInfo, Contract!cvars, ctl
<1>4. Shown(EmptyPim) = [s \in Slots |-> Contract!NoPim]
  BY DEF Shown, EmptyPim, NoPim, Contract!NoPim
<1>5. CASE Finish \/ Crash
  <2>1. /\ cmd # "none" /\ cmd' = "none" /\ UNCHANGED dev /\ pim' = EmptyPim
    BY <1>0, <1>5 DEF Finish, Crash
  <2>2. Shown(pim)' = [s \in Slots |-> Contract!NoPim]
    BY <1>4, <2>1 DEF Shown
  <2>3. CASE Finish
    <3>1. Shown(file)' = Shown(pim)
      BY <2>3 DEF Finish, Shown
    <3> QED
      BY <2>1, <2>2, <3>1 DEF Contract!Next, Contract!End
  <2>4. CASE Crash
    <3>1. \/ UNCHANGED Shown(file)
          \/ \A s \in Slots : Shown(file)'[s] \in {Shown(pim)[s], Contract!NoPim}
      BY <2>4 DEF Crash, Shown, NoPim, Contract!NoPim
    <3> QED
      BY <2>1, <2>2, <3>1 DEF Contract!Next, Contract!Killed
  <2> QED
    BY <1>5, <2>3, <2>4
<1> QED
  BY <1>1, <1>2, <1>3, <1>5

LEMMA StepKeeps == CInv /\ [Next]_vars => [Contract!Next]_Contract!cvars
<1> SUFFICES ASSUME CInv, [Next]_vars PROVE [Contract!Next]_Contract!cvars
  OBVIOUS
<1>1. CASE UNCHANGED <<dev, file, pim, cmd>>
  BY <1>1 DEF Contract!cvars, Shown
<1>2. CASE UNCHANGED vars
  BY <1>1, <1>2 DEF vars, ctl
<1>3. CASE User \/ (\E c \in Commands : Start(c)) \/ WriteSysInfo \/ Finish \/ Crash
  BY <1>3, FrameKeeps
<1>4. CASE SyncNext
  BY <1>1, <1>4, HiddenKeep, ExportKeeps, ModKeeps, CommitKeeps, PushDeletedKeeps,
     PushKeeps, DeleteKeeps DEF SyncNext, Phase0, Phase1, Phase2, Phase3
<1>5. CASE ImportNext
  BY <1>1, <1>5, HiddenKeep, ImportKeeps DEF ImportNext
<1> QED
  BY <1>2, <1>3, <1>4, <1>5 DEF Next, Program

(* Ic35Sync implements the contract, for any number of files and records,  *)
(* whatever fails and whenever a run is killed, if no file holds VCARDs.   *)
THEOREM ContractKept == ASSUME RevFiles = {} PROVE Spec => KeepsContract
<1>1. Init => Contract!Init
  BY DEF Init, Contract!Init, Shown, EmptyPim, NoPim, Contract!NoPim, Unborn
<1>2. CInv /\ [Next]_vars => [Contract!Next]_Contract!cvars
  BY StepKeeps
<1> QED
  BY <1>1, <1>2, CInvariant, PTL DEF Spec, KeepsContract, Contract!Spec

-----------------------------------------------------------------------------
(***************************************************************************)
(* What the synchronisation stamp means, when PIM programs drop the records*)
(* the user deletes: a stamped run has left both stores equal, and left a  *)
(* change mark on the IC35 at conflicts only.                              *)
(***************************************************************************)

(* A record-ID of the file being processed, one with a PIM record that     *)
(* counts as modified, and one deleted here and modified there.            *)
Here(id)     == IdFile[id] = fno
DirtyId(id)  == \E s \in ByID(id) : RecStat(s) = "dirty"
Conflict(id) == dev[id].chg = "del" /\ DirtyId(id)

(* Only a VCARD has a revision time, and the tables of a file hold its own *)
(* record-IDs.                                                             *)
RevInPlace(p) == \A s \in Slots : p[s].newer => SlotFile[s] \in RevFiles
TablesHere ==
  /\ pc # "idle" => \A id \in tab : Here(id)
  /\ pc = "mod" => \A id \in mleft : Here(id)

(* After an initial export every PIM record of the file is the IC35's.     *)
Exported ==
  cmd = "sync" /\ initexp /\ pc \in {"export", "modlen", "mod", "commit"} =>
    \A s \in PimOf(fno) : pim[s].stat = "clean" /\ Matching(s)

(* The loops that read all records of a file have come to know those       *)
(* before the record number they stand at.                                 *)
Rank(id) == Cardinality({j \in LiveIds(IdFile[id]) : j < id})
Read(id) == Rank(id) < irec
ReadAll ==
  /\ pc \in {"export", "index", "impread"} => nrec = Cardinality(LiveIds(fno))
  /\ pc = "export" => \A id \in LiveIds(fno) : Read(id) => ByID(id) # {}
  /\ cmd = "sync" /\ initexp /\ pc \in {"modlen", "mod", "commit"} =>
       \A id \in LiveIds(fno) : ByID(id) # {}
  /\ pc = "index" =>
       \A id \in LiveIds(fno) : Read(id) => id \in tab \/ ByID(id) # {}
  /\ pc = "delete" => \A id \in LiveIds(fno) : id \in tab \/ ByID(id) # {}
  /\ pc = "impread" => \A id \in LiveIds(fno) : Read(id) => id \in tab
  /\ pc = "impcmp" => LiveIds(fno) \subseteq tab
  /\ pc = "impexec" /\ rval = "OK" =>
       \A id \in LiveIds(fno) : id \in tab \/ ByID(id) # {}

(* Where the change marks of the file are on their way to.                 *)
MarksInv ==
  \A id \in Ids : Here(id) /\ Changed(dev[id]) =>
    /\ pc = "mod" => id \in mleft \cup tab \/ DirtyId(id)
    /\ pc = "commit" => id \in tab \/ DirtyId(id)
    /\ pc = "update" =>
         \E s \in ByID(id) : RecStat(s) = "dirty" /\ (s \in todo \/ dev[id].chg = "del")
    /\ pc \in {"len", "index", "delete"} => Conflict(id)

AllPushedInv ==
  pc \in {"len", "index", "delete"} =>
    \A s \in PimOf(fno) : RecStat(s) = "dirty" => Pushed(s)

(* A clean PIM record is the IC35's, or the IC35 has marked a change of it *)
CleanOK(p, d) ==
  \A s \in Slots :
    LET id == p[s].id IN
    /\ id # 0 => d[id].chg # "gone"
    /\ p[s].stat = "clean" =>
         /\ id # 0
         /\ ~p[s].newer => \/ Live(d[id]) /\ d[id].data = p[s].data
                          \/ Changed(d[id])
CleanMatch == crashes = 0 => CleanOK(IF pc = "idle" THEN file ELSE pim, dev)

(* What an import has executed, and what it still writes.                  *)
ImportInv ==
  pc = "impexec" =>
    /\ rval = "OK" => \A s \in PimOf(fno) : op[s] = "none" => Matching(s)
    /\ \A s \in Slots : op[s] = "write" /\ pim[s].id # 0 => ~Live(dev[pim[s].id])

(* The files done are settled.                                             *)
Done(f) == f < fno \/ pc = "stamp"
Settled(f) ==
  /\ \A id \in LiveIds(f) : Mirrored(id)
  /\ \A s \in PimOf(f) : Matching(s) \/ Unresolved(s)
DoneSettled ==
  /\ pc = "stamp" => cmd = "sync" \/ (cmd = "import" /\ same)
  /\ pc # "finish" /\ ((cmd = "sync" /\ crashes = 0) \/ (cmd = "import" /\ same)) =>
       \A f \in Files : Done(f) => Settled(f)
DoneMarks ==
  pc # "finish" /\ cmd = "sync" =>
    \A id \in Ids : Done(IdFile[id]) /\ IdFile[id] \notin RevFiles /\ Changed(dev[id])
                      => Conflict(id)

StampInv == 
  /\ RevInPlace(pim) /\ RevInPlace(file) /\ TablesHere /\ Exported /\ ReadAll /\ MarksInv
  /\ AllPushedInv /\ CleanMatch /\ ImportInv /\ DoneSettled /\ DoneMarks

-----------------------------------------------------------------------------
(* The invariants behind the other theorems.                               *)
BaseInv ==
  /\ IdInv /\ NoMarks(pim) /\ NoMarks(file) /\ TabClear /\ TabMirrored /\ SettleInv
  /\ CmdAtPc /\ IdsInPlace(pim) /\ IdsInPlace(file) /\ TodoHere /\ TabLive /\ OpsHere
  /\ PushInv

LEMMA BaseInvariant == ASSUME PimMarksDeleted = FALSE PROVE Spec => []BaseInv
<1>1. Init => BaseInv
  <2> SUFFICES ASSUME Init PROVE BaseInv
    OBVIOUS
  <2>1. \A s \in Slots : /\ pim[s].id = 0 /\ file[s].id = 0 /\ op[s] = "none"
                         /\ pim[s].stat = "none" /\ file[s].stat = "none"
    BY DEF Init, EmptyPim, NoPim
  <2>2. pc = "idle" /\ cmd = "none" /\ tab = {}
    BY DEF Init
  <2>3. IdInv
    BY <2>1, TypeInit DEF IdInv, IdsOK, UniqueIds
  <2>4. TabClear /\ TabMirrored /\ SettleInv /\ CmdAtPc /\ TodoHere /\ TabLive /\ PushInv
    BY <2>2 DEF TabClear, TabMirrored, SettleInv, ChangesCounted, ChangesKnown,
       DeleteSettled, CmdAtPc, TodoHere, TabLive, PushInv
  <2>5. NoMarks(pim) /\ NoMarks(file) /\ IdsInPlace(pim) /\ IdsInPlace(file) /\ OpsHere
    BY <2>1 DEF NoMarks, IdsInPlace, OpsHere
  <2> QED
    BY <2>3, <2>4, <2>5 DEF BaseInv
<1>2. BaseInv /\ IdInv' /\ [Next]_vars => BaseInv'
  <2> SUFFICES ASSUME BaseInv, IdInv', [Next]_vars PROVE BaseInv'
    OBVIOUS
  <2>0. TypeOK
    BY DEF BaseInv, IdInv
  <2>1. TabClear' /\ TabMirrored' /\ SettleInv'
    BY TabClearStep, TabMirroredStep, SettleStep DEF BaseInv, MirrorInv
  <2>2. NoMarks(pim)' /\ NoMarks(file)' /\ IdsInPlace(pim)' /\ IdsInPlace(file)'
    BY <2>0, NoMarksStep, PlacesStep DEF BaseInv
  <2>3. CmdAtPc' /\ TodoHere' /\ TabLive' /\ OpsHere' /\ PushInv'
    BY <2>0, CmdAtPcStep, TodoHereStep, TabLiveStep, OpsHereStep, PushStep DEF BaseInv
  <2> QED
    BY <2>1, <2>2, <2>3 DEF BaseInv
<1> QED
  BY <1>1, <1>2, IdInvariant, PTL DEF Spec

-----------------------------------------------------------------------------
(* What a step of a command does to the two stores: nothing, or it takes   *)
(* over a record of the IC35 or its deletion, commits a change there, puts *)
(* a PIM record there, or deletes what no PIM record holds.                *)

Takes(id, s) ==
  /\ Live(dev[id]) /\ s \in PutSlots(id)
  /\ pim' = Ic35ToPim(s, id, dev[id].data) /\ UNCHANGED dev
Drops(id, s) ==
  /\ ~Live(dev[id]) /\ s \in ByID(id)
  /\ pim' = PimDelete(s) /\ UNCHANGED dev
Commits(id) == Mirrored(id) /\ dev' = DevCommit(id) /\ UNCHANGED pim
Confirms(id, s) ==
  /\ s \in ByID(id) /\ Matching(s)
  /\ dev' = DevCommit(id) /\ (UNCHANGED pim \/ pim' = PimClean(s, id))
Gives(id, s) ==
  /\ Present(pim, s) /\ SlotFile[s] = fno
  /\ pim[s].id = id \/ id \notin Born(dev)
  /\ dev' = DevPut(id, pim[s].data) /\ (UNCHANGED pim \/ pim' = PimClean(s, id))
Removes(id) == ByID(id) = {} /\ dev' = DevDelete(id) /\ UNCHANGED pim

Works ==
  \/ UNCHANGED <<dev, pim>>
  \/ \E id \in Ids :
       /\ Here(id)
       /\ \/ Commits(id) \/ Removes(id)
          \/ \E s \in Slots : Takes(id, s) \/ Drops(id, s) \/ Confirms(id, s) \/ Gives(id, s)

LEMMA SyncWorks == ASSUME BaseInv, TablesHere, SyncNext PROVE Works
<1> USE DEF BaseInv, IdInv
<1>1. CASE BeginExport \/ ExportDone \/ BeginSync \/ ModLen \/ ModDone \/ CommitDone
           \/ (\E s \in Slots : PushNothing(s)) \/ PushDone \/ Len \/ IndexDone
           \/ (\E id \in Ids : IndexRead(id)) \/ DeleteDone \/ CallFails
  BY <1>1, HiddenKeep DEF Works
<1>2. CASE \E id \in Ids : ExportRead(id)
  <2> PICK id \in Ids : ExportRead(id)
    BY <1>2
  <2>1. PICK s \in PutSlots(id) : pim' = Ic35ToPim(s, id, dev[id].data)
    BY DEF ExportRead
  <2>2. s \in Slots
    BY DEF PutSlots, ByID, FirstFree, FreeSlots
  <2>3. Takes(id, s) /\ Here(id)
    BY <2>1 DEF Takes, ExportRead, IsIndex, LiveIds, Here
  <2> QED
    BY <2>2, <2>3 DEF Works
<1>3. CASE \E id \in Ids : ModRead(id)
  <2> PICK id \in Ids : ModRead(id)
    BY <1>3
  <2>0. Here(id) /\ UNCHANGED dev
    BY DEF ModRead, TablesHere
  <2>1. CASE UNCHANGED pim
    BY <2>0, <2>1 DEF Works
  <2>2. CASE NoConflict(id) /\ Live(dev[id])
    <3>1. PICK s \in PutSlots(id) : pim' = Ic35ToPim(s, id, dev[id].data)
      BY <2>2 DEF ModRead, Received
    <3>2. s \in Slots
      BY DEF PutSlots, ByID, FirstFree, FreeSlots
    <3> QED
      BY <2>0, <2>2, <3>1, <3>2 DEF Works, Takes
  <2>3. CASE NoConflict(id) /\ ~Live(dev[id]) /\ ~UNCHANGED pim
    <3>1. PICK s \in ByID(id) : pim' = PimDelete(s)
      BY <2>3 DEF ModRead, Received
    <3>2. s \in Slots
      BY DEF ByID
    <3> QED
      BY <2>0, <2>3, <3>1, <3>2 DEF Works, Drops
  <2> QED
    BY <2>1, <2>2, <2>3 DEF ModRead
<1>4. CASE \E id \in Ids : Commit(id)
  <2> PICK id \in Ids : Commit(id)
    BY <1>4
  <2>1. Commits(id) /\ Here(id)
    BY DEF Commit, AnswerLost, GiveUp, Commits, TabMirrored, TablesHere
  <2> QED
    BY <2>1 DEF Works
<1>5. CASE \E s \in Slots : PushDeleted(s)
  BY <1>5 DEF PushDeleted, RecStat, NoMarks
<1>6. CASE \E s \in Slots : PushChanged(s)
  <2> PICK s \in Slots : PushChanged(s)
    BY <1>6
  <2>1. pim[s].id \in Ids /\ Present(pim, s)
    BY DEF PushChanged, TypeOK, PimRec, IdsOK, Present
  <2>2. Gives(pim[s].id, s) /\ Here(pim[s].id)
    BY <2>1 DEF PushChanged, AnswerLost, GiveUp, Gives, TodoHere, Here, IdsInPlace
  <2> QED
    BY <2>1, <2>2 DEF Works
<1>7. CASE \E s \in Slots : PushNew(s)
  <2> PICK s \in Slots : PushNew(s)
    BY <1>7
  <2>1. Present(pim, s) /\ SlotFile[s] = fno
    BY DEF PushNew, RecStat, TodoHere, Present
  <2>2. CASE UNCHANGED <<dev, pim>>
    BY <2>2 DEF Works
  <2>3. CASE \E id \in FreshIds(fno) : /\ dev' = DevPut(id, pim[s].data)
                                       /\ UNCHANGED pim \/ pim' = PimClean(s, id)
    <3>1. PICK id \in FreshIds(fno) : /\ dev' = DevPut(id, pim[s].data)
                                      /\ UNCHANGED pim \/ pim' = PimClean(s, id)
      BY <2>3
    <3>2. id \in Ids /\ Here(id) /\ id \notin Born(dev)
      BY DEF FreshIds, Here, Born
    <3> QED
      BY <2>1, <3>1, <3>2 DEF Works, Gives
  <2> QED
    BY <2>2, <2>3 DEF PushNew, AnswerLost, GiveUp
<1>8. CASE \E id \in Ids : Delete(id)
  <2> PICK id \in Ids : Delete(id)
    BY <1>8
  <2>1. Removes(id) /\ Here(id)
    BY DEF Delete, AnswerLost, GiveUp, Removes, SettleInv, DeleteSettled, TablesHere
  <2> QED
    BY <2>1 DEF Works
<1> QED
  BY <1>1, <1>2, <1>3, <1>4, <1>5, <1>6, <1>7, <1>8
  DEF SyncNext, Phase0, Phase1, Phase2, Phase3

LEMMA ExecKinds ==
  ASSUME BaseInv, NEW s \in Slots, ImportExec(s)
  PROVE  /\ Present(pim, s)
         /\ \/ UNCHANGED <<dev, pim>> /\ rval' = "ERR"
            \/ \E id \in Ids :
                 /\ Here(id) /\ (Confirms(id, s) \/ Gives(id, s))
                 /\ rval' = "ERR" \/ (UNCHANGED rval /\ pim' = PimClean(s, id))
                 /\ op[s] # "write" => pim[s].id = id
<1> USE DEF BaseInv, IdInv
<1>1. PICK id \in IF op[s] = "write" THEN FreshIds(fno) ELSE {pim[s].id} :
         \/ /\ dev' = Effect(s, id) /\ pim' = PimClean(s, id) /\ UNCHANGED rval
         \/ /\ dev' \in {dev, Effect(s, id)} /\ UNCHANGED pim /\ rval' = "ERR"
  BY DEF ImportExec
<1>2. /\ pc = "impexec" /\ op[s] # "none" /\ Present(pim, s) /\ SlotFile[s] = fno
      /\ op[s] # "write" => pim[s].id \in Ids
      /\ op[s] = "commit" => Live(dev[pim[s].id]) /\ dev[pim[s].id].data = pim[s].data
  BY DEF ImportExec, OpsHere
<1>3. /\ id \in Ids /\ id # 0 /\ Here(id) /\ (pim[s].id = id \/ id \notin Born(dev))
      /\ op[s] # "write" => pim[s].id = id
  BY <1>1, <1>2, IdsAssumption DEF FreshIds, Here, Born, IdsInPlace
<1>4. CASE UNCHANGED <<dev, pim>> /\ rval' = "ERR"
  BY <1>2, <1>4
<1>5. CASE dev' = Effect(s, id)
  <2>1. UNCHANGED pim \/ pim' = PimClean(s, id)
    BY <1>1
  <2>2. CASE op[s] = "commit"
    <3>1. Confirms(id, s)
      BY <1>2, <1>3, <1>5, <2>1, <2>2 DEF Confirms, Matching, ByID, Effect
    <3> QED
      BY <1>1, <1>2, <1>3, <3>1
  <2>3. CASE op[s] # "commit"
    <3>1. Gives(id, s)
      BY <1>2, <1>3, <1>5, <2>1, <2>3 DEF Gives, Effect
    <3> QED
      BY <1>1, <1>2, <1>3, <3>1
  <2> QED
    BY <2>2, <2>3
<1> QED
  BY <1>1, <1>4, <1>5

LEMMA ImportWorks == ASSUME BaseInv, ImportNext PROVE Works
<1>1. CASE BeginImport \/ ImportCallFails \/ ImportReadDone \/ ImportCompare
           \/ (\E id \in Ids : ImportRead(id)) \/ (\E s \in Slots : ImportFull(s))
           \/ ImportDone
  BY <1>1, HiddenKeep DEF Works
<1>2. CASE \E s \in Slots : ImportExec(s)
  BY <1>2, ExecKinds DEF Works
<1> QED
  BY <1>1, <1>2 DEF ImportNext

(* The one record of the PIM files each of them touches.                   *)
LEMMA TakesAt ==
  ASSUME IdInv, NEW id \in Ids, NEW s \in Slots, Takes(id, s)
  PROVE  /\ pim'[s].id = id /\ pim'[s].data = dev[id].data /\ pim'[s].stat = "clean"
         /\ pim'[s].newer => pim[s].newer \/ IdFile[id] \in RevFiles
         /\ \A t \in Slots : t # s => pim'[t] = pim[t] /\ pim[t].id # id
         /\ pim[s].id \in {0, id} /\ (s \in ByID(id) \/ ~Present(pim, s))
         /\ UNCHANGED dev /\ Live(dev[id])
<1> USE DEF IdInv
<1>0. id # 0
  BY IdsAssumption
<1>1. s \in ByID(id) \/ ~Present(pim, s)
  BY DEF Takes, PutSlots, ByID, FirstFree, FreeSlots
<1>2. pim[s].id \in {0, id}
  BY <1>1 DEF ByID, IdsOK, Present
<1>3. ASSUME NEW t \in Slots, t # s PROVE pim'[t] = pim[t] /\ pim[t].id # id
  <2>1. pim'[t] = pim[t]
    BY <1>3 DEF Takes, Ic35ToPim, TypeOK
  <2>2. ASSUME pim[t].id = id PROVE FALSE
    <3>1. t \in ByID(id)
      BY <1>0, <2>2 DEF ByID, Present, IdsOK
    <3>2. s \in ByID(id)
      BY <3>1 DEF Takes, PutSlots
    <3> QED
      BY <1>0, <1>3, <3>1, <3>2 DEF ByID, IdsOK, UniqueIds
  <2> QED
    BY <2>1, <2>2
<1>4. /\ pim'[s].id = id /\ pim'[s].data = dev[id].data /\ pim'[s].stat = "clean"
      /\ pim'[s].newer => pim[s].newer \/ IdFile[id] \in RevFiles
  BY DEF Takes, Ic35ToPim, TypeOK
<1> QED
  BY <1>1, <1>2, <1>3, <1>4 DEF Takes

LEMMA DropsAt ==
  ASSUME IdInv, NEW id \in Ids, NEW s \in Slots, Drops(id, s)
  PROVE  /\ pim'[s] = NoPim /\ pim[s].id = id /\ UNCHANGED dev /\ ~Live(dev[id])
         /\ \A t \in Slots : t # s => pim'[t] = pim[t] /\ pim[t].id # id
<1>1. pim[s].id = id /\ id # 0
  BY IdsAssumption DEF Drops, ByID
<1> QED
  BY <1>1 DEF Drops, PimDelete, IdInv, TypeOK, IdsOK, UniqueIds

LEMMA CleanAt ==
  ASSUME TypeOK, NEW s \in Slots, NEW id, UNCHANGED pim \/ pim' = PimClean(s, id)
  PROVE  /\ pim'[s].data = pim[s].data /\ pim'[s].newer = pim[s].newer
         /\ pim'[s] = pim[s] \/ (pim'[s].id = id /\ pim'[s].stat = "clean")
         /\ \A t \in Slots : t # s => pim'[t] = pim[t]
<1>1. CASE UNCHANGED pim
  BY <1>1
<1>2. CASE pim' = PimClean(s, id)
  BY <1>2 DEF PimClean, TypeOK, PimRec
<1> QED
  BY <1>1, <1>2

LEMMA CommitAt ==
  ASSUME TypeOK, NEW id \in Ids, dev' = DevCommit(id)
  PROVE  /\ ~Changed(dev'[id]) /\ (Live(dev'[id]) <=> Live(dev[id]))
         /\ Live(dev[id]) => dev'[id].data = dev[id].data
         /\ dev'[id].chg = "gone" => ~Live(dev[id])
         /\ \A j \in Ids : j # id => dev'[j] = dev[j]
<1>1. dev[id] \in DevRec /\ dev'[id] = DevCommit(id)[id]
  BY DEF TypeOK
<1>2. \A j \in Ids : j # id => dev'[j] = dev[j]
  BY DEF DevCommit, TypeOK
<1>3. CASE dev[id].chg = "del"
  BY <1>1, <1>2, <1>3 DEF DevCommit, Changed, Live, Gone, TypeOK
<1>4. CASE Live(dev[id])
  BY <1>1, <1>2, <1>4 DEF DevCommit, Changed, Live, TypeOK, DevRec
<1>5. CASE dev[id].chg # "del" /\ ~Live(dev[id])
  BY <1>1, <1>2, <1>5 DEF DevCommit, Changed, Live, TypeOK, DevRec
<1> QED
  BY <1>3, <1>4, <1>5

LEMMA PutAt ==
  ASSUME TypeOK, NEW id \in Ids, NEW d, dev' = DevPut(id, d)
  PROVE  /\ ~Changed(dev'[id]) /\ Live(dev'[id]) /\ dev'[id].data = d
         /\ dev'[id].chg = "clean"
         /\ \A j \in Ids : j # id => dev'[j] = dev[j]
  BY DEF DevPut, TypeOK, Changed, Live

LEMMA RemoveAt ==
  ASSUME TypeOK, NEW id \in Ids, dev' = DevDelete(id)
  PROVE  /\ ~Changed(dev'[id]) /\ ~Live(dev'[id])
         /\ \A j \in Ids : j # id => dev'[j] = dev[j]
  BY DEF DevDelete, TypeOK, Changed, Live, Gone

(* The record of a PIM slot whose record-ID is not id is not about id.     *)
LEMMA GivesAt ==
  ASSUME IdInv, NEW id \in Ids, NEW s \in Slots, Gives(id, s)
  PROVE  \A t \in Slots : t # s => pim[t].id # id
<1>1. id # 0
  BY IdsAssumption
<1> QED
  BY <1>1 DEF Gives, IdInv, IdsOK, UniqueIds

(* The records of other files are left alone on both sides.                *)
Local ==
  /\ \A id \in Ids : ~Here(id) => dev'[id] = dev[id]
  /\ \A s \in Slots : SlotFile[s] # fno => pim'[s] = pim[s]

LEMMA WorksLocal == ASSUME BaseInv, Works PROVE Local
<1> USE DEF BaseInv, IdInv
<1>1. CASE UNCHANGED <<dev, pim>>
  BY <1>1 DEF Local
<1>2. CASE \E id \in Ids : Here(id) /\ (Commits(id) \/ Removes(id))
  <2> PICK id \in Ids : Here(id) /\ (Commits(id) \/ Removes(id))
    BY <1>2
  <2>1. UNCHANGED pim /\ \A j \in Ids : j # id => dev'[j] = dev[j]
    BY CommitAt, RemoveAt DEF Commits, Removes
  <2> QED
    BY <2>1 DEF Local
<1>3. CASE \E id \in Ids, s \in Slots : Here(id) /\ Takes(id, s)
  <2> PICK id \in Ids, s \in Slots : Here(id) /\ Takes(id, s)
    BY <1>3
  <2>1. SlotFile[s] = fno
    BY IdsAssumption DEF Takes, PutSlots, ByID, FirstFree, FreeSlots, IdsInPlace, Here
  <2> QED
    BY <2>1, TakesAt DEF Local
<1>4. CASE \E id \in Ids, s \in Slots : Here(id) /\ Drops(id, s)
  <2> PICK id \in Ids, s \in Slots : Here(id) /\ Drops(id, s)
    BY <1>4
  <2>1. SlotFile[s] = fno
    BY IdsAssumption DEF Drops, ByID, IdsInPlace, Here
  <2> QED
    BY <2>1, DropsAt DEF Local
<1>5. CASE \E id \in Ids, s \in Slots : Here(id) /\ (Confirms(id, s) \/ Gives(id, s))
  <2> PICK id \in Ids, s \in Slots : Here(id) /\ (Confirms(id, s) \/ Gives(id, s))
    BY <1>5
  <2>1. SlotFile[s] = fno
    BY IdsAssumption DEF Confirms, Gives, ByID, IdsInPlace, Here
  <2>2. \A j \in Ids : j # id => dev'[j] = dev[j]
    BY CommitAt, PutAt DEF Confirms, Gives
  <2>3. \A t \in Slots : t # s => pim'[t] = pim[t]
    BY CleanAt DEF Confirms, Gives
  <2> QED
    BY <2>1, <2>2, <2>3 DEF Local
<1> QED
  BY <1>1, <1>2, <1>3, <1>4, <1>5 DEF Works

(* A revision time stays where it belongs.                                 *)
LEMMA WorksRev == ASSUME BaseInv, Works, RevInPlace(pim) PROVE RevInPlace(pim)'
<1> USE DEF BaseInv, IdInv
<1>1. CASE UNCHANGED pim
  BY <1>1 DEF RevInPlace
<1>2. CASE \E id \in Ids, s \in Slots : Here(id) /\ Takes(id, s)
  <2> PICK id \in Ids, s \in Slots : Here(id) /\ Takes(id, s)
    BY <1>2
  <2>1. SlotFile[s] = IdFile[id]
    BY IdsAssumption DEF Takes, PutSlots, ByID, FirstFree, FreeSlots, IdsInPlace
  <2> QED
    BY <2>1, TakesAt DEF RevInPlace
<1>3. CASE \E id \in Ids, s \in Slots : Drops(id, s)
  BY <1>3, DropsAt DEF RevInPlace, NoPim
<1>4. CASE \E id \in Ids, s \in Slots : Confirms(id, s) \/ Gives(id, s)
  <2> PICK id \in Ids, s \in Slots : Confirms(id, s) \/ Gives(id, s)
    BY <1>4
  <2>1. pim'[s].newer = pim[s].newer /\ \A t \in Slots : t # s => pim'[t] = pim[t]
    BY CleanAt DEF Confirms, Gives
  <2> QED
    BY <2>1 DEF RevInPlace
<1> QED
  BY <1>1, <1>2, <1>3, <1>4 DEF Works, Commits, Removes

(* A command neither begins nor ends with them.                            *)
LEMMA RunsOn ==
  ASSUME SyncNext \/ ImportNext
  PROVE  pc \notin {"idle", "stamp", "finish"} /\ pc' # "idle" /\ UNCHANGED <<file, cmd>>
<1> USE DEF GiveUp, FileDone, ctl
<1>1. CASE Phase0 \/ CallFails
  BY <1>1 DEF Phase0, BeginExport, ExportRead, ExportDone, CallFails
<1>2. CASE Phase1
  BY <1>2 DEF Phase1, BeginSync, ModLen, ModRead, ModDone, Commit, CommitDone, AnswerLost
<1>3. CASE Phase2
  BY <1>3 DEF Phase2, PushDeleted, PushNothing, PushChanged, PushNew, PushDone, AnswerLost
<1>4. CASE Phase3
  BY <1>4 DEF Phase3, Len, IndexRead, IndexDone, Delete, DeleteDone, AnswerLost
<1>5. CASE ImportNext
  <2>1. CASE BeginImport \/ ImportCallFails \/ ImportReadDone \/ ImportCompare
             \/ \E id \in Ids : ImportRead(id)
    BY <1>5, <2>1 DEF BeginImport, ImportCallFails, ImportReadDone, ImportCompare, ImportRead
  <2>2. CASE \E s \in Slots : ImportExec(s) \/ ImportFull(s)
    BY <1>5, <2>2 DEF ImportExec, ImportFull, Executed
  <2>3. CASE ImportDone
    BY <1>5, <2>3 DEF ImportDone
  <2> QED
    BY <1>5, <2>1, <2>2, <2>3 DEF ImportNext
<1> QED
  BY <1>1, <1>2, <1>3, <1>4, <1>5 DEF SyncNext

-----------------------------------------------------------------------------
(* Clean PIM records.  No step of a command makes one that is not the      *)
(* IC35's: what it commits, overwrites or deletes there, the PIM record is *)
(* checked against in the same step, or there is none.                     *)

LEMMA WorksClean ==
  ASSUME BaseInv, Works, CleanOK(pim, dev) PROVE CleanOK(pim', dev')
<1> USE DEF BaseInv, IdInv
<1>0. \A t \in Slots : pim[t].id # 0 => t \in ByID(pim[t].id) /\ pim[t].id \in Ids
  BY DEF ByID, Present, IdsOK, TypeOK, PimRec
<1>1. CASE UNCHANGED <<dev, pim>>
  BY <1>1
<1>2. CASE \E id \in Ids : Commits(id)
  <2> PICK id \in Ids : Commits(id)
    BY <1>2
  <2>1. \A j \in Ids : j # id => dev'[j] = dev[j]
    BY CommitAt DEF Commits
  <2>2. ASSUME NEW t \in Slots, pim[t].id = id, id # 0
        PROVE  Live(dev'[id]) /\ dev'[id].data = pim[t].data
    <3>1. t \in ByID(id)
      BY <1>0, <2>2
    <3>2. Live(dev[id]) /\ \E s \in ByID(id) : pim[s].data = dev[id].data
      BY <3>1 DEF Commits, Mirrored
    <3>3. pim[t].data = dev[id].data
      BY <2>2, <3>1, <3>2 DEF ByID, IdsOK, UniqueIds
    <3> QED
      BY <3>2, <3>3, CommitAt DEF Commits
  <2> QED
    BY <1>0, <2>1, <2>2 DEF CleanOK, Commits, Live
<1>3. CASE \E id \in Ids : Removes(id)
  <2> PICK id \in Ids : Removes(id)
    BY <1>3
  <2>1. \A t \in Slots : pim[t].id # 0 => pim[t].id # id
    BY <1>0 DEF Removes
  <2>2. \A j \in Ids : j # id => dev'[j] = dev[j]
    BY RemoveAt DEF Removes
  <2> QED
    BY <1>0, <2>1, <2>2 DEF CleanOK, Removes
<1>4. CASE \E id \in Ids, s \in Slots : Takes(id, s)
  <2> PICK id \in Ids, s \in Slots : Takes(id, s)
    BY <1>4
  <2>1. /\ pim'[s].id = id /\ pim'[s].data = dev[id].data /\ UNCHANGED dev
        /\ Live(dev[id]) /\ id # 0
        /\ \A t \in Slots : t # s => pim'[t] = pim[t]
    BY TakesAt, IdsAssumption
  <2> QED
    BY <2>1 DEF CleanOK, Live
<1>5. CASE \E id \in Ids, s \in Slots : Drops(id, s)
  <2> PICK id \in Ids, s \in Slots : Drops(id, s)
    BY <1>5
  <2>1. pim'[s] = NoPim /\ UNCHANGED dev /\ \A t \in Slots : t # s => pim'[t] = pim[t]
    BY DropsAt
  <2> QED
    BY <2>1 DEF CleanOK, NoPim
<1>6. CASE \E id \in Ids, s \in Slots : Confirms(id, s) \/ Gives(id, s)
  <2> PICK id \in Ids, s \in Slots : Confirms(id, s) \/ Gives(id, s)
    BY <1>6
  <2>0. id # 0
    BY IdsAssumption
  <2>1. /\ Live(dev'[id]) /\ dev'[id].data = pim[s].data
        /\ \A j \in Ids : j # id => dev'[j] = dev[j]
    <3>1. CASE Confirms(id, s)
      BY <3>1, CommitAt DEF Confirms, Matching, ByID
    <3>2. CASE Gives(id, s)
      BY <3>2, PutAt DEF Gives
    <3> QED
      BY <3>1, <3>2
  <2>2. /\ pim'[s].data = pim[s].data /\ pim'[s].newer = pim[s].newer
        /\ pim'[s] = pim[s] \/ (pim'[s].id = id /\ pim'[s].stat = "clean")
        /\ \A t \in Slots : t # s => pim'[t] = pim[t]
    BY CleanAt DEF Confirms, Gives
  <2>3. \A t \in Slots : t # s => pim[t].id # id
    BY <2>0, GivesAt DEF Confirms, ByID, IdsOK, UniqueIds
  <2>4. ASSUME NEW t \in Slots, t # s
        PROVE  pim'[t] = pim[t] /\ (pim[t].id # 0 => dev'[pim[t].id] = dev[pim[t].id])
    BY <1>0, <2>1, <2>2, <2>3, <2>4
  <2>5. CASE pim'[s].id = id
    BY <2>0, <2>1, <2>2, <2>4, <2>5 DEF CleanOK, Live
  <2>6. CASE pim'[s].id # id
    <3>1. pim'[s] = pim[s]
      BY <2>2, <2>6
    <3>2. pim[s].id # 0 => dev'[pim[s].id] = dev[pim[s].id]
      BY <1>0, <2>1, <2>6, <3>1
    <3> QED
      BY <2>4, <3>1, <3>2 DEF CleanOK
  <2> QED
    BY <2>5, <2>6
<1> QED
  BY <1>1, <1>2, <1>3, <1>4, <1>5, <1>6 DEF Works

(* The user marks what he changes, on both sides.                          *)
LEMMA UserClean ==
  ASSUME PimMarksDeleted = FALSE, BaseInv, User, CleanOK(file, dev)
  PROVE  CleanOK(file', dev')
<1> USE DEF BaseInv, IdInv
<1>0. \A t \in Slots : file[t].id # 0 => file[t].id \in Ids /\ dev[file[t].id].chg # "unborn"
  BY DEF IdsOK, Born
<1>1. CASE \E id \in Ids, d \in Data : DevCreates(id, d)
  <2> PICK id \in Ids, d \in Data : DevCreates(id, d)
    BY <1>1
  <2>1. \A t \in Slots : file[t].id # 0 => dev'[file[t].id] = dev[file[t].id]
    BY <1>0 DEF DevCreates, TypeOK
  <2> QED
    BY <2>1 DEF CleanOK, DevCreates
<1>2. CASE \E id \in Ids, d \in Data : DevEdits(id, d)
  <2> PICK id \in Ids, d \in Data : DevEdits(id, d)
    BY <1>2
  <2>1. Changed(dev'[id]) /\ dev'[id].chg # "gone" /\ \A j \in Ids : j # id => dev'[j] = dev[j]
    BY DEF DevEdits, TypeOK, Changed
  <2> QED
    BY <1>0, <2>1 DEF CleanOK, DevEdits
<1>3. CASE \E id \in Ids : DevDeletes(id)
  <2> PICK id \in Ids : DevDeletes(id)
    BY <1>3
  <2>1. Changed(dev'[id]) /\ dev'[id].chg # "gone" /\ \A j \in Ids : j # id => dev'[j] = dev[j]
    BY DEF DevDeletes, TypeOK, Changed
  <2> QED
    BY <1>0, <2>1 DEF CleanOK, DevDeletes
<1>4. CASE \E s \in Slots, d \in Data : PimCreates(s, d)
  <2> PICK s \in Slots, d \in Data : PimCreates(s, d)
    BY <1>4
  <2>1. file'[s].id = 0 /\ file'[s].stat = "dirty" /\ \A t \in Slots : t # s => file'[t] = file[t]
    BY DEF PimCreates, TypeOK
  <2> QED
    BY <2>1 DEF CleanOK, PimCreates
<1>5. CASE \E s \in Slots, d \in Data : PimEdits(s, d)
  <2> PICK s \in Slots, d \in Data : PimEdits(s, d)
    BY <1>5
  <2>1. file[s] \in PimRec /\ \A t \in Slots : t # s => file'[t] = file[t]
    BY DEF PimEdits, TypeOK
  <2>2. \/ file'[s] = [file[s] EXCEPT !.data = d, !.newer = TRUE]
        \/ file'[s] = [file[s] EXCEPT !.data = d, !.stat = "dirty"]
    BY <2>1 DEF PimEdits, TypeOK, PimRec
  <2>3. file'[s].id = file[s].id
    BY <2>1, <2>2 DEF PimRec
  <2>4. file'[s].stat = "clean" => file'[s].newer /\ file[s].stat = "clean"
    <3>1. CASE file'[s] = [file[s] EXCEPT !.data = d, !.newer = TRUE]
      BY <2>1, <3>1 DEF PimRec
    <3>2. CASE file'[s] = [file[s] EXCEPT !.data = d, !.stat = "dirty"]
      BY <2>1, <3>2 DEF PimRec
    <3> QED
      BY <2>2, <3>1, <3>2
  <2> QED
    BY <2>1, <2>3, <2>4 DEF CleanOK, PimEdits
<1>6. CASE \E s \in Slots : PimRemoves(s)
  <2> PICK s \in Slots : PimRemoves(s)
    BY <1>6
  <2>1. file'[s] = NoPim /\ UNCHANGED dev /\ \A t \in Slots : t # s => file'[t] = file[t]
    BY DEF PimRemoves, TypeOK
  <2> QED
    BY <2>1 DEF CleanOK, NoPim
<1> QED
  BY <1>1, <1>2, <1>3, <1>4, <1>5, <1>6 DEF User

(* Before the stamp is written both sides agree, so that a record revised  *)
(* before the stamp needs no other mark.                                   *)
LEMMA AllSettled ==
  ASSUME DoneSettled, pc = "stamp", crashes = 0 PROVE \A f \in Files : Settled(f)
  BY DEF DoneSettled, Done

LEMMA StampClean ==
  ASSUME BaseInv, DoneSettled, pc = "stamp", crashes = 0, CleanOK(pim, dev)
  PROVE  CleanOK(Stamped(pim), dev)
<1> USE DEF BaseInv, IdInv
<1>1. \A s \in Slots : /\ Stamped(pim)[s].id = pim[s].id /\ Stamped(pim)[s].stat = pim[s].stat
                       /\ Stamped(pim)[s].data = pim[s].data
  BY DEF Stamped, TypeOK, PimRec
<1>2. ASSUME NEW s \in Slots, pim[s].stat = "clean"
      PROVE  \/ Live(dev[pim[s].id]) /\ dev[pim[s].id].data = pim[s].data
             \/ Changed(dev[pim[s].id])
  <2>1. s \in PimOf(SlotFile[s]) /\ SlotFile[s] \in Files
    BY <1>2, SlotsAssumption DEF PimOf, Present
  <2>2. CASE Matching(s)
    BY <2>2 DEF Matching
  <2>3. CASE Unresolved(s)
    <3>1. pim[s].id # 0 /\ ~Live(dev[pim[s].id])
      BY <1>2, <2>3 DEF Unresolved, RecStat
    <3>2. dev[pim[s].id].chg # "gone" /\ pim[s].id \in Ids /\ dev[pim[s].id].chg # "unborn"
      BY <3>1 DEF CleanOK, IdsOK, Born
    <3> QED
      BY <3>1, <3>2 DEF Live, Changed, TypeOK, DevRec, DevFlags
  <2> QED
    BY <2>1, <2>2, <2>3, AllSettled DEF Settled
<1> QED
  BY <1>1, <1>2 DEF CleanOK

LEMMA CrashesStay ==
  ASSUME TypeOK, [Next]_vars PROVE crashes' = 0 => crashes = 0 /\ ~Crash
<1>1. Crash => crashes' # 0
  BY DEF Crash, TypeOK
<1>2. CASE UNCHANGED vars
  BY <1>1, <1>2 DEF vars, count, Crash
<1>3. CASE User \/ (\E c \in Commands : Start(c)) \/ WriteSysInfo \/ Finish
  BY <1>1, <1>3 DEF User, UserEdits, DevCreates, DevEdits, DevDeletes, PimCreates, PimEdits,
     PimRemoves, Start, WriteSysInfo, Finish, Fault, count
<1>4. CASE SyncNext
  BY <1>1, <1>4 DEF SyncNext, Phase0, BeginExport, ExportRead, ExportDone, Phase1, BeginSync,
     ModLen, ModRead, ModDone, Commit, CommitDone, Phase2, PushDeleted, PushNothing,
     PushChanged, PushNew, PushDone, Phase3, Len, IndexRead, IndexDone, Delete, DeleteDone,
     CallFails, AnswerLost, Fault, count
<1>5. CASE ImportNext
  BY <1>1, <1>5 DEF ImportNext, BeginImport, ImportCallFails, ImportRead, ImportReadDone,
     ImportCompare, ImportExec, ImportFull, ImportDone, Fault, count
<1> QED
  BY <1>1, <1>2, <1>3, <1>4, <1>5 DEF Next, Program

LEMMA CleanStep ==
  ASSUME PimMarksDeleted = FALSE, BaseInv, TablesHere, DoneSettled, CleanMatch, [Next]_vars
  PROVE  CleanMatch'
<1> SUFFICES ASSUME crashes' = 0
             PROVE  CleanOK(IF pc' = "idle" THEN file' ELSE pim', dev')
  BY DEF CleanMatch
<1>0. crashes = 0 /\ ~Crash /\ CleanOK(IF pc = "idle" THEN file ELSE pim, dev)
  BY CrashesStay DEF CleanMatch, BaseInv, IdInv
<1>1. CASE UNCHANGED vars
  BY <1>0, <1>1 DEF vars
<1>2. CASE User
  BY <1>0, <1>2, UserIdle, UserClean
<1>3. CASE \E c \in Commands : Start(c)
  BY <1>0, <1>3 DEF Start
<1>4. CASE WriteSysInfo
  BY <1>0, <1>4, StampClean DEF WriteSysInfo
<1>5. CASE Finish
  BY <1>0, <1>5 DEF Finish
<1>6. CASE SyncNext \/ ImportNext
  <2>1. pc # "idle" /\ pc' # "idle"
    BY <1>6, RunsOn
  <2> QED
    BY <1>0, <1>6, <2>1, SyncWorks, ImportWorks, WorksClean
<1> QED
  BY <1>0, <1>1, <1>2, <1>3, <1>4, <1>5, <1>6 DEF Next, Program

-----------------------------------------------------------------------------
(* Revision times and tables.                                              *)

LEMMA RevStep ==
  ASSUME BaseInv, TablesHere, RevInPlace(pim), RevInPlace(file), [Next]_vars
  PROVE  RevInPlace(pim)' /\ RevInPlace(file)'
<1> USE DEF BaseInv, IdInv
<1>0. RevInPlace(EmptyPim) /\ ~NoPim.newer
  BY DEF RevInPlace, EmptyPim, NoPim
<1>1. CASE UNCHANGED <<pim, file>>
  BY <1>1 DEF RevInPlace
<1>2. CASE SyncNext \/ ImportNext
  BY <1>2, SyncWorks, ImportWorks, WorksRev, RunsOn DEF RevInPlace
<1>3. CASE \E s \in Slots, d \in Data : PimEdits(s, d)
  <2> PICK s \in Slots, d \in Data : PimEdits(s, d)
    BY <1>3
  <2>1. file[s] \in PimRec /\ \A t \in Slots : t # s => file'[t] = file[t]
    BY DEF PimEdits, TypeOK
  <2>2. CASE SlotFile[s] \in RevFiles
    BY <1>3, <2>1, <2>2, UserIdle DEF RevInPlace, User
  <2>3. CASE SlotFile[s] \notin RevFiles
    <3>1. file'[s] = [file[s] EXCEPT !.data = d, !.stat = "dirty"]
      BY <2>1, <2>3 DEF PimEdits, TypeOK, PimRec
    <3>2. file'[s].newer = file[s].newer
      BY <2>1, <3>1 DEF PimRec
    <3> QED
      BY <1>3, <2>1, <3>2, UserIdle DEF RevInPlace, User
  <2> QED
    BY <2>2, <2>3
<1>4. CASE \E s \in Slots, d \in Data : PimCreates(s, d)
  <2> PICK s \in Slots, d \in Data : PimCreates(s, d)
    BY <1>4
  <2>1. /\ file'[s].newer => SlotFile[s] \in RevFiles
        /\ \A t \in Slots : t # s => file'[t] = file[t]
    BY DEF PimCreates, TypeOK
  <2> QED
    BY <1>4, <2>1, UserIdle DEF RevInPlace, User
<1>5. CASE \E s \in Slots : PimRemoves(s)
  <2> PICK s \in Slots : PimRemoves(s)
    BY <1>5
  <2>1. file[s] \in PimRec /\ file'[s] \in {[file[s] EXCEPT !.stat = "del"], NoPim}
    BY DEF PimRemoves, TypeOK
  <2>2. \A t \in Slots : t # s => file'[t] = file[t]
    BY DEF PimRemoves, TypeOK
  <2>3. file'[s].newer => file[s].newer
    BY <1>0, <2>1 DEF PimRec
  <2> QED
    BY <1>5, <2>2, <2>3, UserIdle DEF RevInPlace, User
<1>6. CASE \E id \in Ids : DevDeletes(id) \/ \E d \in Data : DevCreates(id, d) \/ DevEdits(id, d)
  BY <1>1, <1>6 DEF DevCreates, DevEdits, DevDeletes, UserEdits
<1>7. CASE (\E c \in Commands : Start(c)) \/ Finish
  BY <1>0, <1>7 DEF Start, Finish, RevInPlace
<1>8. CASE WriteSysInfo
  <2>1. RevInPlace(Stamped(pim)) /\ RevInPlace(Stamped(file))
    BY DEF Stamped, RevInPlace, TypeOK, PimRec
  <2> QED
    BY <1>1, <1>8, <2>1 DEF WriteSysInfo, RevInPlace
<1>9. CASE Crash
  <2>1. pim' = EmptyPim /\ \A t \in Slots : file'[t] \in {file[t], pim[t], NoPim}
    BY <1>9 DEF Crash
  <2> QED
    BY <1>0, <2>1 DEF RevInPlace
<1>10. CASE UNCHANGED vars
  BY <1>1, <1>10 DEF vars
<1> QED
  BY <1>2, <1>3, <1>4, <1>5, <1>6, <1>7, <1>8, <1>9, <1>10 DEF Next, Program, User

(* What the loops collect is of the file they work on.                     *)
LEMMA TablesStep == ASSUME BaseInv, TablesHere, [Next]_vars PROVE TablesHere'
<1> USE DEF TablesHere, Here, NoLoop, GiveUp, FileDone, StartLoop, AnswerLost, ctl, loop
<1>1. CASE UNCHANGED vars
  BY <1>1 DEF vars
<1>2. CASE User
  BY <1>2, UserIdle
<1>3. CASE \E c \in Commands : Start(c)
  BY <1>3 DEF Start, BaseInv, TabClear
<1>4. CASE WriteSysInfo \/ Finish \/ Crash
  BY <1>4 DEF WriteSysInfo, Finish, Crash
<1>5. CASE Phase0
  BY <1>5 DEF Phase0, BeginExport, ExportRead, ExportDone
<1>6. CASE Phase1
  <2>1. CASE BeginSync \/ ModDone \/ CommitDone \/ \E id \in Ids : Commit(id)
    BY <2>1 DEF BeginSync, ModDone, CommitDone, Commit
  <2>2. CASE ModLen
    BY <2>2 DEF ModLen, ChangedIds
  <2>3. CASE \E id \in Ids : ModRead(id)
    BY <2>3 DEF ModRead
  <2> QED
    BY <1>6, <2>1, <2>2, <2>3 DEF Phase1
<1>7. CASE Phase2
  BY <1>7 DEF Phase2, PushDeleted, PushNothing, PushChanged, PushNew, PushDone, Visited,
     VisitedFreed
<1>8. CASE Phase3
  BY <1>8 DEF Phase3, Len, IndexRead, IndexDone, Delete, DeleteDone
<1>9. CASE CallFails
  BY <1>9 DEF CallFails
<1>10. CASE ImportNext
  <2>1. CASE BeginImport \/ ImportCallFails \/ ImportReadDone \/ ImportCompare
             \/ \E id \in Ids : ImportRead(id)
    BY <2>1 DEF BeginImport, ImportCallFails, ImportReadDone, ImportCompare, ImportRead
  <2>2. CASE \E s \in Slots : ImportExec(s) \/ ImportFull(s)
    BY <2>2 DEF ImportExec, ImportFull, Executed
  <2>3. CASE ImportDone
    BY <2>3 DEF ImportDone
  <2> QED
    BY <1>10, <2>1, <2>2, <2>3 DEF ImportNext
<1> QED
  BY <1>1, <1>2, <1>3, <1>4, <1>5, <1>6, <1>7, <1>8, <1>9, <1>10 DEF Next, Program, SyncNext

-----------------------------------------------------------------------------
(* The change marks on the IC35.  Phase 1a sees them all, phase 1b clears  *)
(* those whose change the PIM records took over, and phase 2 those of the  *)
(* records it overwrites: what is left are conflicts.                      *)

(* One PIM record or one IC35 record other than that of id was touched.    *)
LEMMA DirtyStays ==
  ASSUME NEW id \in Ids, NEW s \in ByID(id), RecStat(s) = "dirty", pim'[s] = pim[s]
  PROVE  s \in ByID(id)' /\ RecStat(s)' = "dirty"
  BY DEF ByID, Present, RecStat

LEMMA ModReadMarks ==
  ASSUME BaseInv, MarksInv, NEW id \in Ids, ModRead(id) PROVE MarksInv'
<1> USE DEF BaseInv, IdInv
<1>0. /\ pc = "mod" /\ pc' = "mod" /\ UNCHANGED <<dev, fno>> /\ mleft' = mleft \ {id}
      /\ tab \subseteq tab' /\ id # 0
  BY IdsAssumption DEF ModRead, ctl
<1>1. CASE ~NoConflict(id)
  <2>1. UNCHANGED pim
    BY <1>1 DEF ModRead
  <2>2. PICK s \in ByID(id) : RecStat(s) # "clean"
    BY <1>1 DEF NoConflict
  <2>3. RecStat(s) = "dirty"
    BY <2>2 DEF RecStat, ByID, Present, NoMarks, TypeOK, PimRec, PimStat
  <2>4. DirtyId(id)'
    BY <2>1, <2>2, <2>3 DEF DirtyId, ByID, Present, RecStat
  <2>5. \A j \in Ids : DirtyId(j) => DirtyId(j)'
    BY <2>1 DEF DirtyId, ByID, Present, RecStat
  <2> QED
    BY <1>0, <2>4, <2>5 DEF MarksInv, Here
<1>2. CASE NoConflict(id)
  <2>1. tab' = tab \cup {id}
    BY <1>2 DEF ModRead
  <2>2. \A t \in Slots : pim[t].id # 0 /\ pim[t].id # id => pim'[t] = pim[t]
    <3>1. CASE UNCHANGED pim
      BY <3>1
    <3>2. CASE Live(dev[id])
      <4>1. PICK s \in PutSlots(id) : pim' = Ic35ToPim(s, id, dev[id].data)
        BY <1>2, <3>2 DEF ModRead, Received
      <4>2. s \in Slots /\ Takes(id, s)
        BY <1>0, <3>2, <4>1 DEF Takes, PutSlots, ByID, FirstFree, FreeSlots
      <4> QED
        BY <4>2, TakesAt
    <3>3. CASE ~Live(dev[id]) /\ ~UNCHANGED pim
      <4>1. PICK s \in ByID(id) : pim' = PimDelete(s)
        BY <1>2, <3>3 DEF ModRead, Received
      <4>2. s \in Slots /\ Drops(id, s)
        BY <1>0, <3>3, <4>1 DEF Drops, ByID
      <4> QED
        BY <4>2, DropsAt
    <3> QED
      BY <3>1, <3>2, <3>3
  <2>3. ASSUME NEW j \in Ids, j # id, DirtyId(j) PROVE DirtyId(j)'
    <3>1. PICK s \in ByID(j) : RecStat(s) = "dirty"
      BY <2>3 DEF DirtyId
    <3>2. pim'[s] = pim[s]
      BY <2>2, <2>3, IdsAssumption DEF ByID
    <3> QED
      BY <3>1, <3>2, DirtyStays DEF DirtyId
  <2> QED
    BY <1>0, <2>1, <2>3 DEF MarksInv, Here
<1> QED
  BY <1>1, <1>2

(* A step of phase 2 or 3 that gives id to the IC35, or removes it there.  *)
LEMMA PushMarks ==
  ASSUME BaseInv, MarksInv, pc = "update", pc' = "update", UNCHANGED fno,
         NEW id \in Ids, NEW s \in Slots, Gives(id, s), pim[s].id \in {0, id},
         todo' = todo \ {s}
  PROVE  MarksInv'
<1> USE DEF BaseInv, IdInv
<1>1. ~Changed(dev'[id]) /\ \A j \in Ids : j # id => dev'[j] = dev[j]
  BY PutAt DEF Gives
<1>2. \A t \in Slots : t # s => pim'[t] = pim[t]
  BY CleanAt DEF Gives
<1>3. ASSUME NEW j \in Ids, Here(j), j # id, Changed(dev[j])
      PROVE  \E t \in ByID(j)' : RecStat(t)' = "dirty"
                                 /\ (t \in todo' \/ dev'[j].chg = "del")
  <2>1. PICK t \in ByID(j) : RecStat(t) = "dirty" /\ (t \in todo \/ dev[j].chg = "del")
    BY <1>3 DEF MarksInv
  <2>2. t # s /\ t \in Slots
    BY <1>3, IdsAssumption DEF ByID
  <2>3. t \in ByID(j)' /\ RecStat(t)' = "dirty"
    BY <1>2, <2>1, <2>2, DirtyStays
  <2> QED
    BY <1>1, <1>3, <2>1, <2>2, <2>3
<1> QED
  BY <1>1, <1>3 DEF MarksInv, Here

LEMMA MarksStep == ASSUME BaseInv, TablesHere, MarksInv, [Next]_vars PROVE MarksInv'
<1> USE DEF BaseInv, IdInv
<1>0. ASSUME pc' \notin {"mod", "commit", "update", "len", "index", "delete"} PROVE MarksInv'
  BY <1>0 DEF MarksInv
<1>1. ASSUME UNCHANGED <<dev, pim, fno>> PROVE
        \A id \in Ids : /\ Here(id)' = Here(id) /\ DirtyId(id)' = DirtyId(id)
                        /\ Conflict(id)' = Conflict(id)
                        /\ ByID(id)' = ByID(id) /\ \A s \in Slots : RecStat(s)' = RecStat(s)
  BY <1>1 DEF Here, DirtyId, Conflict, ByID, Present, RecStat
<1>2. CASE UNCHANGED vars
  BY <1>1, <1>2 DEF vars, ctl, loop, MarksInv, ByID
<1>3. CASE User \/ (\E c \in Commands : Start(c)) \/ WriteSysInfo \/ Finish \/ Crash
           \/ Phase0 \/ BeginSync \/ DeleteDone \/ CallFails \/ ImportNext
  BY <1>0, <1>3, OutsideSync
<1>4. CASE ModLen
  <2>1. /\ pc' = "mod" /\ mleft' = ChangedIds(fno) /\ UNCHANGED <<dev, pim, fno>>
    BY <1>4 DEF ModLen, ctl
  <2> QED
    BY <1>1, <2>1 DEF MarksInv, ChangedIds, Here
<1>5. CASE \E id \in Ids : ModRead(id)
  BY <1>5, ModReadMarks
<1>6. CASE ModDone
  <2>1. /\ pc = "mod" /\ pc' = "commit" /\ irec = nrec /\ UNCHANGED <<dev, pim, fno, tab>>
    BY <1>6 DEF ModDone, ctl, loop
  <2>2. mleft = {}
    <3>1. IsFiniteSet(mleft) /\ irec \in Nat
      BY IdsAssumption, FS_Subset DEF TypeOK
    <3>2. Cardinality(mleft) = 0
      BY <2>1, <3>1, FS_CardinalityType DEF SettleInv, ChangesCounted
    <3> QED
      BY <3>1, <3>2, FS_EmptySet
  <2> QED
    BY <1>1, <2>1, <2>2 DEF MarksInv
<1>7. CASE \E id \in Ids : Commit(id)
  <2> PICK id \in Ids : Commit(id)
    BY <1>7
  <2>1. CASE pc' = "finish"
    BY <1>0, <2>1
  <2>2. CASE /\ dev' = DevCommit(id) /\ tab' = tab \ {id} /\ UNCHANGED <<pim, fno, pc>>
             /\ pc = "commit"
    <3>1. ~Changed(dev'[id]) /\ \A j \in Ids : j # id => dev'[j] = dev[j]
      BY <2>2, CommitAt
    <3>2. \A j \in Ids : DirtyId(j)' = DirtyId(j) /\ Here(j)' = Here(j)
      BY <2>2 DEF DirtyId, ByID, Present, RecStat, Here
    <3> QED
      BY <2>2, <3>1, <3>2 DEF MarksInv
  <2> QED
    BY <2>1, <2>2 DEF Commit, AnswerLost, GiveUp, ctl
<1>8. CASE CommitDone
  <2> SUFFICES ASSUME pc' \in {"mod", "commit", "update", "len", "index", "delete"}
               PROVE  MarksInv'
    BY <1>0
  <2>1. /\ pc = "commit" /\ pc' = "update" /\ tab = {} /\ UNCHANGED <<dev, pim, fno>>
        /\ todo' = {s \in PimOf(fno) : RecStat(s) # "clean"}
    BY <1>8 DEF CommitDone, FileDone
  <2>2. ASSUME NEW id \in Ids, Here(id), Changed(dev[id])
        PROVE  \E s \in ByID(id) : RecStat(s) = "dirty" /\ s \in todo'
    <3>1. PICK s \in ByID(id) : RecStat(s) = "dirty"
      BY <2>1, <2>2 DEF MarksInv, DirtyId
    <3>2. s \in PimOf(fno)
      BY <2>2, IdsAssumption DEF ByID, PimOf, IdsInPlace, Here
    <3> QED
      BY <2>1, <3>1, <3>2
  <2> QED
    BY <1>1, <2>1, <2>2 DEF MarksInv, ByID
<1>9. CASE \E s \in Slots : PushDeleted(s)
  BY <1>9 DEF PushDeleted, RecStat, NoMarks
<1>10. CASE \E s \in Slots : PushNothing(s)
  <2> PICK s \in Slots : PushNothing(s)
    BY <1>10
  <2>1. /\ pc = "update" /\ pc' = "update" /\ UNCHANGED <<dev, pim, fno>> /\ todo' = todo \ {s}
        /\ NotOnIC35(s)
    BY DEF PushNothing, Visited, ctl, RecStat, NoMarks
  <2>2. \A j \in Ids : s \in ByID(j) /\ Changed(dev[j]) => dev[j].chg = "del"
    BY <2>1 DEF ByID, NotOnIC35, Live, Changed
  <2> QED
    BY <1>1, <2>1, <2>2 DEF MarksInv, ByID
<1>11. CASE \E s \in Slots : PushChanged(s)
  <2> PICK s \in Slots : PushChanged(s)
    BY <1>11
  <2>1. pim[s].id \in Ids /\ Present(pim, s) /\ SlotFile[s] = fno /\ pc = "update"
    BY DEF PushChanged, TypeOK, PimRec, IdsOK, Present, TodoHere
  <2>2. CASE pc' = "finish"
    BY <1>0, <2>2
  <2>3. CASE /\ dev' = DevPut(pim[s].id, pim[s].data) /\ pim' = PimClean(s, pim[s].id)
             /\ todo' = todo \ {s} /\ UNCHANGED <<pc, fno>>
    <3>1. Gives(pim[s].id, s)
      BY <2>1, <2>3 DEF Gives
    <3> QED
      BY <2>1, <2>3, <3>1, PushMarks
  <2> QED
    BY <2>2, <2>3 DEF PushChanged, AnswerLost, GiveUp, Visited, ctl
<1>12. CASE \E s \in Slots : PushNew(s)
  <2> PICK s \in Slots : PushNew(s)
    BY <1>12
  <2>1. pim[s].id = 0 /\ Present(pim, s) /\ SlotFile[s] = fno /\ pc = "update"
    BY DEF PushNew, RecStat, Present, TodoHere
  <2>2. CASE pc' = "finish"
    BY <1>0, <2>2
  <2>3. CASE \E id \in FreshIds(fno) :
               /\ dev' = DevPut(id, pim[s].data) /\ pim' = PimClean(s, id)
               /\ todo' = todo \ {s} /\ UNCHANGED <<pc, fno>>
    <3>1. PICK id \in FreshIds(fno) :
               /\ dev' = DevPut(id, pim[s].data) /\ pim' = PimClean(s, id)
               /\ todo' = todo \ {s} /\ UNCHANGED <<pc, fno>>
      BY <2>3
    <3>2. id \in Ids /\ Gives(id, s)
      BY <2>1, <3>1 DEF FreshIds, Born, Gives
    <3> QED
      BY <2>1, <3>1, <3>2, PushMarks
  <2> QED
    BY <2>2, <2>3 DEF PushNew, AnswerLost, GiveUp, Visited, ctl
<1>13. CASE PushDone
  <2>1. /\ pc = "update" /\ pc' = "len" /\ todo = {} /\ UNCHANGED <<dev, pim, fno>>
    BY <1>13 DEF PushDone, ctl
  <2> QED
    BY <1>1, <2>1 DEF MarksInv, Conflict, DirtyId
<1>14. CASE Len \/ IndexDone \/ \E id \in Ids : IndexRead(id)
  <2>1. /\ pc \in {"len", "index", "delete"} /\ pc' \in {"len", "index", "delete"}
        /\ UNCHANGED <<dev, pim, fno>>
    BY <1>14 DEF Len, IndexDone, IndexRead, ctl
  <2> QED
    BY <1>1, <2>1 DEF MarksInv
<1>15. CASE \E id \in Ids : Delete(id)
  <2> PICK id \in Ids : Delete(id)
    BY <1>15
  <2>1. CASE pc' = "finish"
    BY <1>0, <2>1
  <2>2. CASE /\ dev' = DevDelete(id) /\ UNCHANGED <<pim, pc, fno>> /\ pc = "delete"
    <3>1. ~Changed(dev'[id]) /\ \A j \in Ids : j # id => dev'[j] = dev[j]
      BY <2>2, RemoveAt
    <3>2. \A j \in Ids : DirtyId(j)' = DirtyId(j) /\ Here(j)' = Here(j)
      BY <2>2 DEF DirtyId, ByID, Present, RecStat, Here
    <3> QED
      BY <2>2, <3>1, <3>2 DEF MarksInv, Conflict
  <2> QED
    BY <2>1, <2>2 DEF Delete, AnswerLost, GiveUp, ctl
<1> QED
  BY <1>2, <1>3, <1>4, <1>5, <1>6, <1>7, <1>8, <1>9, <1>10, <1>11, <1>12, <1>13, <1>14,
     <1>15 DEF Next, Program, SyncNext, Phase1, Phase2, Phase3

-----------------------------------------------------------------------------
(* Loops over all records.  The record number of the loop is the rank of   *)
(* the next record among the live ones of the file.                        *)

LEMMA RankNat ==
  ASSUME NEW id, NEW f, IdFile[id] = f
  PROVE  /\ IsFiniteSet({j \in LiveIds(f) : j < id}) /\ Rank(id) \in Nat
         /\ Rank(id) = Cardinality({j \in LiveIds(f) : j < id})
<1>1. {j \in LiveIds(f) : j < id} \in SUBSET LiveIds(f)
  OBVIOUS
<1> QED
  BY <1>1, CountsTyped, FS_Subset, FS_CardinalityType DEF Rank

LEMMA RankOrder ==
  ASSUME NEW f, NEW id \in LiveIds(f), NEW j \in LiveIds(f), j < id
  PROVE  Rank(j) < Rank(id)
<1> DEFINE Below(n) == {k \in LiveIds(f) : k < n}
<1>1. IdFile[id] = f /\ IdFile[j] = f
  BY DEF LiveIds
<1>2. id \in Nat /\ j \in Nat /\ LiveIds(f) \subseteq Nat
  BY IdsAssumption DEF LiveIds
<1>3. Below(j) \subseteq Below(id) /\ j \in Below(id) /\ j \notin Below(j)
  BY <1>2
<1>4. IsFiniteSet(Below(id)) /\ Rank(id) = Cardinality(Below(id)) /\ Rank(id) \in Nat
      /\ Rank(j) = Cardinality(Below(j)) /\ Rank(j) \in Nat
  BY <1>1, RankNat
<1> HIDE DEF Below
<1>5. Cardinality(Below(j)) <= Cardinality(Below(id))
      /\ Cardinality(Below(j)) # Cardinality(Below(id))
  BY <1>3, <1>4, FS_Subset
<1> QED
  BY <1>4, <1>5

(* The record just read is the only one of its rank.                       *)
LEMMA ReadOne ==
  ASSUME TypeOK, NEW id \in Ids, IdFile[id] = fno, IsIndex(id, irec),
         NEW j \in LiveIds(fno), Rank(j) < irec + 1
  PROVE  Rank(j) < irec \/ j = id
<1>1. id \in LiveIds(fno) /\ Rank(id) = irec /\ IdFile[j] = fno
  BY DEF IsIndex, Rank, LiveIds
<1>2. id \in Nat /\ j \in Nat /\ irec \in Nat /\ Rank(j) \in Nat
  BY <1>1, IdsAssumption, RankNat DEF LiveIds, TypeOK
<1>3. CASE j < id
  BY <1>1, <1>3, RankOrder
<1>4. CASE id < j
  BY <1>1, <1>2, <1>4, RankOrder
<1> QED
  BY <1>2, <1>3, <1>4

(* After as many reads as there are records all have been read.            *)
LEMMA ReadLast ==
  ASSUME NEW f, NEW id \in LiveIds(f) PROVE Rank(id) < Cardinality(LiveIds(f))
<1> DEFINE Below == {k \in LiveIds(f) : k < id}
<1>1. IdFile[id] = f /\ id \in Nat
  BY IdsAssumption DEF LiveIds
<1>2. Below \subseteq LiveIds(f) /\ id \notin Below
  BY <1>1
<1>3. Rank(id) = Cardinality(Below) /\ Rank(id) \in Nat
  BY <1>1, RankNat
<1> HIDE DEF Below
<1>4. Cardinality(Below) <= Cardinality(LiveIds(f)) /\ Cardinality(Below) # Cardinality(LiveIds(f))
  BY <1>2, CountsTyped, FS_Subset
<1> QED
  BY <1>3, <1>4, CountsTyped

(* What does not change the IC35 does not change the ranks.                *)
LEMMA SameRanks ==
  ASSUME UNCHANGED dev
  PROVE  \A id : LiveIds(id)' = LiveIds(id) /\ Rank(id)' = Rank(id)
  BY DEF LiveIds, Rank

(* A record-ID is held as long as its PIM record keeps it.                 *)
LEMMA Held ==
  ASSUME NEW id, id # 0, ByID(id) # {},
         \A t \in Slots : pim[t].id = id /\ Present(pim, t)
                          => pim'[t].id = id /\ Present(pim', t)
  PROVE  ByID(id)' # {}
  BY DEF ByID

(* An action of an import that puts a record on the IC35 touches no other, *)
(* and one that succeeds leaves its PIM record matching.                   *)
LEMMA ExecMatches ==
  ASSUME BaseInv, NEW s \in Slots, NEW id \in Ids, Confirms(id, s) \/ Gives(id, s)
  PROVE  /\ pim' = PimClean(s, id) => Matching(s)' /\ pim'[s].id = id /\ Present(pim', s)
         /\ \A j \in Ids : j # id => dev'[j] = dev[j]
         /\ \A t \in Slots : t # s =>
              pim'[t] = pim[t] /\ pim[t].id # id /\ (Matching(t) => Matching(t)')
<1> USE DEF BaseInv, IdInv
<1>0. id # 0 /\ TypeOK
  BY IdsAssumption
<1>1. /\ pim'[s].data = pim[s].data /\ \A t \in Slots : t # s => pim'[t] = pim[t]
      /\ pim' = PimClean(s, id) => pim'[s].id = id /\ pim'[s].stat = "clean"
  BY CleanAt DEF Confirms, Gives, PimClean, TypeOK, PimRec
<1>2. /\ Live(dev'[id]) /\ dev'[id].data = pim[s].data
      /\ \A j \in Ids : j # id => dev'[j] = dev[j]
  <2>1. CASE Confirms(id, s)
    BY <2>1, CommitAt DEF Confirms, Matching, ByID
  <2>2. CASE Gives(id, s)
    BY <2>2, PutAt DEF Gives
  <2> QED
    BY <2>1, <2>2
<1>3. \A t \in Slots : t # s => pim[t].id # id
  <2>1. CASE Confirms(id, s)
    BY <1>0, <2>1 DEF Confirms, ByID, IdsOK, UniqueIds
  <2>2. CASE Gives(id, s)
    BY <2>2, GivesAt
  <2> QED
    BY <2>1, <2>2
<1>4. ASSUME NEW t \in Slots, t # s, Matching(t) PROVE Matching(t)'
  <2>1. pim[t].id \in Ids /\ pim[t].id # id
    BY <1>3, <1>4 DEF Matching, TypeOK, PimRec
  <2> QED
    BY <1>1, <1>2, <1>4, <2>1 DEF Matching
<1> QED
  BY <1>0, <1>1, <1>2, <1>3, <1>4 DEF Matching, Present

-----------------------------------------------------------------------------
(* The initial export: what phase 0 put into the PIM records is what the   *)
(* IC35 holds, until the file is done.                                     *)

(* The steps that read or commit nothing of an exported file.              *)
LEMMA NoExport ==
  ASSUME TypeOK,
         \/ User \/ (\E c \in Commands : Start(c)) \/ WriteSysInfo \/ Finish \/ Crash
         \/ Phase2 \/ Phase3 \/ CallFails \/ CommitDone \/ ImportNext \/ BeginSync
  PROVE  pc' \in {"export", "modlen", "mod", "commit"} => ~initexp'
<1> USE DEF GiveUp, FileDone, AnswerLost, ctl
<1>1. CASE User
  BY <1>1, UserIdle
<1>2. CASE (\E c \in Commands : Start(c)) \/ WriteSysInfo \/ Finish \/ Crash
  BY <1>2, FrameTo
<1>3. CASE Phase2
  BY <1>3 DEF Phase2, PushDeleted, PushNothing, PushChanged, PushNew, PushDone
<1>4. CASE Phase3
  BY <1>4 DEF Phase3, Len, IndexRead, IndexDone, Delete, DeleteDone
<1>5. CASE CallFails \/ CommitDone \/ BeginSync
  BY <1>5 DEF CallFails, CommitDone, BeginSync
<1>6. CASE ImportNext
  <2>1. CASE BeginImport \/ ImportCallFails \/ ImportReadDone \/ ImportCompare
             \/ \E id \in Ids : ImportRead(id)
    BY <2>1 DEF BeginImport, ImportCallFails, ImportReadDone, ImportCompare, ImportRead
  <2>2. CASE \E s \in Slots : ImportExec(s) \/ ImportFull(s)
    BY <2>2 DEF ImportExec, ImportFull, Executed
  <2>3. CASE ImportDone
    BY <2>3 DEF ImportDone
  <2> QED
    BY <1>6, <2>1, <2>2, <2>3 DEF ImportNext
<1> QED
  BY <1>1, <1>2, <1>3, <1>4, <1>5, <1>6

LEMMA TakesMatches ==
  ASSUME IdInv, NEW id \in Ids, NEW s \in Slots, Takes(id, s)
  PROVE  /\ Matching(s)' /\ pim'[s].stat = "clean"
         /\ \A t \in Slots : t # s => pim'[t] = pim[t] /\ (Matching(t) => Matching(t)')
  BY TakesAt, IdsAssumption DEF Matching

LEMMA ExportedStep == ASSUME BaseInv, TablesHere, Exported, [Next]_vars PROVE Exported'
<1> USE DEF BaseInv, IdInv
<1>1. CASE UNCHANGED vars
  BY <1>1 DEF vars, ctl, Exported, PimOf, Present, Matching
<1>2. CASE \/ User \/ (\E c \in Commands : Start(c)) \/ WriteSysInfo \/ Finish \/ Crash
           \/ Phase2 \/ Phase3 \/ CallFails \/ CommitDone \/ ImportNext \/ BeginSync
  BY <1>2, NoExport DEF Exported
<1>3. CASE BeginExport
  BY <1>3 DEF BeginExport, Exported, PimOf, Present
<1>4. CASE ExportDone \/ ModLen \/ ModDone
  <2>1. /\ UNCHANGED <<dev, pim, cmd>>
        /\ \/ pc' \notin {"export", "modlen", "mod", "commit"} \/ cmd' # "sync"
           \/ UNCHANGED <<fno, initexp>> /\ pc \in {"export", "modlen", "mod"}
    BY <1>4 DEF ExportDone, ModLen, ModDone, FileDone, ctl
  <2> QED
    BY <2>1 DEF Exported, PimOf, Present, Matching
<1>5. CASE \E id \in Ids : ExportRead(id) \/ ModRead(id)
  <2> PICK id \in Ids : ExportRead(id) \/ ModRead(id)
    BY <1>5
  <2>1. UNCHANGED <<dev, pc, cmd, fno, initexp>> /\ pc \in {"export", "mod"}
    BY DEF ExportRead, ModRead, ctl
  <2>2. CASE UNCHANGED pim
    BY <2>1, <2>2 DEF Exported, PimOf, Present, Matching
  <2>3. CASE \E s \in PutSlots(id) : Live(dev[id]) /\ pim' = Ic35ToPim(s, id, dev[id].data)
    <3>1. PICK s \in PutSlots(id) : Live(dev[id]) /\ pim' = Ic35ToPim(s, id, dev[id].data)
      BY <2>3
    <3>2. s \in Slots /\ Takes(id, s)
      BY <2>1, <3>1 DEF Takes, PutSlots, ByID, FirstFree, FreeSlots
    <3> QED
      BY <2>1, <3>2, TakesMatches DEF Exported, PimOf, Present
  <2>4. CASE \E s \in ByID(id) : ~Live(dev[id]) /\ pim' = PimDelete(s)
    <3>1. PICK s \in ByID(id) : ~Live(dev[id]) /\ pim' = PimDelete(s)
      BY <2>4
    <3>2. s \in Slots /\ Drops(id, s)
      BY <2>1, <3>1 DEF Drops, ByID
    <3> QED
      BY <2>1, <3>2, DropsAt DEF Exported, PimOf, Present, Matching, NoPim
  <2>5. ExportRead(id) => Live(dev[id])
    BY DEF ExportRead, IsIndex, LiveIds
  <2> QED
    BY <2>2, <2>3, <2>4, <2>5 DEF ExportRead, ModRead, Received
<1>6. CASE \E id \in Ids : Commit(id)
  <2> PICK id \in Ids : Commit(id)
    BY <1>6
  <2>1. CASE pc' = "finish"
    BY <2>1 DEF Exported
  <2>2. CASE dev' = DevCommit(id) /\ UNCHANGED <<pim, pc, cmd, fno, initexp>> /\ pc = "commit"
    <3>1. \A j \in Ids : Live(dev[j]) => Live(dev'[j]) /\ dev'[j].data = dev[j].data
      BY <2>2, CommitAt
    <3>2. \A t \in Slots : Matching(t) => pim[t].id \in Ids
      BY DEF Matching, TypeOK, PimRec
    <3> QED
      BY <2>2, <3>1, <3>2 DEF Exported, PimOf, Present, Matching
  <2> QED
    BY <2>1, <2>2 DEF Commit, AnswerLost, GiveUp, ctl
<1> QED
  BY <1>1, <1>2, <1>3, <1>4, <1>5, <1>6 DEF Next, Program, SyncNext, Phase0, Phase1

-----------------------------------------------------------------------------
(* What the reading loops have come to know.                               *)

LEMMA SyncReads ==
  ASSUME BaseInv, TablesHere, ReadAll, SyncNext PROVE ReadAll'
<1> USE DEF BaseInv, IdInv
<1>0. \A id \in Ids : id # 0 /\ IdFile[id] \in Files
  BY IdsAssumption
<1>a. ASSUME pc' \in {"file", "stamp", "finish", "update", "len"} PROVE ReadAll'
  BY <1>a DEF ReadAll
<1>b. ASSUME UNCHANGED <<dev, pim>>
      PROVE  \A id : LiveIds(id)' = LiveIds(id) /\ Rank(id)' = Rank(id) /\ ByID(id)' = ByID(id)
  BY <1>b, SameRanks DEF ByID, Present
<1>1. CASE BeginExport \/ Len
  <2>1. /\ irec' = 0 /\ nrec' = Cardinality(LiveIds(fno)) /\ UNCHANGED <<dev, pim, fno>>
        /\ pc' \in {"export", "index"}
    BY <1>1 DEF BeginExport, Len, StartLoop, ctl
  <2>2. ASSUME NEW id \in LiveIds(fno) PROVE ~(Rank(id) < 0)
    <3>1. Rank(id) \in Nat
      BY RankNat
    <3> QED
      BY <3>1
  <2> QED
    BY <1>b, <2>1, <2>2 DEF ReadAll, Read
<1>2. CASE \E id \in Ids : ExportRead(id)
  <2> PICK id \in Ids : ExportRead(id)
    BY <1>2
  <2>1. PICK s \in PutSlots(id) : pim' = Ic35ToPim(s, id, dev[id].data)
    BY DEF ExportRead
  <2>2. /\ UNCHANGED <<dev, pc, fno, nrec>> /\ pc = "export" /\ irec' = irec + 1
        /\ IdFile[id] = fno /\ IsIndex(id, irec)
    BY DEF ExportRead, ctl
  <2>3. s \in Slots /\ Takes(id, s)
    BY <2>1, <2>2 DEF Takes, IsIndex, LiveIds, PutSlots, ByID, FirstFree, FreeSlots
  <2>4. s \in ByID(id)'
    BY <2>3, TakesAt DEF ByID, Present
  <2>5. ASSUME NEW j \in LiveIds(fno), j # id, ByID(j) # {} PROVE ByID(j)' # {}
    <3>1. j # 0
      BY <1>0 DEF LiveIds
    <3>2. ASSUME NEW t \in Slots, pim[t].id = j PROVE pim'[t] = pim[t]
      BY <2>3, <2>5, <3>1, <3>2, TakesAt
    <3> QED
      BY <2>5, <3>1, <3>2, Held DEF Present
  <2>6. \A j \in LiveIds(fno) : Rank(j) < irec + 1 => Rank(j) < irec \/ j = id
    BY <2>2, ReadOne
  <2>7. LiveIds(fno)' = LiveIds(fno) /\ \A j : Rank(j)' = Rank(j)
    BY <2>2, SameRanks
  <2> QED
    BY <2>2, <2>4, <2>5, <2>6, <2>7 DEF ReadAll, Read
<1>3. CASE ExportDone
  <2>1. CASE cmd = "export"
    BY <1>a, <1>3, <2>1 DEF ExportDone, FileDone
  <2>2. CASE cmd # "export"
    <3>1. /\ pc = "export" /\ irec = nrec /\ pc' = "modlen" /\ UNCHANGED <<dev, pim, fno>>
      BY <1>3, <2>2 DEF ExportDone
    <3>2. \A id \in LiveIds(fno) : Read(id)
      BY <3>1, ReadLast DEF ReadAll, Read
    <3> QED
      BY <1>b, <3>1, <3>2 DEF ReadAll
  <2> QED
    BY <2>1, <2>2
<1>4. CASE BeginSync \/ ModLen \/ ModDone
  <2>1. /\ UNCHANGED <<dev, pim, cmd, fno>> /\ pc' \in {"modlen", "mod", "commit"}
        /\ initexp' => initexp /\ pc \in {"modlen", "mod", "commit"}
    BY <1>4 DEF BeginSync, ModLen, ModDone, ctl, TypeOK
  <2> QED
    BY <1>b, <2>1 DEF ReadAll
<1>5. CASE \E id \in Ids : ModRead(id)
  <2> PICK id \in Ids : ModRead(id)
    BY <1>5
  <2>1. UNCHANGED <<dev, pc, cmd, fno, initexp>> /\ pc = "mod"
    BY DEF ModRead, ctl
  <2>2. ASSUME NEW j \in LiveIds(fno), ByID(j) # {} PROVE ByID(j)' # {}
    <3>0. j \in Ids /\ j # 0 /\ Live(dev[j])
      BY <1>0 DEF LiveIds
    <3>1. CASE UNCHANGED pim
      BY <2>2, <3>1 DEF ByID, Present
    <3>2. CASE Live(dev[id]) /\ ~UNCHANGED pim
      <4>1. PICK s \in PutSlots(id) : pim' = Ic35ToPim(s, id, dev[id].data)
        BY <3>2 DEF ModRead, Received
      <4>2. s \in Slots /\ Takes(id, s)
        BY <2>1, <3>2, <4>1 DEF Takes, PutSlots, ByID, FirstFree, FreeSlots
      <4>3. CASE j = id
        <5>1. s \in ByID(j)'
          BY <4>2, <4>3, TakesAt DEF ByID, Present
        <5> QED
          BY <5>1
      <4>4. CASE j # id
        <5>1. ASSUME NEW t \in Slots, pim[t].id = j PROVE pim'[t] = pim[t]
          BY <3>0, <4>2, <4>4, <5>1, TakesAt
        <5> QED
          BY <2>2, <3>0, <5>1, Held DEF Present
      <4> QED
        BY <4>3, <4>4
    <3>3. CASE ~Live(dev[id]) /\ ~UNCHANGED pim
      <4>1. PICK s \in ByID(id) : pim' = PimDelete(s)
        BY <3>3 DEF ModRead, Received
      <4>2. s \in Slots /\ Drops(id, s)
        BY <2>1, <3>3, <4>1 DEF Drops, ByID
      <4>3. ASSUME NEW t \in Slots, pim[t].id = j PROVE pim'[t] = pim[t]
        BY <3>0, <3>3, <4>2, <4>3, DropsAt
      <4> QED
        BY <2>2, <3>0, <4>3, Held DEF Present
    <3> QED
      BY <3>1, <3>2, <3>3
  <2>3. LiveIds(fno)' = LiveIds(fno)
    BY <2>1, SameRanks
  <2> QED
    BY <2>1, <2>2, <2>3 DEF ReadAll
<1>6. CASE \E id \in Ids : Commit(id) \/ Delete(id)
  <2> PICK id \in Ids : Commit(id) \/ Delete(id)
    BY <1>6
  <2>1. CASE pc' = "finish"
    BY <1>a, <2>1
  <2>2. CASE pc' # "finish"
    <3>1. /\ dev' \in {DevCommit(id), DevDelete(id)}
          /\ UNCHANGED <<pim, pc, cmd, fno, initexp>> /\ pc \in {"commit", "delete"}
          /\ tab' = tab \ {id} /\ (pc = "delete" => dev' = DevDelete(id))
      BY <2>2 DEF Commit, Delete, AnswerLost, GiveUp, ctl
    <3>2. LiveIds(fno)' \subseteq LiveIds(fno)
      BY <3>1, CommitAt, RemoveAt DEF LiveIds
    <3>3. pc = "delete" => id \notin LiveIds(fno)'
      BY <3>1, RemoveAt DEF LiveIds
    <3>4. \A j : ByID(j)' = ByID(j)
      BY <3>1 DEF ByID, Present
    <3> QED
      BY <3>1, <3>2, <3>3, <3>4 DEF ReadAll
  <2> QED
    BY <2>1, <2>2
<1>7. CASE CommitDone \/ DeleteDone \/ PushDone \/ CallFails
  BY <1>a, <1>7 DEF CommitDone, DeleteDone, PushDone, CallFails, FileDone, GiveUp
<1>8. CASE \E s \in Slots : PushDeleted(s) \/ PushNothing(s) \/ PushChanged(s) \/ PushNew(s)
  <2>1. pc' \in {"update", "finish"}
    BY <1>8 DEF PushDeleted, PushNothing, PushChanged, PushNew, AnswerLost, GiveUp, ctl
  <2> QED
    BY <1>a, <2>1
<1>9. CASE \E id \in Ids : IndexRead(id)
  <2> PICK id \in Ids : IndexRead(id)
    BY <1>9
  <2>1. /\ UNCHANGED <<dev, pim, pc, fno, nrec>> /\ pc = "index" /\ irec' = irec + 1
        /\ IdFile[id] = fno /\ IsIndex(id, irec)
        /\ tab' = IF ByID(id) = {} THEN tab \cup {id} ELSE tab
    BY DEF IndexRead, ctl
  <2>2. \A j \in LiveIds(fno) : Rank(j) < irec + 1 => Rank(j) < irec \/ j = id
    BY <2>1, ReadOne
  <2> QED
    BY <1>b, <2>1, <2>2 DEF ReadAll, Read
<1>10. CASE IndexDone
  <2>1. /\ pc = "index" /\ irec = nrec /\ pc' = "delete" /\ UNCHANGED <<dev, pim, fno, tab>>
    BY <1>10 DEF IndexDone, ctl, loop
  <2>2. \A id \in LiveIds(fno) : Read(id)
    BY <2>1, ReadLast DEF ReadAll, Read
  <2> QED
    BY <1>b, <2>1, <2>2 DEF ReadAll
<1> QED
  BY <1>1, <1>2, <1>3, <1>4, <1>5, <1>6, <1>7, <1>8, <1>9, <1>10
  DEF SyncNext, Phase0, Phase1, Phase2, Phase3

LEMMA ImportReads ==
  ASSUME BaseInv, ReadAll, ImportInv, ImportNext PROVE ReadAll'
<1> USE DEF BaseInv, IdInv
<1>0. \A id \in Ids : id # 0
  BY IdsAssumption
<1>a. ASSUME pc' \in {"file", "stamp", "finish"} PROVE ReadAll'
  BY <1>a DEF ReadAll
<1>b. ASSUME UNCHANGED <<dev, pim>>
      PROVE  \A id : LiveIds(id)' = LiveIds(id) /\ Rank(id)' = Rank(id) /\ ByID(id)' = ByID(id)
  BY <1>b, SameRanks DEF ByID, Present
<1>1. CASE BeginImport
  <2>1. /\ irec' = 0 /\ nrec' = Cardinality(LiveIds(fno)) /\ UNCHANGED <<dev, pim, fno>>
        /\ pc' = "impread"
    BY <1>1 DEF BeginImport, StartLoop, ctl
  <2>2. ASSUME NEW id \in LiveIds(fno) PROVE ~(Rank(id) < 0)
    <3>1. Rank(id) \in Nat
      BY RankNat
    <3> QED
      BY <3>1
  <2> QED
    BY <1>b, <2>1, <2>2 DEF ReadAll, Read
<1>2. CASE \E id \in Ids : ImportRead(id)
  <2> PICK id \in Ids : ImportRead(id)
    BY <1>2
  <2>1. /\ UNCHANGED <<dev, pim, pc, fno, nrec>> /\ pc = "impread" /\ irec' = irec + 1
        /\ IdFile[id] = fno /\ IsIndex(id, irec) /\ tab' = tab \cup {id}
    BY DEF ImportRead, ctl
  <2>2. \A j \in LiveIds(fno) : Rank(j) < irec + 1 => Rank(j) < irec \/ j = id
    BY <2>1, ReadOne
  <2> QED
    BY <1>b, <2>1, <2>2 DEF ReadAll, Read
<1>3. CASE ImportReadDone
  <2>1. /\ pc = "impread" /\ irec = nrec /\ pc' = "impcmp" /\ UNCHANGED <<dev, pim, fno, tab>>
    BY <1>3 DEF ImportReadDone, ctl, loop
  <2>2. \A id \in LiveIds(fno) : Read(id)
    BY <2>1, ReadLast DEF ReadAll, Read
  <2> QED
    BY <1>b, <2>1, <2>2 DEF ReadAll
<1>4. CASE ImportCompare
  <2>1. /\ pc = "impcmp" /\ pc' = "impexec" /\ UNCHANGED <<dev, pim, fno>>
        /\ tab' = tab \ {pim[s].id : s \in PimOf(fno)}
    BY <1>4 DEF ImportCompare, ctl
  <2>2. ASSUME NEW id \in LiveIds(fno), id \notin tab' PROVE ByID(id) # {}
    <3>1. PICK s \in PimOf(fno) : pim[s].id = id
      BY <2>1, <2>2 DEF ReadAll
    <3> QED
      BY <3>1 DEF ByID, PimOf
  <2> QED
    BY <1>b, <2>1, <2>2 DEF ReadAll
<1>5. CASE \E s \in Slots : ImportExec(s)
  <2> PICK s \in Slots : ImportExec(s)
    BY <1>5
  <2>0. pc = "impexec" /\ pc' = "impexec"
    BY DEF ImportExec, Executed
  <2>1. CASE rval' # "OK"
    BY <2>0, <2>1 DEF ReadAll
  <2>2. CASE rval' = "OK"
    <3>1. UNCHANGED <<fno, tab>>
      BY DEF ImportExec, Executed
    <3>2. PICK id \in Ids : /\ Confirms(id, s) \/ Gives(id, s)
                            /\ UNCHANGED rval /\ pim' = PimClean(s, id)
                            /\ op[s] # "write" => pim[s].id = id
      BY <2>2, ExecKinds
    <3>3. /\ pim'[s].id = id /\ Present(pim', s)
          /\ \A k \in Ids : k # id => dev'[k] = dev[k]
          /\ \A t \in Slots : t # s => pim'[t] = pim[t] /\ pim[t].id # id
      BY <3>1, <3>2, ExecMatches
    <3>4. ASSUME NEW j \in Ids, IdFile[j] = fno, Live(dev'[j]), j \notin tab
          PROVE  ByID(j)' # {}
      <4>1. CASE j = id
        <5>1. s \in ByID(j)'
          BY <3>3, <4>1 DEF ByID
        <5> QED
          BY <5>1
      <4>2. CASE j # id
        <5>1. Live(dev[j])
          BY <3>3, <3>4, <4>2
        <5>2. ByID(j) # {}
          BY <2>0, <2>2, <3>2, <3>4, <5>1 DEF ReadAll, LiveIds
        <5>3. ASSUME pim[s].id = j PROVE FALSE
          <6>1. op[s] = "write"
            BY <3>2, <4>2, <5>3
          <6> QED
            BY <1>0, <2>0, <5>1, <5>3, <6>1 DEF ImportInv
        <5>4. ASSUME NEW t \in Slots, pim[t].id = j PROVE pim'[t] = pim[t]
          BY <3>3, <5>3, <5>4
        <5> QED
          BY <1>0, <5>2, <5>4, Held DEF Present
      <4> QED
        BY <4>1, <4>2
    <3>5. \A j \in LiveIds(fno)' : j \in tab' \/ ByID(j)' # {}
      BY <3>1, <3>4 DEF LiveIds
    <3> QED
      BY <2>0, <3>5 DEF ReadAll
  <2> QED
    BY <2>1, <2>2
<1>6. CASE \E s \in Slots : ImportFull(s)
  <2>1. pc' = "impexec" /\ rval' = "ERR"
    BY <1>6 DEF ImportFull, Executed
  <2> QED
    BY <2>1 DEF ReadAll
<1>7. CASE ImportCallFails \/ ImportDone
  BY <1>a, <1>7 DEF ImportCallFails, ImportDone, GiveUp, FileDone
<1> QED
  BY <1>1, <1>2, <1>3, <1>4, <1>5, <1>6, <1>7 DEF ImportNext

LEMMA ReadStep ==
  ASSUME BaseInv, TablesHere, ReadAll, ImportInv, [Next]_vars PROVE ReadAll'
<1>1. CASE UNCHANGED vars
  <2>1. UNCHANGED <<dev, pim, pc, cmd, fno, initexp, rval, nrec, irec, tab>>
    BY <1>1 DEF vars, ctl, loop
  <2>2. \A id : LiveIds(id)' = LiveIds(id) /\ Rank(id)' = Rank(id) /\ ByID(id)' = ByID(id)
    BY <2>1, SameRanks DEF ByID, Present
  <2> QED
    BY <2>1, <2>2 DEF ReadAll, Read
<1>2. CASE User \/ (\E c \in Commands : Start(c)) \/ WriteSysInfo \/ Finish \/ Crash
  <2>1. pc' \in {"idle", "file", "finish"}
    BY <1>2, UserIdle, FrameTo
  <2> QED
    BY <2>1 DEF ReadAll
<1> QED
  BY <1>1, <1>2, SyncReads, ImportReads DEF Next, Program

-----------------------------------------------------------------------------
(* What an import has executed.                                            *)
LEMMA ImportStep ==
  ASSUME BaseInv, ReadAll, ImportInv, [Next]_vars PROVE ImportInv'
<1> USE DEF BaseInv, IdInv
<1>0. \A id \in Ids : id # 0
  BY IdsAssumption
<1>1. CASE UNCHANGED vars
  BY <1>1 DEF vars, ctl, loop, ImportInv, PimOf, Present, Matching
<1>2. CASE pc' # "impexec"
  BY <1>2 DEF ImportInv
<1>3. CASE ImportCompare
  <2>1. /\ pc = "impcmp" /\ UNCHANGED <<dev, pim, fno>>
        /\ op' = [s \in Slots |-> IF s \in PimOf(fno) THEN Action(s) ELSE "none"]
    BY <1>3 DEF ImportCompare, ctl
  <2>2. ASSUME NEW s \in PimOf(fno), op'[s] = "none" PROVE Matching(s)
    <3>1. pim[s].id \in tab /\ dev[pim[s].id].data = pim[s].data
      BY <2>1, <2>2 DEF Action, PimOf
    <3> QED
      BY <1>0, <2>1, <3>1 DEF Matching, TabLive, TypeOK
  <2>3. ASSUME NEW s \in Slots, op'[s] = "write", pim[s].id # 0
        PROVE  ~Live(dev[pim[s].id])
    <3>1. s \in PimOf(fno) /\ pim[s].id \notin tab
      BY <2>1, <2>3 DEF Action
    <3>2. pim[s].id \in Ids /\ IdFile[pim[s].id] = fno
      BY <2>3, <3>1 DEF PimOf, IdsInPlace, TypeOK, PimRec
    <3> QED
      BY <2>1, <3>1, <3>2 DEF ReadAll, LiveIds
  <2> QED
    BY <2>1, <2>2, <2>3 DEF ImportInv, PimOf, Present, Matching
<1>4. CASE \E s \in Slots : ImportExec(s)
  <2> PICK s \in Slots : ImportExec(s)
    BY <1>4
  <2>1. /\ pc = "impexec" /\ UNCHANGED fno /\ op' = [op EXCEPT ![s] = "none"]
        /\ s \in Slots /\ Present(pim, s)
    BY DEF ImportExec, Executed, OpsHere
  <2>2. \A t \in Slots : op'[t] = IF t = s THEN "none" ELSE op[t]
    BY <2>1 DEF TypeOK
  <2>3. CASE UNCHANGED <<dev, pim>> /\ rval' = "ERR"
    BY <2>1, <2>2, <2>3 DEF ImportInv
  <2>4. CASE \E id \in Ids :
               /\ Confirms(id, s) \/ Gives(id, s)
               /\ rval' = "ERR" \/ (UNCHANGED rval /\ pim' = PimClean(s, id))
    <3> PICK id \in Ids :
               /\ Confirms(id, s) \/ Gives(id, s)
               /\ rval' = "ERR" \/ (UNCHANGED rval /\ pim' = PimClean(s, id))
      BY <2>4
    <3>1. /\ pim' = PimClean(s, id) => Matching(s)'
          /\ \A j \in Ids : j # id => dev'[j] = dev[j]
          /\ \A t \in Slots : t # s =>
               pim'[t] = pim[t] /\ pim[t].id # id /\ (Matching(t) => Matching(t)')
      BY ExecMatches
    <3>2. ASSUME rval' = "OK", NEW t \in PimOf(fno)', op'[t] = "none" PROVE Matching(t)'
      <4>1. UNCHANGED rval /\ pim' = PimClean(s, id) /\ t \in Slots /\ SlotFile[t] = fno
            /\ Present(pim', t)
        BY <2>1, <3>2 DEF PimOf
      <4>2. CASE t = s
        BY <3>1, <4>1, <4>2
      <4>3. CASE t # s
        BY <2>1, <2>2, <3>1, <3>2, <4>1, <4>3 DEF ImportInv, PimOf, Present
      <4> QED
        BY <4>2, <4>3
    <3>3. ASSUME NEW t \in Slots, op'[t] = "write", pim'[t].id # 0
          PROVE  ~Live(dev'[pim'[t].id])
      <4>1. t # s /\ op[t] = "write" /\ pim'[t] = pim[t] /\ pim[t].id # id
        BY <2>2, <3>1, <3>3
      <4>2. pim[t].id \in Ids
        BY <3>3, <4>1 DEF TypeOK, PimRec
      <4> QED
        BY <2>1, <3>1, <3>3, <4>1, <4>2 DEF ImportInv
    <3> QED
      BY <3>2, <3>3 DEF ImportInv
  <2> QED
    BY <2>3, <2>4, ExecKinds
<1>5. CASE \E s \in Slots : ImportFull(s)
  <2> PICK s \in Slots : ImportFull(s)
    BY <1>5
  <2>1. /\ pc = "impexec" /\ UNCHANGED <<dev, pim>> /\ rval' = "ERR"
        /\ \A t \in Slots : op'[t] \in {op[t], "none"}
    BY DEF ImportFull, Executed, TypeOK
  <2> QED
    BY <2>1 DEF ImportInv
<1>6. CASE BeginImport \/ ImportCallFails \/ ImportReadDone \/ ImportDone
           \/ \E id \in Ids : ImportRead(id)
  <2>1. pc' # "impexec"
    BY <1>6 DEF BeginImport, ImportCallFails, ImportReadDone, ImportDone, ImportRead, GiveUp,
       FileDone
  <2> QED
    BY <1>2, <2>1
<1>7. CASE User \/ (\E c \in Commands : Start(c)) \/ WriteSysInfo \/ Finish \/ Crash \/ SyncNext
  <2>1. pc' # "impexec"
    BY <1>7, UserIdle, FrameTo, SyncOutside
  <2> QED
    BY <1>2, <2>1
<1> QED
  BY <1>1, <1>3, <1>4, <1>5, <1>6, <1>7 DEF Next, Program, ImportNext

-----------------------------------------------------------------------------
(* What phase 2 pushed is not touched by phase 3.                          *)
LEMMA PushedStep == ASSUME BaseInv, AllPushedInv, [Next]_vars PROVE AllPushedInv'
<1> USE DEF BaseInv, IdInv
<1>1. CASE UNCHANGED vars
  BY <1>1 DEF vars, ctl, AllPushedInv, PimOf, Present, RecStat, Pushed
<1>2. CASE pc' \notin {"len", "index", "delete"}
  BY <1>2 DEF AllPushedInv
<1>3. CASE PushDone
  <2>1. pc = "update" /\ todo = {} /\ UNCHANGED <<dev, pim, fno>>
    BY <1>3 DEF PushDone, ctl
  <2> QED
    BY <2>1 DEF AllPushedInv, PushInv, PimOf, Present, RecStat, Pushed
<1>4. CASE Len \/ IndexDone \/ \E id \in Ids : IndexRead(id)
  <2>1. pc \in {"len", "index", "delete"} /\ UNCHANGED <<dev, pim, fno>>
    BY <1>4 DEF Len, IndexDone, IndexRead, ctl
  <2> QED
    BY <2>1 DEF AllPushedInv, PimOf, Present, RecStat, Pushed
<1>5. CASE \E id \in Ids : Delete(id)
  <2> PICK id \in Ids : Delete(id)
    BY <1>5
  <2> SUFFICES ASSUME pc' # "finish" PROVE AllPushedInv'
    BY <1>2
  <2>1. /\ pc = "delete" /\ dev' = DevDelete(id) /\ UNCHANGED <<pim, fno>> /\ ByID(id) = {}
    BY DEF Delete, AnswerLost, GiveUp, ctl, SettleInv, DeleteSettled
  <2>2. ASSUME NEW s \in PimOf(fno), Pushed(s) PROVE Pushed(s)'
    <3>1. s \in ByID(pim[s].id) /\ pim[s].id \in Ids
      BY <2>2 DEF ByID, PimOf, Pushed, TypeOK, PimRec
    <3>2. dev'[pim[s].id] = dev[pim[s].id]
      BY <2>1, <3>1, RemoveAt
    <3> QED
      BY <2>1, <2>2, <3>2 DEF Pushed
  <2> QED
    BY <2>1, <2>2 DEF AllPushedInv, PimOf, Present, RecStat
<1>6. CASE \/ User \/ (\E c \in Commands : Start(c)) \/ WriteSysInfo \/ Finish \/ Crash
           \/ Phase0 \/ BeginSync \/ DeleteDone \/ CallFails \/ ImportNext
  BY <1>2, <1>6, OutsideSync
<1>7. CASE \/ ModLen \/ (\E id \in Ids : ModRead(id) \/ Commit(id)) \/ ModDone \/ CommitDone
           \/ \E s \in Slots : PushDeleted(s) \/ PushNothing(s) \/ PushChanged(s) \/ PushNew(s)
  <2>1. pc' \notin {"len", "index", "delete"}
    BY <1>7 DEF ModLen, ModRead, Commit, ModDone, CommitDone, PushDeleted, PushNothing,
       PushChanged, PushNew, AnswerLost, GiveUp, FileDone, ctl
  <2> QED
    BY <1>2, <2>1
<1> QED
  BY <1>1, <1>3, <1>4, <1>5, <1>6, <1>7
  DEF Next, Program, SyncNext, Phase1, Phase2, Phase3

-----------------------------------------------------------------------------
(* The files a sync or an import has done.                                 *)

(* The file is settled when no live record of it lacks a PIM record and no *)
(* PIM record of it differs but for what one sync cannot settle.           *)
LEMMA SettledHere ==
  ASSUME BaseInv, \A id \in LiveIds(fno) : ByID(id) # {},
         \A s \in PimOf(fno) : Matching(s) \/ Unresolved(s)
  PROVE  Settled(fno)
<1>1. ASSUME NEW id \in LiveIds(fno) PROVE Mirrored(id)
  <2>1. PICK s \in Slots : s \in ByID(id)
    BY DEF ByID
  <2>2. id # 0 /\ Live(dev[id]) /\ pim[s].id = id /\ IdFile[id] = fno
    BY <2>1, IdsAssumption DEF ByID, LiveIds
  <2>3. s \in PimOf(fno)
    BY <2>1, <2>2 DEF ByID, PimOf, BaseInv, IdsInPlace
  <2>4. ~Unresolved(s)
    BY <2>2 DEF Unresolved
  <2> QED
    BY <2>1, <2>2, <2>3, <2>4 DEF Mirrored, Matching
<1> QED
  BY <1>1 DEF Settled

LEMMA ExportSettles ==
  ASSUME BaseInv, Exported, ReadAll, CommitDone, initexp PROVE Settled(fno)
<1>1. pc = "commit" /\ cmd = "sync"
  BY DEF CommitDone, BaseInv, CmdAtPc
<1> QED
  BY <1>1, SettledHere DEF Exported, ReadAll

LEMMA SyncSettles ==
  ASSUME BaseInv, ReadAll, MarksInv, AllPushedInv, CleanMatch, DeleteDone, crashes = 0
  PROVE  Settled(fno)
<1> USE DEF BaseInv, IdInv
<1>1. pc = "delete" /\ tab = {}
  BY DEF DeleteDone
<1>2. ASSUME NEW s \in PimOf(fno), RecStat(s) = "dirty" PROVE Matching(s) \/ Unresolved(s)
  BY <1>1, <1>2 DEF AllPushedInv, Pushed, Matching, Unresolved
<1>3. ASSUME NEW s \in PimOf(fno), RecStat(s) # "dirty" PROVE Matching(s)
  <2>1. s \in Slots /\ pim[s].stat = "clean" /\ ~pim[s].newer /\ SlotFile[s] = fno
    BY <1>3 DEF PimOf, Present, RecStat, NoMarks, TypeOK, PimRec, PimStat
  <2>2. CleanOK(pim, dev)
    BY <1>1 DEF CleanMatch
  <2> DEFINE id == pim[s].id
  <2>3. id # 0 /\ ((Live(dev[id]) /\ dev[id].data = pim[s].data) \/ Changed(dev[id]))
    BY <2>1, <2>2 DEF CleanOK
  <2>4. id \in Ids /\ Here(id)
    BY <2>1, <2>3 DEF TypeOK, PimRec, IdsInPlace, Here
  <2>5. ASSUME Changed(dev[id]) PROVE FALSE
    <3>1. PICK t \in ByID(id) : RecStat(t) = "dirty"
      BY <1>1, <2>4, <2>5 DEF MarksInv, Conflict, DirtyId
    <3>2. t = s
      BY <2>1, <2>3, <3>1 DEF ByID, IdsOK, UniqueIds
    <3> QED
      BY <1>3, <3>1, <3>2
  <2> QED
    BY <2>3, <2>5 DEF Matching
<1>4. \A id \in LiveIds(fno) : ByID(id) # {}
  BY <1>1 DEF ReadAll
<1> QED
  BY <1>2, <1>3, <1>4, SettledHere

LEMMA ImportSettles ==
  ASSUME BaseInv, ReadAll, ImportInv, ImportDone, rval = "OK", tab = {}
  PROVE  Settled(fno)
<1>1. pc = "impexec" /\ \A s \in Slots : op[s] = "none"
  BY DEF ImportDone
<1>2. \A s \in PimOf(fno) : Matching(s)
  BY <1>1 DEF ImportInv, PimOf
<1>3. \A id \in LiveIds(fno) : ByID(id) # {}
  BY <1>1 DEF ReadAll
<1> QED
  BY <1>2, <1>3, SettledHere

(* A file is left behind at these three places only.                       *)
LEMMA LeavesFile ==
  ASSUME BaseInv, SyncNext \/ ImportNext
  PROVE  \/ pc' = "finish"
         \/ cmd = "export" /\ pc' # "stamp"
         \/ UNCHANGED <<fno, same>> /\ pc' # "stamp"
         \/ (CommitDone /\ initexp) \/ DeleteDone \/ (ImportDone /\ rval = "OK")
<1> USE DEF GiveUp, FileDone, AnswerLost, ctl
<1>1. CASE BeginExport \/ (\E id \in Ids : ExportRead(id)) \/ CallFails
  BY <1>1 DEF BeginExport, ExportRead, CallFails
<1>2. CASE ExportDone
  BY <1>2 DEF ExportDone
<1>3. CASE \/ BeginSync \/ ModLen \/ (\E id \in Ids : ModRead(id)) \/ ModDone
           \/ (\E id \in Ids : Commit(id))
  BY <1>3 DEF BeginSync, ModLen, ModRead, ModDone, Commit
<1>4. CASE CommitDone
  BY <1>4 DEF CommitDone
<1>5. CASE Phase2
  BY <1>5 DEF Phase2, PushDeleted, PushNothing, PushChanged, PushNew, PushDone
<1>6. CASE \/ Len \/ (\E id \in Ids : IndexRead(id)) \/ IndexDone
           \/ (\E id \in Ids : Delete(id))
  BY <1>6 DEF Len, IndexRead, IndexDone, Delete
<1>7. CASE BeginImport \/ ImportCallFails \/ ImportReadDone \/ ImportCompare
           \/ \E id \in Ids : ImportRead(id)
  BY <1>7 DEF BeginImport, ImportCallFails, ImportReadDone, ImportCompare, ImportRead
<1>8. CASE \E s \in Slots : ImportExec(s) \/ ImportFull(s)
  BY <1>8 DEF ImportExec, ImportFull, Executed
<1>9. CASE ImportDone
  BY <1>9 DEF ImportDone
<1> QED
  BY <1>1, <1>2, <1>3, <1>4, <1>5, <1>6, <1>7, <1>8, <1>9
  DEF SyncNext, Phase0, Phase1, Phase3, ImportNext

(* What is settled in another file stays so, ...                           *)
LEMMA SettledStays ==
  ASSUME BaseInv, BaseInv', Local, NEW f, f # fno, Settled(f) PROVE Settled(f)'
<1> USE DEF BaseInv, IdInv
<1>1. \A id \in Ids : IdFile[id] = f => dev'[id] = dev[id]
  BY DEF Local, Here
<1>2. \A s \in Slots : SlotFile[s] = f => pim'[s] = pim[s]
  BY DEF Local
<1>3. PimOf(f)' = PimOf(f) /\ LiveIds(f)' = LiveIds(f)
  BY <1>1, <1>2 DEF PimOf, Present, LiveIds
<1>4. ASSUME NEW id \in LiveIds(f) PROVE Mirrored(id)'
  <2>1. /\ Mirrored(id) /\ id \in Ids /\ id # 0 /\ Live(dev[id]) /\ IdFile[id] = f
        /\ dev'[id] = dev[id]
    BY <1>1, IdsAssumption DEF Settled, LiveIds
  <2>2. PICK s \in ByID(id) : pim[s].data = dev[id].data
    BY <2>1 DEF Mirrored
  <2>3. pim'[s] = pim[s]
    BY <1>2, <2>1, <2>2 DEF ByID, IdsInPlace
  <2> QED
    BY <2>1, <2>2, <2>3 DEF Mirrored, ByID, Present
<1>5. ASSUME NEW s \in PimOf(f) PROVE Matching(s)' \/ Unresolved(s)'
  <2>1. /\ s \in Slots /\ SlotFile[s] = f /\ pim'[s] = pim[s] /\ RecStat(s)' = RecStat(s)
        /\ Matching(s) \/ Unresolved(s)
    BY <1>2, <1>5 DEF PimOf, RecStat, Settled
  <2>2. pim[s].id # 0 => dev'[pim[s].id] = dev[pim[s].id]
    BY <1>1, <2>1 DEF IdsInPlace, TypeOK, PimRec
  <2> QED
    BY <2>1, <2>2 DEF Matching, Unresolved
<1> QED
  BY <1>3, <1>4, <1>5 DEF Settled

(* ... and so does a conflict.                                             *)
LEMMA ConflictStays ==
  ASSUME BaseInv, Local, NEW id \in Ids, ~Here(id)
  PROVE  dev'[id] = dev[id] /\ (Conflict(id) => Conflict(id)')
<1>1. dev'[id] = dev[id] /\ id # 0
  BY IdsAssumption DEF Local
<1>2. \A s \in ByID(id) : pim'[s] = pim[s]
  BY <1>1 DEF Local, ByID, Here, BaseInv, IdsInPlace
<1> QED
  BY <1>1, <1>2, DirtyStays DEF Conflict, DirtyId

LEMMA SettledSame ==
  ASSUME UNCHANGED <<dev, pim>>
  PROVE  /\ \A f : Settled(f)' = Settled(f)
         /\ \A id : Conflict(id)' = Conflict(id)
<1>1. \A s : /\ RecStat(s)' = RecStat(s) /\ Matching(s)' = Matching(s)
             /\ Unresolved(s)' = Unresolved(s)
  BY DEF RecStat, Matching, Unresolved
<1>2. \A id : ByID(id)' = ByID(id) /\ Mirrored(id)' = Mirrored(id)
  BY DEF ByID, Present, Mirrored
<1>3. \A f : PimOf(f)' = PimOf(f) /\ LiveIds(f)' = LiveIds(f)
  BY DEF PimOf, Present, LiveIds
<1> QED
  BY <1>1, <1>2, <1>3 DEF Settled, Conflict, DirtyId

LEMMA SettledStep ==
  ASSUME BaseInv, BaseInv', StampInv, [Next]_vars PROVE DoneSettled'
<1> USE DEF StampInv
<1>0. TypeOK /\ fno \in Nat /\ NFiles \in Nat /\ Files \subseteq Nat
  BY FilesAssumption DEF BaseInv, IdInv, TypeOK, Files
<1>1. CASE UNCHANGED vars
  <2>1. UNCHANGED <<dev, pim, pc, cmd, same, fno, crashes>>
    BY <1>1 DEF vars, ctl, count
  <2> QED
    BY <2>1, SettledSame DEF DoneSettled, Done
<1>2. CASE User \/ Finish \/ Crash
  <2>1. cmd' = "none" /\ pc' # "stamp"
    BY <1>2, UserIdle DEF Finish, Crash, ctl, BaseInv, CmdAtPc
  <2> QED
    BY <2>1 DEF DoneSettled
<1>3. CASE \E c \in Commands : Start(c)
  <2>1. fno' = 1 /\ pc' = "file"
    BY <1>3 DEF Start
  <2> QED
    BY <1>0, <2>1 DEF DoneSettled, Done, Files
<1>4. CASE WriteSysInfo
  BY <1>4 DEF WriteSysInfo, DoneSettled
<1>5. CASE SyncNext \/ ImportNext
  <2>1. /\ pc \notin {"idle", "stamp", "finish"} /\ UNCHANGED cmd
        /\ crashes' = 0 => crashes = 0
    BY <1>0, <1>5, RunsOn, CrashesStay
  <2>2. Local
    BY <1>5, SyncWorks, ImportWorks, WorksLocal
  <2>3. CASE pc' = "finish" \/ (cmd = "export" /\ pc' # "stamp")
    BY <2>1, <2>3 DEF DoneSettled
  <2>4. CASE UNCHANGED <<fno, same>> /\ pc' # "stamp"
    <3>1. \A f \in Files : Done(f)' => Done(f) /\ f # fno
      BY <1>0, <2>4 DEF Done
    <3> QED
      BY <2>1, <2>2, <2>4, <3>1, SettledStays DEF DoneSettled
  <2>5. ASSUME \/ cmd = "sync" \/ (cmd = "import" /\ (pc' # "finish" /\ same' => same))
               \/ pc' = "finish",
               (cmd = "sync" /\ crashes = 0) \/ (cmd = "import" /\ same')
                 => Settled(fno),
               UNCHANGED <<dev, pim>>, pc' = "stamp" => cmd = "sync" \/ same',
               pc' = "finish" \/ (pc' = "stamp" /\ fno = NFiles) \/ (pc' = "file" /\ fno' = fno + 1)
        PROVE  DoneSettled'
    <3>1. \A f \in Files : Done(f)' /\ pc' # "finish" => f = fno \/ Done(f)
      BY <1>0, <2>5 DEF Done, Files
    <3> QED
      BY <2>1, <2>5, <3>1, SettledSame DEF DoneSettled
  <2>6. CASE CommitDone /\ initexp
    <3>1. /\ UNCHANGED <<dev, pim>> /\ cmd = "sync"
          /\ (pc' = "stamp" /\ fno = NFiles) \/ (pc' = "file" /\ fno' = fno + 1)
      BY <1>0, <2>6 DEF CommitDone, FileDone, BaseInv, CmdAtPc, Files, IdInv, TypeOK
    <3> QED
      BY <2>5, <2>6, <3>1, ExportSettles
  <2>7. CASE DeleteDone
    <3>1. /\ UNCHANGED <<dev, pim>> /\ cmd = "sync"
          /\ (pc' = "stamp" /\ fno = NFiles) \/ (pc' = "file" /\ fno' = fno + 1)
      BY <1>0, <2>7 DEF DeleteDone, FileDone, BaseInv, CmdAtPc, Files, IdInv, TypeOK
    <3> QED
      BY <2>5, <2>7, <3>1, SyncSettles
  <2>8. CASE ImportDone /\ rval = "OK"
    <3>1. UNCHANGED <<dev, pim>> /\ cmd = "import"
      BY <2>8 DEF ImportDone, BaseInv, CmdAtPc
    <3>2. same' => same /\ tab = {}
      BY <2>8 DEF ImportDone
    <3>3. (pc' = "file" /\ fno' = fno + 1) \/ (fno = NFiles /\ pc' = IF same' THEN "stamp" ELSE "finish")
      BY <1>0, <2>8 DEF ImportDone, FileDone, Files, TypeOK
    <3>4. \/ pc' = "finish" \/ (pc' = "stamp" /\ fno = NFiles /\ same')
          \/ (pc' = "file" /\ fno' = fno + 1)
      BY <3>3
    <3> QED
      BY <2>5, <2>8, <3>1, <3>2, <3>4, ImportSettles
  <2> QED
    BY <1>5, <2>3, <2>4, <2>6, <2>7, <2>8, LeavesFile
<1> QED
  BY <1>1, <1>2, <1>3, <1>4, <1>5 DEF Next, Program

LEMMA DoneMarksStep ==
  ASSUME BaseInv, StampInv, [Next]_vars PROVE DoneMarks'
<1> USE DEF StampInv
<1>0. TypeOK /\ fno \in Nat /\ NFiles \in Nat /\ Files \subseteq Nat
      /\ \A id \in Ids : IdFile[id] \in Files /\ id # 0
  BY FilesAssumption, IdsAssumption DEF BaseInv, IdInv, TypeOK, Files
<1>1. CASE UNCHANGED vars
  <2>1. UNCHANGED <<dev, pim, pc, cmd, fno>>
    BY <1>1 DEF vars, ctl
  <2> QED
    BY <2>1, SettledSame DEF DoneMarks, Done
<1>2. CASE User \/ Finish \/ Crash
  <2>1. cmd' = "none"
    BY <1>2, UserIdle DEF Finish, Crash, ctl, BaseInv, CmdAtPc
  <2> QED
    BY <2>1 DEF DoneMarks
<1>3. CASE \E c \in Commands : Start(c)
  <2>1. fno' = 1 /\ pc' = "file"
    BY <1>3 DEF Start
  <2> QED
    BY <1>0, <2>1 DEF DoneMarks, Done, Files
<1>4. CASE WriteSysInfo
  BY <1>4 DEF WriteSysInfo, DoneMarks
<1>5. CASE (SyncNext \/ ImportNext) /\ cmd = "sync" /\ pc' # "finish"
  <2>1. pc \notin {"idle", "stamp", "finish"} /\ UNCHANGED cmd
    BY <1>5, RunsOn
  <2>2. Local
    BY <1>5, SyncWorks, ImportWorks, WorksLocal
  <2>3. CASE UNCHANGED <<fno, same>> /\ pc' # "stamp"
    <3>1. \A id \in Ids : Done(IdFile[id])' => Done(IdFile[id]) /\ ~Here(id)
      BY <1>0, <2>3 DEF Done, Here
    <3> QED
      BY <1>5, <2>1, <2>2, <3>1, ConflictStays DEF DoneMarks
  <2>4. ASSUME UNCHANGED <<dev, pim>>,
               (pc' = "stamp" /\ fno = NFiles) \/ (pc' = "file" /\ fno' = fno + 1),
               \A id \in Ids : Here(id) /\ fno \notin RevFiles /\ Changed(dev[id]) => Conflict(id)
        PROVE  DoneMarks'
    <3>1. \A id \in Ids : Done(IdFile[id])' => Here(id) \/ Done(IdFile[id])
      BY <1>0, <2>4 DEF Done, Here, Files
    <3> QED
      BY <1>5, <2>1, <2>4, <3>1, SettledSame DEF DoneMarks, Here
  <2>5. CASE CommitDone /\ initexp
    <3>1. /\ UNCHANGED <<dev, pim>> /\ pc = "commit" /\ tab = {}
          /\ (pc' = "stamp" /\ fno = NFiles) \/ (pc' = "file" /\ fno' = fno + 1)
      BY <1>0, <2>5 DEF CommitDone, FileDone, Files, TypeOK
    <3>2. ASSUME NEW id \in Ids, Here(id), fno \notin RevFiles, Changed(dev[id])
          PROVE  FALSE
      <4>1. PICK s \in ByID(id) : RecStat(s) = "dirty"
        BY <3>1, <3>2 DEF MarksInv, DirtyId
      <4>2. s \in PimOf(fno)
        BY <1>0, <3>2, <4>1 DEF ByID, PimOf, Here, BaseInv, IdsInPlace
      <4>3. pim[s].newer
        BY <1>5, <2>5, <3>1, <4>1, <4>2 DEF Exported, RecStat
      <4> QED
        BY <3>2, <4>2, <4>3 DEF RevInPlace, PimOf
    <3> QED
      BY <2>4, <3>1, <3>2
  <2>6. CASE DeleteDone
    <3>1. /\ UNCHANGED <<dev, pim>> /\ pc = "delete"
          /\ (pc' = "stamp" /\ fno = NFiles) \/ (pc' = "file" /\ fno' = fno + 1)
      BY <1>0, <2>6 DEF DeleteDone, FileDone, Files, TypeOK
    <3> QED
      BY <2>4, <3>1 DEF MarksInv
  <2>7. ~ImportDone
    BY <1>5 DEF ImportDone, BaseInv, CmdAtPc
  <2> QED
    BY <1>5, <2>3, <2>5, <2>6, <2>7, LeavesFile
<1>6. CASE (SyncNext \/ ImportNext) /\ ~(cmd = "sync" /\ pc' # "finish")
  BY <1>6, RunsOn DEF DoneMarks
<1> QED
  BY <1>1, <1>2, <1>3, <1>4, <1>5, <1>6 DEF Next, Program

-----------------------------------------------------------------------------
LEMMA StampInit == Init => StampInv
<1> SUFFICES ASSUME Init PROVE StampInv
  OBVIOUS
<1>1. /\ pc = "idle" /\ cmd = "none" /\ tab = {}
      /\ \A s \in Slots : /\ ~pim[s].newer /\ ~file[s].newer
                          /\ file[s].id = 0 /\ file[s].stat = "none"
      /\ \A id \in Ids : ~Changed(dev[id])
  BY DEF Init, EmptyPim, NoPim, Unborn, Changed
<1>2. RevInPlace(pim) /\ RevInPlace(file) /\ CleanMatch
  BY <1>1 DEF RevInPlace, CleanMatch, CleanOK
<1>3. TablesHere /\ Exported /\ ReadAll /\ MarksInv /\ AllPushedInv /\ ImportInv
      /\ DoneSettled /\ DoneMarks
  BY <1>1 DEF TablesHere, Exported, ReadAll, MarksInv, AllPushedInv, ImportInv, DoneSettled,
     DoneMarks
<1> QED
  BY <1>2, <1>3 DEF StampInv

LEMMA StampInvariant == ASSUME PimMarksDeleted = FALSE PROVE Spec => [](BaseInv /\ StampInv)
<1>1. BaseInv /\ BaseInv' /\ StampInv /\ [Next]_vars => StampInv'
  <2> SUFFICES ASSUME BaseInv, BaseInv', StampInv, [Next]_vars PROVE StampInv'
    OBVIOUS
  <2>1. /\ RevInPlace(pim)' /\ RevInPlace(file)' /\ TablesHere' /\ Exported' /\ ReadAll'
        /\ MarksInv' /\ AllPushedInv' /\ CleanMatch' /\ ImportInv'
    BY RevStep, TablesStep, ExportedStep, ReadStep, MarksStep, PushedStep, CleanStep,
       ImportStep DEF StampInv
  <2> QED
    BY <2>1, SettledStep, DoneMarksStep DEF StampInv
<1> QED
  BY <1>1, StampInit, BaseInvariant, PTL DEF Spec

(* When PIM programs drop the records the user deletes, the stamp goes to  *)
(* the IC35 only when every record there equals its PIM record and every   *)
(* PIM record is on the IC35, but for conflicts, whatever failed in the    *)
(* runs before, for any number of files, records, edits and failures:      *)
(* WriteSysInfo at the end of syncfile's and importfile's loops.           *)
THEOREM StampMirrors == ASSUME PimMarksDeleted = FALSE PROVE Spec => []StampMeansMirror
<1>1. BaseInv /\ StampInv => StampMeansMirror
  <2> SUFFICES ASSUME BaseInv, StampInv, pc = "stamp", crashes = 0
               PROVE  /\ \A id \in Ids : Live(dev[id]) => Mirrored(id)
                      /\ \A s \in Slots : Present(pim, s) => Matching(s) \/ Unresolved(s)
    BY DEF StampMeansMirror
  <2>1. \A f \in Files : Settled(f)
    BY AllSettled DEF StampInv
  <2>2. \A id \in Ids : IdFile[id] \in Files
    BY IdsAssumption
  <2>3. \A s \in Slots : SlotFile[s] \in Files
    BY SlotsAssumption
  <2> QED
    BY <2>1, <2>2, <2>3 DEF Settled, LiveIds, PimOf
<1> QED
  BY <1>1, StampInvariant, PTL

(* A change mark that a stamped sync leaves on the IC35, outside the VCARD *)
(* files, is that of a record deleted there and modified in the PIM file,  *)
(* even after runs that were killed (phases 1 and 2 of syncfile).          *)
THEOREM MarksAreConflicts ==
  ASSUME PimMarksDeleted = FALSE PROVE Spec => []MarksLeftAreConflicts
<1>1. StampInv => MarksLeftAreConflicts
  BY DEF StampInv, DoneMarks, MarksLeftAreConflicts, Done, Conflict, DirtyId
<1> QED
  BY <1>1, StampInvariant, PTL
=============================================================================
