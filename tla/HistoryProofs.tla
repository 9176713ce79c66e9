---------------------------- MODULE HistoryProofs ----------------------------
(***************************************************************************)
(* What the user did not delete stays, over any number of runs of sync and *)
(* export with failing transactions, if none of them is killed.            *)
(***************************************************************************)
EXTENDS SyncHistory, Ic35SyncProofs

(* The record-ID of some record, whatever its status.                      *)
InRecs(p, id) == \E s \in Slots : p[s].id = id

(* What the user deleted is remembered: marks of deletion on either side   *)
(* tell of it, ...                                                         *)
MarkDeleted ==
  \A id \in Ids : dev[id].chg = "del" => id \in deleted
PimMarkDeleted(p) ==
  \A s \in Slots : p[s].stat = "del" /\ p[s].id # 0 => p[s].id \in deleted

(* ... a run takes no record from the PIM records that was not deleted, ...*)
RunKeeps ==
  pc # "idle" => \A s \in Slots : file[s].id # 0 =>
                   InRecs(pim, file[s].id) \/ file[s].id \in deleted

(* ... a record without change mark on the IC35 is in the PIM files, or    *)
(* they never knew it, ...                                                 *)
CleanKnown ==
  \A id \in Ids : dev[id].chg = "clean" =>
    id \in deleted \cup orphan \/ InRecs(IF pc = "idle" THEN file ELSE pim, id)

(* ... and what is gone from the IC35 while a PIM record has its record-ID *)
(* was deleted by the user.                                                *)
GoneDeleted ==
  \A id \in Ids : dev[id].chg = "gone" =>
    /\ id \in deleted \cup orphan
    /\ InRecs(pim, id) \/ InRecs(file, id) => id \in deleted

HistInv ==
  /\ MarkDeleted /\ PimMarkDeleted(pim) /\ PimMarkDeleted(file)
  /\ RunKeeps /\ CleanKnown /\ GoneDeleted
  /\ PimOnlyUserDeletes

(* What the steps rely on.                                                 *)
RunInv == IdInv /\ TabMirrored /\ SettleInv /\ CmdAtPc

-----------------------------------------------------------------------------
(* The record-IDs SyncHistory speaks of.                                   *)
LEMMA FileIdsAre ==
  ASSUME NEW f \in [Slots -> PimRec], NEW id
  PROVE  id \in FileIds(f) <=> /\ id # 0
                               /\ \E s \in Slots : f[s].id = id /\ f[s].stat \in {"clean", "dirty"}
  BY DEF FileIds

(* The user edits, and what he deletes is noted.                           *)
LEMMA UserHist ==
  ASSUME IdInv, IdInv', HistInv, Observe, UserStep, UNCHANGED pim,
         deleted \subseteq deleted',
         \A id \in Ids : /\ dev'[id].chg = "del" => dev[id].chg = "del" \/ id \in deleted'
                         /\ dev'[id].chg \in {"clean", "gone"} => dev[id].chg = dev'[id].chg,
         \A s \in Slots : file'[s].id # 0 =>
           /\ file[s].id = file'[s].id
           /\ file'[s].stat = "del" => file[s].stat = "del" \/ file[s].id \in deleted',
         \A s \in Slots : file[s].id # 0 =>
           file'[s].id = file[s].id \/ file[s].id \in deleted'
  PROVE  HistInv'
<1> USE DEF HistInv
<1>1. orphan' = orphan \ FileIds(file') /\ pc = "idle" /\ pc' = "idle"
  BY DEF Observe, UserStep
<1>2. 0 \notin Ids /\ file \in [Slots -> PimRec] /\ file' \in [Slots -> PimRec]
  BY IdsAssumption DEF IdInv, TypeOK
<1>3. MarkDeleted' /\ PimMarkDeleted(pim)' /\ PimMarkDeleted(file)'
  BY <1>2 DEF MarkDeleted, PimMarkDeleted
<1>4. RunKeeps'
  BY <1>1 DEF RunKeeps
<1>5. \A id \in Ids : InRecs(file', id) => InRecs(file, id)
  BY <1>2 DEF InRecs
<1>6. \A id \in Ids : InRecs(file, id) => InRecs(file', id) \/ id \in deleted'
  BY <1>2 DEF InRecs
<1>7. \A id \in Ids : id \in FileIds(file') => InRecs(file', id)
  BY <1>2, FileIdsAre DEF InRecs
<1>8. CleanKnown'
  BY <1>1, <1>6, <1>7 DEF CleanKnown
<1>9. GoneDeleted'
  BY <1>1, <1>5, <1>7 DEF GoneDeleted
<1>10. PimOnlyUserDeletes'
  <2>1. known' = known \cup FileIds(file')
        /\ {id \in Ids : id \in FileIds(file) \ FileIds(file')} \subseteq deleted'
    BY DEF Observe, UserStep
  <2>2. FileIds(file) \subseteq Ids
    BY <1>2, FileIdsAre DEF PimRec
  <2> QED
    BY <2>1, <2>2 DEF PimOnlyUserDeletes
<1> QED
  BY <1>3, <1>4, <1>8, <1>9, <1>10

LEMMA UserKeeps == ASSUME IdInv, IdInv', HistInv, User, Observe PROVE HistInv'
<1> USE DEF HistInv
<1>0. /\ UserStep /\ UNCHANGED pim
      /\ deleted \subseteq deleted'
      /\ \A id \in Ids : Live(dev[id]) /\ ~Live(dev'[id]) => id \in deleted'
      /\ \A id \in Ids : id \in FileIds(file) /\ id \notin FileIds(file') => id \in deleted'
  BY UserIdle DEF UserStep, Observe
<1>1. /\ dev \in [Ids -> DevRec] /\ file \in [Slots -> PimRec] /\ file' \in [Slots -> PimRec]
      /\ 0 \notin Ids
  BY IdsAssumption DEF IdInv, TypeOK
<1>2. CASE \E id \in Ids, d \in Data : DevCreates(id, d) \/ DevEdits(id, d)
  <2>1. /\ UNCHANGED file
        /\ \A id \in Ids : dev'[id] = dev[id] \/ dev'[id].chg \in {"new", "mod"}
    BY <1>1, <1>2 DEF DevCreates, DevEdits
  <2> QED
    BY <1>0, <2>1, UserHist DEF PimMarkDeleted
<1>3. CASE \E id \in Ids : DevDeletes(id)
  <2>1. /\ UNCHANGED file
        /\ \A id \in Ids : \/ dev'[id] = dev[id]
                           \/ dev'[id].chg = "del" /\ Live(dev[id])
    BY <1>1, <1>3 DEF DevDeletes
  <2>2. \A id \in Ids : dev'[id].chg = "del" => dev[id].chg = "del" \/ id \in deleted'
    BY <1>0, <2>1 DEF Live
  <2> QED
    BY <1>0, <2>1, <2>2, UserHist DEF PimMarkDeleted
<1>4. CASE \E s \in Slots, d \in Data : PimCreates(s, d)
  <2>1. UNCHANGED dev
    BY <1>4 DEF PimCreates
  <2>2. \A t \in Slots : file'[t] = file[t] \/ (file'[t].id = 0 /\ file[t].id = 0)
    BY <1>1, <1>4 DEF PimCreates, FirstFree, FreeSlots, Present, IdInv, IdsOK
  <2> QED
    BY <1>0, <2>1, <2>2, UserHist
<1>5. CASE \E s \in Slots, d \in Data : PimEdits(s, d)
  <2> PICK s \in Slots, d \in Data : PimEdits(s, d)
    BY <1>5
  <2>1. UNCHANGED dev /\ \A t \in Slots : t # s => file'[t] = file[t]
    BY <1>1 DEF PimEdits
  <2>2. file'[s].id = file[s].id /\ file'[s].stat # "del"
    BY <1>1 DEF PimEdits, PimRec
  <2> QED
    BY <1>0, <2>1, <2>2, UserHist
<1>6. CASE \E s \in Slots : PimRemoves(s)
  <2> PICK s \in Slots : PimRemoves(s)
    BY <1>6
  <2>1. UNCHANGED dev /\ \A t \in Slots : t # s => file'[t] = file[t]
    BY <1>1 DEF PimRemoves
  <2>2. \/ file'[s] = NoPim
        \/ file'[s].id = file[s].id /\ file'[s].stat = "del"
    BY <1>1 DEF PimRemoves, PimRec
  <2>3. file'[s].stat \notin {"clean", "dirty"} /\ (file'[s].id # 0 => file'[s].id = file[s].id)
    BY <2>2 DEF NoPim
  <2>4. file[s].id # 0 => file[s].id \in deleted'
    <3> SUFFICES ASSUME file[s].id # 0 PROVE file[s].id \in deleted'
      OBVIOUS
    <3>1. CASE file[s].stat = "del"
      BY <1>0, <3>1 DEF PimMarkDeleted
    <3>2. CASE file[s].stat # "del"
      <4>1. file[s].stat \in {"clean", "dirty"} /\ file[s].id \in Ids
        BY <1>1, <3>2 DEF IdInv, IdsOK, PimRec, PimStat
      <4>2. \A t \in Slots : t # s => file[t].id # file[s].id
        BY DEF IdInv, IdsOK, UniqueIds
      <4>3. file[s].id \in FileIds(file) /\ file[s].id \notin FileIds(file')
        BY <1>1, <2>1, <2>3, <4>1, <4>2, FileIdsAre
      <4> QED
        BY <1>0, <4>1, <4>3
    <3> QED
      BY <3>1, <3>2
  <2> QED
    BY <1>0, <2>1, <2>3, <2>4, UserHist
<1> QED
  BY <1>2, <1>3, <1>4, <1>5, <1>6 DEF User

-----------------------------------------------------------------------------
(* A step within a run: no mark of deletion appears, no record-ID leaves   *)
(* the PIM records unless it was deleted, and what becomes clean or gone   *)
(* on the IC35 was known to the PIM records, or just born, or not.         *)
LEMMA RunHist ==
  ASSUME IdInv, IdInv', HistInv, Observe, pc # "idle", pc' # "idle",
         \A s \in Slots : file'[s].id = file[s].id /\ file'[s].stat = file[s].stat,
         \A s \in Slots : pim'[s].stat = "del" =>
           pim[s].stat = "del" /\ pim'[s].id = pim[s].id,
         \A id \in Ids :
           /\ dev'[id].chg = "del" => dev[id].chg = "del"
           /\ InRecs(pim, id) => InRecs(pim', id) \/ id \in deleted
           /\ dev'[id].chg = "clean" =>
                dev[id].chg \in {"clean", "unborn"} \/ InRecs(pim', id)
           /\ dev'[id].chg = "gone" =>
                \/ id \in deleted
                \/ dev[id].chg = "clean" /\ ~InRecs(pim, id) /\ ~InRecs(pim', id)
                \/ dev[id].chg = "gone" /\ (InRecs(pim', id) => InRecs(pim, id))
  PROVE  HistInv'
<1> USE DEF HistInv
<1>1. /\ deleted' = deleted
      /\ orphan' = (orphan \cup {id \in Ids : dev[id].chg = "unborn" /\ Live(dev'[id])})
                   \ FileIds(file')
      /\ known' = known \cup FileIds(file')
  BY DEF Observe, UserStep
<1>2. 0 \notin Ids /\ file \in [Slots -> PimRec] /\ file' \in [Slots -> PimRec]
  BY IdsAssumption DEF IdInv, TypeOK
<1>3. \A id : (InRecs(file', id) <=> InRecs(file, id)) /\ (id \in FileIds(file') <=> id \in FileIds(file))
  BY <1>2, FileIdsAre DEF InRecs
<1>4. \A id \in Ids : id \in FileIds(file) => InRecs(file, id) /\ dev[id].chg # "unborn"
  BY <1>2, FileIdsAre DEF InRecs, IdInv, IdsOK, Born
<1>5. \A id \in Ids : InRecs(file, id) => InRecs(pim, id) \/ id \in deleted
  BY <1>2 DEF RunKeeps, InRecs
<1>6. MarkDeleted' /\ PimMarkDeleted(pim)' /\ PimMarkDeleted(file)'
  BY <1>1 DEF MarkDeleted, PimMarkDeleted
<1>7. RunKeeps'
  <2> SUFFICES ASSUME NEW s \in Slots, file'[s].id # 0
               PROVE  InRecs(pim', file'[s].id) \/ file'[s].id \in deleted'
    BY DEF RunKeeps
  <2>1. file'[s].id \in Ids /\ InRecs(file, file'[s].id)
    BY <1>2 DEF InRecs, PimRec
  <2> QED
    BY <1>1, <1>5, <2>1
<1>8. CleanKnown'
  BY <1>1, <1>3, <1>4, <1>5 DEF CleanKnown, Live
<1>9. GoneDeleted'
  BY <1>1, <1>3, <1>4, <1>5 DEF GoneDeleted, CleanKnown
<1>10. PimOnlyUserDeletes'
  BY <1>1, <1>3 DEF PimOnlyUserDeletes
<1> QED
  BY <1>6, <1>7, <1>8, <1>9, <1>10

(* Beginning and end of a run.                                             *)
LEMMA StartKeeps ==
  ASSUME IdInv, HistInv, Observe, NEW c \in Commands, Start(c) PROVE HistInv'
<1>1. /\ pc = "idle" /\ pc' = "file" /\ pim' = file /\ UNCHANGED <<dev, file>>
      /\ 0 \notin Ids /\ file \in [Slots -> PimRec]
  BY IdsAssumption DEF Start, IdInv, TypeOK
<1>2. deleted' = deleted /\ orphan' = orphan \ FileIds(file)
      /\ known' = known \cup FileIds(file)
  BY <1>1 DEF Observe, UserStep, Live
<1>3. \A id \in Ids : id \in FileIds(file) => InRecs(file, id)
  BY <1>1, FileIdsAre DEF InRecs
<1> QED
  BY <1>1, <1>2, <1>3 DEF HistInv, MarkDeleted, PimMarkDeleted, RunKeeps, CleanKnown,
     GoneDeleted, PimOnlyUserDeletes, InRecs

LEMMA FinishKeeps ==
  ASSUME IdInv, HistInv, Observe, Finish PROVE HistInv'
<1> USE DEF HistInv
<1>1. /\ pc = "finish" /\ pc' = "idle" /\ file' = pim /\ pim' = EmptyPim /\ UNCHANGED dev
      /\ 0 \notin Ids /\ file \in [Slots -> PimRec] /\ pim \in [Slots -> PimRec]
  BY IdsAssumption DEF Finish, IdInv, TypeOK
<1>2. deleted' = deleted /\ orphan' = orphan \ FileIds(pim)
      /\ known' = known \cup FileIds(pim)
  BY <1>1 DEF Observe, UserStep, Live
<1>3. \A id \in Ids : id \in FileIds(pim) => InRecs(pim, id)
  BY <1>1, FileIdsAre DEF InRecs
<1>4. \A id \in Ids : ~InRecs(EmptyPim, id)
  BY <1>1 DEF InRecs, EmptyPim, NoPim
<1>5. FileIds(file) \subseteq FileIds(pim) \cup deleted
  <2> SUFFICES ASSUME NEW id \in FileIds(file), id \notin deleted PROVE id \in FileIds(pim)
    OBVIOUS
  <2>1. PICK t \in Slots : pim[t].id = id /\ id # 0
    BY <1>1, FileIdsAre DEF RunKeeps, InRecs
  <2>2. pim[t].stat \in {"clean", "dirty"}
    BY <1>1, <2>1 DEF PimMarkDeleted, IdInv, IdsOK, PimRec, PimStat
  <2> QED
    BY <1>1, <2>1, <2>2, FileIdsAre
<1>6. MarkDeleted' /\ PimMarkDeleted(pim)' /\ PimMarkDeleted(file)' /\ RunKeeps'
  BY <1>1, <1>2 DEF MarkDeleted, PimMarkDeleted, RunKeeps, EmptyPim, NoPim
<1>7. CleanKnown' /\ GoneDeleted'
  BY <1>1, <1>2, <1>3, <1>4 DEF CleanKnown, GoneDeleted
<1>8. PimOnlyUserDeletes'
  BY <1>1, <1>2, <1>5 DEF PimOnlyUserDeletes
<1> QED
  BY <1>6, <1>7, <1>8

-----------------------------------------------------------------------------
(* The transactions of a run, one by one.                                  *)

(* A record taken from the IC35 goes into the record with its record-ID,   *)
(* or into a place without one.                                            *)
LEMMA PutHist ==
  ASSUME IdInv, NEW id \in Ids, NEW s \in PutSlots(id), NEW d, pim' = Ic35ToPim(s, id, d)
  PROVE  /\ \A t \in Slots : pim'[t].stat = "del" => pim'[t] = pim[t]
         /\ \A j \in Ids : InRecs(pim, j) => InRecs(pim', j)
         /\ \A j \in Ids : j # id /\ InRecs(pim', j) => InRecs(pim, j)
<1>1. s \in Slots /\ pim \in [Slots -> PimRec]
  BY DEF PutSlots, ByID, FirstFree, FreeSlots, IdInv, TypeOK
<1>2. pim[s].id \in {0, id}
  BY <1>1 DEF PutSlots, ByID, FirstFree, FreeSlots, Present, IdInv, IdsOK
<1>3. /\ \A t \in Slots : t # s => pim'[t] = pim[t]
      /\ pim'[s].id = id /\ pim'[s].stat = "clean"
  BY <1>1 DEF Ic35ToPim
<1>4. 0 \notin Ids
  BY IdsAssumption
<1> QED
  BY <1>1, <1>2, <1>3, <1>4 DEF InRecs

(* A record removed from the PIM records takes its record-ID with it.      *)
LEMMA DeleteHist ==
  ASSUME IdInv, NEW s \in Slots, pim' = PimDelete(s)
  PROVE  /\ \A t \in Slots : pim'[t].stat = "del" => pim'[t] = pim[t]
         /\ \A j \in Ids : InRecs(pim, j) => InRecs(pim', j) \/ j = pim[s].id
         /\ \A j \in Ids : InRecs(pim', j) => InRecs(pim, j)
<1>1. /\ \A t \in Slots : t # s => pim'[t] = pim[t]
      /\ pim'[s].id = 0 /\ pim'[s].stat = "none" /\ 0 \notin Ids
  BY IdsAssumption DEF PimDelete, NoPim, IdInv, TypeOK
<1> QED
  BY <1>1 DEF InRecs

(* The record that phase 2 wrote to the IC35 keeps or gets its record-ID.  *)
LEMMA CleanHist ==
  ASSUME IdInv, NEW s \in Slots, NEW id \in Ids, pim[s].id \in {0, id},
         pim' = PimClean(s, id)
  PROVE  /\ \A t \in Slots : pim'[t].stat = "del" => pim'[t] = pim[t]
         /\ \A j \in Ids : InRecs(pim, j) => InRecs(pim', j)
         /\ \A j \in Ids : j # id /\ InRecs(pim', j) => InRecs(pim, j)
         /\ InRecs(pim', id)
<1>1. pim \in [Slots -> PimRec] /\ 0 \notin Ids
  BY IdsAssumption DEF IdInv, TypeOK
<1>2. /\ \A t \in Slots : t # s => pim'[t] = pim[t]
      /\ pim'[s].id = id /\ pim'[s].stat = "clean"
  BY <1>1 DEF PimClean, PimRec
<1> QED
  BY <1>1, <1>2 DEF InRecs

(* What the IC35 holds after a transaction.                                *)
LEMMA DevHist ==
  ASSUME TypeOK, NEW id \in Ids
  PROVE  /\ \A d : /\ DevPut(id, d)[id].chg = "clean"
                  /\ \A j \in Ids : j # id => DevPut(id, d)[j] = dev[j]
         /\ DevDelete(id)[id].chg = "gone"
         /\ \A j \in Ids : j # id => DevDelete(id)[j] = dev[j] /\ DevCommit(id)[j] = dev[j]
         /\ dev[id].chg = "del" => DevCommit(id)[id].chg = "gone"
         /\ Live(dev[id]) => DevCommit(id)[id].chg = "clean"
         /\ dev[id].chg \in {"gone", "unborn"} => DevCommit(id)[id] = dev[id]
<1>1. dev \in [Ids -> DevRec] /\ dev[id] \in DevRec
  BY DEF TypeOK
<1> QED
  BY <1>1 DEF DevPut, DevDelete, DevCommit, Gone, Live, DevRec

(* A step of a command leaves the run running.                             *)
LEMMA SyncRuns == SyncNext => pc # "idle" /\ pc' # "idle" /\ UNCHANGED file
<1> SUFFICES ASSUME SyncNext PROVE pc # "idle" /\ pc' # "idle" /\ UNCHANGED file
  OBVIOUS
<1> USE DEF GiveUp, FileDone
<1>1. CASE Phase0
  BY <1>1 DEF Phase0, BeginExport, ExportRead, ExportDone
<1>2. CASE Phase1
  BY <1>2 DEF Phase1, BeginSync, ModLen, ModRead, ModDone, Commit, CommitDone, AnswerLost
<1>3. CASE Phase2
  BY <1>3 DEF Phase2, PushDeleted, PushNothing, PushChanged, PushNew, PushDone, AnswerLost
<1>4. CASE Phase3
  BY <1>4 DEF Phase3, Len, IndexRead, IndexDone, Delete, DeleteDone, AnswerLost
<1>5. CASE CallFails
  BY <1>5 DEF CallFails
<1> QED
  BY <1>1, <1>2, <1>3, <1>4, <1>5 DEF SyncNext

LEMMA SyncBefore == SyncNext => pc # "finish"
  BY DEF SyncNext, Phase0, BeginExport, ExportRead, ExportDone, Phase1, BeginSync, ModLen,
     ModRead, ModDone, Commit, CommitDone, Phase2, PushDeleted, PushNothing, PushChanged,
     PushNew, PushDone, Phase3, Len, IndexRead, IndexDone, Delete, DeleteDone, CallFails

(* Steps that change no record, and the stamp, which changes REV only.     *)
LEMMA QuietHist ==
  ASSUME IdInv, IdInv', HistInv, Observe, pc # "idle", pc' # "idle", UNCHANGED dev,
         \A s \in Slots : /\ file'[s].id = file[s].id /\ file'[s].stat = file[s].stat
                         /\ pim'[s].id = pim[s].id /\ pim'[s].stat = pim[s].stat
  PROVE  HistInv'
<1>1. \A id : InRecs(pim', id) <=> InRecs(pim, id)
  BY DEF InRecs
<1>2. \A id \in Ids : dev[id].chg = "gone" /\ InRecs(pim, id) => id \in deleted
  BY DEF HistInv, GoneDeleted
<1> QED
  BY <1>1, <1>2, RunHist

LEMMA ExportHist ==
  ASSUME IdInv, IdInv', HistInv, Observe, NEW id \in Ids, ExportRead(id) PROVE HistInv'
<1>1. /\ UNCHANGED <<dev, file, pc>> /\ pc = "export" /\ Live(dev[id])
      /\ \E s \in PutSlots(id) : pim' = Ic35ToPim(s, id, dev[id].data)
  BY DEF ExportRead, IsIndex, LiveIds
<1>2. /\ \A t \in Slots : pim'[t].stat = "del" => pim'[t] = pim[t]
      /\ \A j \in Ids : InRecs(pim, j) => InRecs(pim', j)
      /\ \A j \in Ids : j # id /\ InRecs(pim', j) => InRecs(pim, j)
  BY <1>1, PutHist
<1>3. \A j \in Ids : dev'[j].chg = "gone" => j # id
  BY <1>1 DEF Live
<1> QED
  BY <1>1, <1>2, <1>3, RunHist

LEMMA ModHist ==
  ASSUME IdInv, IdInv', HistInv, Observe, NEW id \in Ids, ModRead(id) PROVE HistInv'
<1>1. UNCHANGED <<dev, file, pc>> /\ pc = "mod"
  BY DEF ModRead
<1>2. CASE UNCHANGED pim
  BY <1>1, <1>2, QuietHist
<1>3. CASE Live(dev[id]) /\ \E s \in PutSlots(id) : pim' = Ic35ToPim(s, id, dev[id].data)
  <2>1. /\ \A t \in Slots : pim'[t].stat = "del" => pim'[t] = pim[t]
        /\ \A j \in Ids : InRecs(pim, j) => InRecs(pim', j)
        /\ \A j \in Ids : j # id /\ InRecs(pim', j) => InRecs(pim, j)
    BY <1>3, PutHist
  <2>2. \A j \in Ids : dev'[j].chg = "gone" => j # id
    BY <1>1, <1>3 DEF Live
  <2> QED
    BY <1>1, <2>1, <2>2, RunHist
<1>4. CASE ~Live(dev[id]) /\ \E s \in ByID(id) : pim' = PimDelete(s)
  <2> PICK s \in ByID(id) : pim' = PimDelete(s)
    BY <1>4
  <2>1. s \in Slots /\ pim[s].id = id /\ id # 0 /\ InRecs(pim, id)
    BY IdsAssumption DEF ByID, InRecs
  <2>2. id \in Born(dev) /\ dev[id] \in DevRec
    BY <2>1 DEF IdInv, IdsOK, TypeOK
  <2>3. dev[id].chg \in {"del", "gone"}
    BY <1>4, <2>2 DEF Live, Born, DevRec, DevFlags
  <2>4. id \in deleted
    BY <2>1, <2>3 DEF HistInv, MarkDeleted, GoneDeleted
  <2>5. /\ \A t \in Slots : pim'[t].stat = "del" => pim'[t] = pim[t]
        /\ \A j \in Ids : InRecs(pim, j) => InRecs(pim', j) \/ j = id
        /\ \A j \in Ids : InRecs(pim', j) => InRecs(pim, j)
    BY <2>1, DeleteHist
  <2> QED
    BY <1>1, <2>4, <2>5, RunHist
<1> QED
  BY <1>2, <1>3, <1>4 DEF ModRead, Received

LEMMA CommitHist ==
  ASSUME RunInv, IdInv', HistInv, Observe, NEW id \in Ids, Commit(id), pc' # "idle"
  PROVE  HistInv'
<1>1. UNCHANGED <<file, pim>> /\ pc = "commit" /\ id \in tab /\ dev' = DevCommit(id)
  BY DEF Commit, AnswerLost, GiveUp
<1>2. IdInv /\ TypeOK /\ Mirrored(id)
  BY <1>1 DEF RunInv, IdInv, TabMirrored
<1>3. Live(dev[id]) => InRecs(pim, id)
  BY <1>2 DEF Mirrored, ByID, InRecs
<1>4. dev[id].chg = "del" => id \in deleted
  BY DEF HistInv, MarkDeleted
<1>5. dev[id].chg \in DevFlags
  BY <1>2 DEF TypeOK, DevRec
<1>6. \A j \in Ids : j # id => dev'[j] = dev[j]
  BY <1>1, <1>2, DevHist
<1>7. /\ dev'[id].chg # "del"
      /\ dev'[id].chg = "clean" => InRecs(pim, id)
      /\ dev'[id].chg = "gone" => id \in deleted \/ dev[id].chg = "gone"
  BY <1>1, <1>2, <1>3, <1>4, <1>5, DevHist DEF DevFlags, Live
<1> QED
  BY <1>1, <1>2, <1>6, <1>7, RunHist

LEMMA DeleteRunHist ==
  ASSUME RunInv, IdInv', HistInv, Observe, NEW id \in Ids, Delete(id), pc' # "idle"
  PROVE  HistInv'
<1>1. UNCHANGED <<file, pim>> /\ pc = "delete" /\ id \in tab /\ dev' = DevDelete(id)
  BY DEF Delete, AnswerLost, GiveUp
<1>2. IdInv /\ TypeOK /\ dev[id].chg = "clean" /\ ByID(id) = {}
  BY <1>1 DEF RunInv, IdInv, SettleInv, DeleteSettled
<1>3. ~InRecs(pim, id)
  BY <1>2, IdsAssumption DEF InRecs, ByID, Present, IdInv, IdsOK
<1>4. dev'[id].chg = "gone" /\ \A j \in Ids : j # id => dev'[j] = dev[j]
  BY <1>1, <1>2, DevHist
<1> QED
  BY <1>1, <1>2, <1>3, <1>4, RunHist

LEMMA PushDeletedHist ==
  ASSUME IdInv, IdInv', HistInv, Observe, NEW s \in Slots, PushDeleted(s), pc' # "idle"
  PROVE  HistInv'
<1>0. pc = "update" /\ pim[s].id \in Ids /\ UNCHANGED file
  BY DEF PushDeleted, AnswerLost, GiveUp, IdInv, TypeOK, PimRec
<1>1. pim[s].id \in deleted
  BY <1>0 DEF PushDeleted, RecStat, HistInv, PimMarkDeleted
<1>2. CASE UNCHANGED <<dev, pim>>
  BY <1>0, <1>2, QuietHist
<1>3. CASE dev' = DevDelete(pim[s].id) /\ (UNCHANGED pim \/ pim' = PimDelete(s))
  <2>1. /\ \A t \in Slots : pim'[t].stat = "del" => pim'[t] = pim[t]
        /\ \A j \in Ids : InRecs(pim, j) => InRecs(pim', j) \/ j = pim[s].id
        /\ \A j \in Ids : InRecs(pim', j) => InRecs(pim, j)
    BY <1>3, DeleteHist
  <2>2. /\ dev'[pim[s].id].chg = "gone"
        /\ \A j \in Ids : j # pim[s].id => dev'[j] = dev[j]
    BY <1>0, <1>3, DevHist DEF IdInv
  <2> QED
    BY <1>0, <1>1, <2>1, <2>2, RunHist
<1> QED
  BY <1>2, <1>3 DEF PushDeleted, AnswerLost, GiveUp

(* A record written to the IC35, whether its answer arrives or not.        *)
LEMMA WriteHist ==
  ASSUME IdInv, IdInv', HistInv, Observe, pc # "idle", pc' # "idle", UNCHANGED file,
         NEW s \in Slots, NEW id \in Ids, pim[s].id \in {0, id},
         dev[id].chg = "unborn" \/ pim[s].id = id,
         dev' = DevPut(id, pim[s].data),
         UNCHANGED pim \/ pim' = PimClean(s, id)
  PROVE  HistInv'
<1>1. /\ \A t \in Slots : pim'[t].stat = "del" => pim'[t] = pim[t]
      /\ \A j \in Ids : InRecs(pim, j) => InRecs(pim', j)
      /\ \A j \in Ids : j # id /\ InRecs(pim', j) => InRecs(pim, j)
  BY CleanHist
<1>2. pim[s].id = id => InRecs(pim', id)
  BY <1>1 DEF InRecs
<1>3. dev'[id].chg = "clean" /\ \A j \in Ids : j # id => dev'[j] = dev[j]
  BY DevHist DEF IdInv
<1> QED
  BY <1>1, <1>2, <1>3, RunHist

LEMMA PushHist ==
  ASSUME IdInv, IdInv', HistInv, Observe, NEW s \in Slots,
         PushChanged(s) \/ PushNew(s), pc' # "idle"
  PROVE  HistInv'
<1>0. pc = "update" /\ pim[s].id \in Ids \cup {0} /\ UNCHANGED file
  BY DEF PushChanged, PushNew, AnswerLost, GiveUp, IdInv, TypeOK, PimRec
<1>1. CASE PushChanged(s)
  <2>1. /\ pim[s].id \in Ids /\ dev' = DevPut(pim[s].id, pim[s].data)
        /\ UNCHANGED pim \/ pim' = PimClean(s, pim[s].id)
    BY <1>0, <1>1 DEF PushChanged, AnswerLost, GiveUp
  <2> QED
    BY <1>0, <2>1, WriteHist
<1>2. CASE PushNew(s)
  <2>1. CASE UNCHANGED <<dev, pim>>
    BY <1>0, <2>1, QuietHist
  <2>2. CASE \E id \in FreshIds(fno) : /\ dev' = DevPut(id, pim[s].data)
                                       /\ UNCHANGED pim \/ pim' = PimClean(s, id)
    <3> PICK id \in FreshIds(fno) : /\ dev' = DevPut(id, pim[s].data)
                                    /\ UNCHANGED pim \/ pim' = PimClean(s, id)
      BY <2>2
    <3>1. id \in Ids /\ dev[id].chg = "unborn" /\ pim[s].id = 0
      BY <1>2 DEF FreshIds, PushNew
    <3> QED
      BY <1>0, <3>1, WriteHist
  <2> QED
    BY <1>2, <2>1, <2>2 DEF PushNew, AnswerLost, GiveUp
<1> QED
  BY <1>1, <1>2

-----------------------------------------------------------------------------
(* Everything a run relies on holds throughout, without an assumption.     *)
LEMMA RunInvariant == Spec => []RunInv
<1>1. Init => TabClear /\ TabMirrored /\ SettleInv /\ CmdAtPc
  BY DEF Init, TabClear, TabMirrored, SettleInv, ChangesCounted, ChangesKnown,
     DeleteSettled, CmdAtPc
<1>2. /\ IdInv /\ TabClear /\ TabMirrored /\ SettleInv /\ CmdAtPc /\ [Next]_vars
      => (TabClear /\ TabMirrored /\ SettleInv /\ CmdAtPc)'
  BY TabClearStep, TabMirroredStep, SettleStep, CmdAtPcStep DEF MirrorInv, IdInv
<1>3. IdInv /\ TabMirrored /\ SettleInv /\ CmdAtPc => RunInv
  BY DEF RunInv
<1> QED
  BY <1>1, <1>2, <1>3, IdInvariant, PTL DEF Spec

(* SyncHistory only watches.                                               *)
LEMMA WatchedSpec == HSpec => Spec
<1>1. HInit => Init
  BY DEF HInit
<1>2. [Next /\ Observe]_hvars => [Next]_vars
  BY DEF hvars
<1> QED
  BY <1>1, <1>2, PTL DEF HSpec, Spec

(* No import runs, no run is killed.                                       *)
LEMMA NoImport ==
  ASSUME "import" \notin Commands, TypeOK, CmdAtPc PROVE ~ImportNext
<1>1. cmd # "import" /\ pc \notin {"impread", "impcmp", "impexec"}
  BY DEF TypeOK, CmdAtPc
<1> QED
  BY <1>1 DEF ImportNext, BeginImport, ImportCallFails, ImportRead, ImportReadDone,
     ImportCompare, ImportExec, ImportFull, ImportDone

LEMMA HistStep ==
  ASSUME MaxCrashes = 0, "import" \notin Commands,
         RunInv, IdInv', HistInv, [Next /\ Observe]_hvars
  PROVE  HistInv'
<1>0. IdInv /\ TypeOK /\ CmdAtPc
  BY DEF RunInv, IdInv
<1>1. CASE UNCHANGED hvars
  BY <1>1 DEF hvars, vars, HistInv, MarkDeleted, PimMarkDeleted, RunKeeps, CleanKnown,
     GoneDeleted, PimOnlyUserDeletes, InRecs, FileIds
<1> SUFFICES ASSUME Next, Observe PROVE HistInv'
  BY <1>1
<1>2. ~Crash /\ ~ImportNext
  BY <1>0, NoImport DEF Crash, TypeOK
<1>3. CASE User
  BY <1>0, <1>3, UserKeeps
<1>4. CASE \E c \in Commands : Start(c)
  BY <1>0, <1>4, StartKeeps
<1>5. CASE Finish
  BY <1>0, <1>5, FinishKeeps
<1>6. CASE WriteSysInfo
  <2>1. pc # "idle" /\ pc' # "idle" /\ UNCHANGED dev
    BY <1>6 DEF WriteSysInfo
  <2>2. CASE UNCHANGED <<pim, file>>
    BY <1>0, <2>1, <2>2, QuietHist
  <2>3. CASE pim' = Stamped(pim) /\ file' = Stamped(file)
    <3>1. \A s \in Slots : pim[s] \in PimRec /\ file[s] \in PimRec
      BY <1>0 DEF TypeOK
    <3>2. \A s \in Slots : /\ file'[s].id = file[s].id /\ file'[s].stat = file[s].stat
                          /\ pim'[s].id = pim[s].id /\ pim'[s].stat = pim[s].stat
      BY <2>3, <3>1 DEF Stamped, PimRec
    <3> QED
      BY <1>0, <2>1, <3>2, QuietHist
  <2> QED
    BY <1>6, <2>2, <2>3 DEF WriteSysInfo
<1>7. CASE SyncNext
  <2>1. pc # "idle" /\ pc' # "idle" /\ UNCHANGED file
    BY <1>7, SyncRuns
  <2>2. CASE UNCHANGED <<dev, file, pim>>
    BY <1>0, <2>1, <2>2, QuietHist
  <2>3. CASE Phase0 \/ CallFails
    BY <1>0, <2>2, <2>3, HiddenKeep, ExportHist DEF Phase0
  <2>4. CASE Phase1
    BY <1>0, <2>1, <2>2, <2>4, HiddenKeep, ModHist, CommitHist DEF Phase1
  <2>5. CASE Phase2
    BY <1>0, <2>1, <2>2, <2>5, HiddenKeep, PushDeletedHist, PushHist DEF Phase2
  <2>6. CASE Phase3
    BY <1>0, <2>1, <2>2, <2>6, HiddenKeep, DeleteRunHist DEF Phase3
  <2> QED
    BY <1>7, <2>3, <2>4, <2>5, <2>6 DEF SyncNext
<1> QED
  BY <1>2, <1>3, <1>4, <1>5, <1>6, <1>7 DEF Next, Program

LEMMA HistInvariant ==
  ASSUME MaxCrashes = 0, "import" \notin Commands PROVE HSpec => []HistInv
<1>1. HInit => HistInv
  <2> SUFFICES ASSUME HInit PROVE HistInv
    OBVIOUS
  <2>1. /\ pc = "idle" /\ \A id \in Ids : dev[id].chg = "unborn"
        /\ \A s \in Slots : pim[s].id = 0 /\ file[s].id = 0
    BY DEF HInit, Init, Unborn, EmptyPim, NoPim
  <2>2. known = {}
    BY DEF HInit
  <2> QED
    BY <2>1, <2>2 DEF HistInv, MarkDeleted, PimMarkDeleted, RunKeeps, CleanKnown,
       GoneDeleted, PimOnlyUserDeletes
<1>2. RunInv /\ RunInv' /\ HistInv /\ [Next /\ Observe]_hvars => HistInv'
  BY HistStep DEF RunInv
<1> QED
  BY <1>1, <1>2, WatchedSpec, RunInvariant, PTL DEF HSpec

(* A record vanishes from the IC35 only when the user deleted it, on one   *)
(* side or the other, or when the PIM files never got to know it: for any  *)
(* number of files, records, runs of sync and export and failures, VCARDs  *)
(* included, if no run is killed.                                          *)
THEOREM DeviceDeletes ==
  ASSUME MaxCrashes = 0, "import" \notin Commands PROVE HSpec => []OnlyUserDeletes
<1>1. HistInv => OnlyUserDeletes
  BY DEF HistInv, GoneDeleted, OnlyUserDeletes
<1> QED
  BY <1>1, HistInvariant, PTL

(* Nor does one that was on disk vanish from the PIM files.                *)
THEOREM FileDeletes ==
  ASSUME MaxCrashes = 0, "import" \notin Commands PROVE HSpec => []PimOnlyUserDeletes
<1>1. HistInv => PimOnlyUserDeletes
  BY DEF HistInv
<1> QED
  BY <1>1, HistInvariant, PTL

-----------------------------------------------------------------------------
(* Edits.  With sync alone, no VCARDs and no marks of deletion, the dirty  *)
(* PIM records are just those with an edit that is not on the IC35.        *)
SyncOnly ==
  Commands = {"sync"} /\ RevFiles = {} /\ PimMarksDeleted = FALSE /\ MaxCrashes = 0

Store == IF pc = "idle" THEN file ELSE pim
Plain(p) == \A s \in Slots : p[s].stat # "del" /\ (p[s].stat = "none" => p[s] = NoPim)
EditInv ==
  /\ Plain(pim) /\ Plain(file)
  /\ \A s \in Slots : Store[s].stat = "dirty" <=> s \in edited

(* What a step within a run may do to a PIM record.                        *)
Safe(s) ==
  \/ pim'[s] = pim[s]
  \/ pim[s].stat # "dirty" /\ (pim'[s] = NoPim \/ pim'[s].stat = "clean")
  \/ /\ pim'[s].stat = "clean" /\ pim'[s].id # 0
     /\ pim'[s].data = pim[s].data /\ pim'[s].data = dev'[pim'[s].id].data

LEMMA RunEdits ==
  ASSUME EditInv, Observe, pc \notin {"idle", "finish"}, pc' # "idle", UNCHANGED file,
         \A s \in Slots : Safe(s)
  PROVE  /\ EditInv'
         /\ \A s \in Slots : s \in edited => pim'[s].data = pim[s].data
<1>1. edited' = edited \ {s \in Slots : pim'[s] # pim[s] /\ pim'[s].id # 0
                                        /\ pim'[s].data = dev'[pim'[s].id].data}
  BY DEF Observe, UserStep
<1>2. \A s \in Slots : pim[s].stat = "dirty" <=> s \in edited
  BY DEF EditInv, Store
<1>3. \A s \in Slots : pim'[s].stat = "dirty" <=> s \in edited'
  BY <1>1, <1>2 DEF Safe, NoPim
<1>4. Plain(pim)'
  <2> SUFFICES ASSUME NEW s \in Slots
               PROVE  pim'[s].stat # "del" /\ (pim'[s].stat = "none" => pim'[s] = NoPim)
    BY DEF Plain
  <2>1. NoPim.stat = "none"
    BY DEF NoPim
  <2> QED
    BY <2>1 DEF Plain, Safe, EditInv
<1> QED
  BY <1>2, <1>3, <1>4 DEF Safe, EditInv, Store, Plain

LEMMA UserEdited ==
  ASSUME SyncOnly, TypeOK, EditInv, Observe, User PROVE EditInv'
<1>1. pc = "idle" /\ pc' = "idle" /\ UNCHANGED pim /\ UserStep
  BY UserIdle DEF UserStep
<1>2. edited' = {s \in Slots : Present(file', s)
                               /\ (s \in edited \/ file'[s].data # file[s].data)}
  BY <1>1 DEF Observe
<1>3. \A s \in Slots : \/ file'[s] = file[s]
                       \/ file'[s] = NoPim
                       \/ file'[s].stat = "dirty" /\ file'[s].data # file[s].data
  <2> USE DEF TypeOK
  <2>1. CASE \E id \in Ids, d \in Data : DevCreates(id, d) \/ DevEdits(id, d)
    BY <2>1 DEF DevCreates, DevEdits
  <2>2. CASE \E id \in Ids : DevDeletes(id)
    BY <2>2 DEF DevDeletes
  <2>3. CASE \E s \in Slots, d \in Data : PimCreates(s, d)
    <3> PICK s \in Slots, d \in Data : PimCreates(s, d)
      BY <2>3
    <3>1. file[s].data = NoData
      BY DEF PimCreates, FirstFree, FreeSlots, Present, EditInv, Plain, NoPim
    <3> QED
      BY <3>1, DataAssumption DEF PimCreates
  <2>4. CASE \E s \in Slots, d \in Data : PimEdits(s, d)
    <3> PICK s \in Slots, d \in Data : PimEdits(s, d)
      BY <2>4
    <3>1. file' = [file EXCEPT ![s].data = d, ![s].stat = "dirty"]
      BY DEF PimEdits, SyncOnly
    <3>2. file'[s].stat = "dirty" /\ file'[s].data = d /\ file[s].data # d
      BY <3>1 DEF PimRec, PimEdits
    <3> QED
      BY <3>1, <3>2
  <2>5. CASE \E s \in Slots : PimRemoves(s)
    BY <2>5 DEF PimRemoves, SyncOnly
  <2> QED
    BY <2>1, <2>2, <2>3, <2>4, <2>5 DEF User
<1>4. Plain(file)'
  <2> SUFFICES ASSUME NEW s \in Slots
               PROVE  file'[s].stat # "del" /\ (file'[s].stat = "none" => file'[s] = NoPim)
    BY DEF Plain
  <2>1. NoPim.stat = "none"
    BY DEF NoPim
  <2> QED
    BY <1>3, <2>1 DEF Plain, EditInv
<1>5. \A s \in Slots : file'[s].stat = "dirty" <=> s \in edited'
  BY <1>1, <1>2, <1>3 DEF EditInv, Store, Present, NoPim
<1> QED
  BY <1>1, <1>4, <1>5 DEF EditInv, Store, Plain

(* A record from the IC35 goes where no modified record is.                *)
LEMMA PutSafe ==
  ASSUME CInv, NEW id \in Ids, NEW s \in PutSlots(id), NEW d, pim' = Ic35ToPim(s, id, d),
         \A t \in ByID(id) : pim[t].stat # "dirty"
  PROVE  \A t \in Slots : Safe(t)
<1>1. s \in Slots /\ pim \in [Slots -> PimRec]
  BY DEF PutSlots, ByID, FirstFree, FreeSlots, CInv, IdInv, TypeOK
<1>2. pim[s].stat # "dirty"
  BY DEF PutSlots, FirstFree, FreeSlots, Present
<1>3. pim'[s].stat = "clean" /\ \A t \in Slots : t # s => pim'[t] = pim[t]
  BY <1>1 DEF Ic35ToPim
<1> QED
  BY <1>2, <1>3 DEF Safe

(* A modified record is written to the IC35 and marked clean.              *)
LEMMA CleanSafe ==
  ASSUME TypeOK, NEW s \in Slots, NEW id \in Ids,
         dev' = DevPut(id, pim[s].data), pim' = PimClean(s, id)
  PROVE  \A t \in Slots : Safe(t)
<1>1. pim \in [Slots -> PimRec] /\ dev \in [Ids -> DevRec] /\ id # 0
  BY IdsAssumption DEF TypeOK
<1>2. /\ \A t \in Slots : t # s => pim'[t] = pim[t]
      /\ pim'[s].id = id /\ pim'[s].stat = "clean" /\ pim'[s].data = pim[s].data
  BY <1>1 DEF PimClean, PimRec
<1>3. dev'[id].data = pim[s].data
  BY <1>1 DEF DevPut
<1> QED
  BY <1>1, <1>2, <1>3 DEF Safe

LEMMA SyncSafe ==
  ASSUME SyncOnly, CInv, EditInv, SyncNext PROVE \A s \in Slots : Safe(s)
<1>0. TypeOK /\ NoRevs(pim) /\ pim \in [Slots -> PimRec]
  BY DEF CInv, IdInv, TypeOK
<1>1. CASE UNCHANGED pim
  BY <1>1 DEF Safe
<1>2. CASE \E id \in Ids : ExportRead(id)
  <2> PICK id \in Ids : ExportRead(id)
    BY <1>2
  <2>1. pc = "export" /\ cmd = "sync" /\ IdFile[id] = fno
    BY <1>0 DEF ExportRead, CInv, CmdAtPc, SyncOnly, TypeOK
  <2>2. \A t \in ByID(id) : t \in PimOf(fno)
    BY <2>1, IdsAssumption DEF ByID, PimOf, CInv, IdsInPlace
  <2>3. \A t \in ByID(id) : pim[t].stat # "dirty"
    BY <2>1, <2>2 DEF CInv, ExportClean
  <2> QED
    BY <2>3, PutSafe DEF ExportRead
<1>3. CASE \E id \in Ids : ModRead(id)
  <2> PICK id \in Ids : ModRead(id)
    BY <1>3
  <2>1. CASE ~NoConflict(id)
    BY <1>1, <2>1 DEF ModRead
  <2>2. CASE NoConflict(id)
    <3>1. \A t \in ByID(id) : pim[t].stat # "dirty" /\ t \in Slots
      BY <2>2 DEF NoConflict, RecStat, ByID
    <3>2. CASE \E t \in PutSlots(id) : pim' = Ic35ToPim(t, id, dev[id].data)
      BY <3>1, <3>2, PutSafe
    <3>3. CASE \E t \in ByID(id) : pim' = PimDelete(t)
      BY <1>0, <3>1, <3>3 DEF PimDelete, Safe
    <3> QED
      BY <1>1, <2>2, <3>2, <3>3 DEF ModRead, Received
  <2> QED
    BY <2>1, <2>2
<1>4. \A s \in Slots : ~PushDeleted(s)
  BY DEF PushDeleted, RecStat, EditInv, Plain
<1>5. CASE \E s \in Slots : PushChanged(s)
  <2> PICK s \in Slots : PushChanged(s)
    BY <1>5
  <2>1. pim[s].id \in Ids
    BY <1>0 DEF PushChanged, PimRec
  <2> QED
    BY <1>0, <1>1, <2>1, CleanSafe DEF PushChanged, AnswerLost, GiveUp
<1>6. CASE \E s \in Slots : PushNew(s)
  BY <1>0, <1>1, <1>6, CleanSafe DEF PushNew, AnswerLost, GiveUp, FreshIds
<1>7. CASE \E id \in Ids : Commit(id) \/ Delete(id)
  BY <1>1, <1>7 DEF Commit, Delete, AnswerLost, GiveUp
<1> QED
  BY <1>1, <1>2, <1>3, <1>4, <1>5, <1>6, <1>7, HiddenKeep
  DEF SyncNext, Phase0, Phase1, Phase2, Phase3

(* A step of the sync command, a stamp, the beginning and end of a run.    *)
KeepsEdits ==
  pc # "idle" /\ pc' # "idle" =>
    \A s \in edited : Present(pim, s) /\ pim[s].stat # "del" => pim'[s].data = pim[s].data

LEMMA EditStep ==
  ASSUME SyncOnly, CInv, EditInv, [Next /\ Observe]_hvars
  PROVE  EditInv' /\ (edited \subseteq Slots => KeepsEdits /\ edited' \subseteq Slots)
<1>0. TypeOK /\ CmdAtPc /\ NoRevs(pim) /\ NoRevs(file)
  BY DEF CInv, IdInv
<1>1. CASE UNCHANGED hvars
  BY <1>1 DEF hvars, vars, EditInv, Store, Plain, KeepsEdits
<1> SUFFICES ASSUME Next, Observe
             PROVE  EditInv' /\ (edited \subseteq Slots => KeepsEdits /\ edited' \subseteq Slots)
  BY <1>1
<1>2. ~Crash /\ ~ImportNext
  BY <1>0, NoImport DEF Crash, TypeOK, SyncOnly
<1>3. edited \subseteq Slots => edited' \subseteq Slots
  BY DEF Observe
<1>4. CASE User
  BY <1>0, <1>3, <1>4, UserEdited, UserIdle DEF KeepsEdits
<1>5. CASE \E c \in Commands : Start(c)
  <2>1. pc = "idle" /\ pc' = "file" /\ pim' = file /\ UNCHANGED file
    BY <1>5 DEF Start
  <2>2. edited' = edited
    BY <2>1 DEF Observe, UserStep
  <2> QED
    BY <1>3, <2>1, <2>2 DEF EditInv, Store, Plain, KeepsEdits
<1>6. CASE Finish
  <2>1. pc = "finish" /\ pc' = "idle" /\ file' = pim /\ pim' = EmptyPim
    BY <1>6 DEF Finish
  <2>2. edited' = edited
    BY <2>1 DEF Observe, UserStep
  <2>3. Plain(EmptyPim)
    BY DEF Plain, EmptyPim, NoPim
  <2> QED
    BY <1>3, <2>1, <2>2, <2>3 DEF EditInv, Store, Plain, KeepsEdits
<1>7. CASE WriteSysInfo
  <2>1. pc = "stamp" /\ pc' = "finish"
    BY <1>7 DEF WriteSysInfo
  <2>2. ASSUME NEW p, p \in [Slots -> PimRec], NoRevs(p) PROVE Stamped(p) = p
    <3>1. \A s \in Slots : [p[s] EXCEPT !.newer = FALSE] = p[s]
      BY <2>2 DEF NoRevs, PimRec
    <3> QED
      BY <2>2, <3>1 DEF Stamped
  <2>3. UNCHANGED <<pim, file>>
    BY <1>0, <1>7, <2>2 DEF WriteSysInfo, TypeOK
  <2>4. \A s \in Slots : Safe(s)
    BY <2>3 DEF Safe
  <2> QED
    BY <1>3, <2>1, <2>3, <2>4, RunEdits DEF KeepsEdits
<1>8. CASE SyncNext
  <2>1. pc # "idle" /\ pc' # "idle" /\ UNCHANGED file /\ pc # "finish"
    BY <1>8, SyncRuns, SyncBefore
  <2> QED
    BY <1>3, <1>8, <2>1, SyncSafe, RunEdits DEF KeepsEdits
<1> QED
  BY <1>2, <1>4, <1>5, <1>6, <1>7, <1>8 DEF Next, Program

(* Only phase 2 gives a record on the IC35 other contents.                 *)
LEMMA OverrideStep ==
  ASSUME SyncOnly, CInv, EditInv, [Next /\ Observe]_hvars,
         NEW id \in Ids, Overwritten(id)
  PROVE  \E s \in edited : pim[s].id = id
<1>0. TypeOK /\ CmdAtPc /\ NoRevs(pim) /\ dev[id] \in DevRec
  BY DEF CInv, IdInv, TypeOK
<1>1. pc # "idle" /\ dev'[id] # dev[id]
  BY DEF Overwritten
<1>2. dev' # dev
  BY <1>1
<1>3. SyncNext
  <2>1. ~Crash /\ ~ImportNext
    BY <1>0, NoImport DEF Crash, TypeOK, SyncOnly
  <2>2. ~(\E c \in Commands : Start(c)) /\ ~WriteSysInfo /\ ~Finish
    BY <1>2 DEF Start, WriteSysInfo, Finish
  <2> QED
    BY <1>1, <1>2, <2>1, <2>2, UserIdle DEF Next, Program, hvars, vars
<1>4. \A j : dev' # DevDelete(j) /\ dev' # DevCommit(j)
  BY <1>0 DEF DevDelete, DevCommit, Gone, Overwritten, TypeOK, DevRec
<1>5. \A s \in Slots : ~PushDeleted(s)
  BY DEF PushDeleted, RecStat, EditInv, Plain
<1>6. ~(\E j \in Ids : ExportRead(j) \/ ModRead(j) \/ Commit(j) \/ Delete(j))
  BY <1>2, <1>4 DEF ExportRead, ModRead, Commit, Delete, AnswerLost
<1>7. ~(\E s \in Slots : PushNew(s))
  <2> SUFFICES ASSUME NEW s \in Slots, PushNew(s) PROVE FALSE
    OBVIOUS
  <2>1. PICK j \in FreshIds(fno) : dev' = DevPut(j, pim[s].data)
    BY <1>2 DEF PushNew, AnswerLost
  <2>2. dev[j].chg = "unborn"
    BY DEF FreshIds
  <2>3. j # id
    BY <2>2 DEF Overwritten
  <2> QED
    BY <1>0, <1>1, <2>1, <2>3 DEF DevPut, TypeOK
<1>8. PICK s \in Slots : PushChanged(s)
  BY <1>2, <1>3, <1>5, <1>6, <1>7, HiddenKeep DEF SyncNext, Phase0, Phase1, Phase2, Phase3
<1>9. dev' = DevPut(pim[s].id, pim[s].data) /\ pim[s].stat = "dirty"
  BY <1>0, <1>8 DEF PushChanged, AnswerLost, RecStat, NoRevs
<1>10. pim[s].id = id
  BY <1>0, <1>1, <1>9 DEF DevPut, TypeOK
<1>11. s \in edited
  BY <1>1, <1>9 DEF EditInv, Store
<1> QED
  BY <1>10, <1>11

LEMMA EditInvariant == ASSUME SyncOnly PROVE HSpec => [](EditInv /\ edited \subseteq Slots)
<1>1. HInit => EditInv /\ edited \subseteq Slots
  <2> SUFFICES ASSUME HInit PROVE EditInv /\ edited \subseteq Slots
    OBVIOUS
  <2>1. \A s \in Slots : pim[s] = NoPim /\ file[s] = NoPim
    BY DEF HInit, Init, EmptyPim
  <2>2. NoPim.stat = "none" /\ edited = {}
    BY DEF HInit, NoPim
  <2> QED
    BY <2>1, <2>2 DEF EditInv, Plain, Store
<1>2. CInv /\ EditInv /\ edited \subseteq Slots /\ [Next /\ Observe]_hvars
      => (EditInv /\ edited \subseteq Slots)'
  BY EditStep
<1>3. Spec => []CInv
  BY CInvariant DEF SyncOnly
<1> QED
  BY <1>1, <1>2, <1>3, WatchedSpec, PTL DEF HSpec

(* A change made on the IC35 is overwritten by a sync only if the user     *)
(* edited the PIM record as well, however many syncs failed in between.    *)
THEOREM OverridesEdited == ASSUME SyncOnly PROVE HSpec => OverrideNeedsEdit
<1>1. CInv /\ EditInv /\ [Next /\ Observe]_hvars
      => [\A id \in Ids : Overwritten(id) => \E s \in edited : pim[s].id = id]_hvars
  BY OverrideStep
<1>2. Spec => []CInv
  BY CInvariant DEF SyncOnly
<1> QED
  BY <1>1, <1>2, EditInvariant, WatchedSpec, PTL DEF HSpec, OverrideNeedsEdit

(* An edit in a PIM file that is not on the IC35 yet survives every sync.  *)
THEOREM EditsSurvive == ASSUME SyncOnly PROVE HSpec => EditsKept
<1>1. CInv /\ EditInv /\ edited \subseteq Slots /\ [Next /\ Observe]_hvars
      => [KeepsEdits]_hvars
  BY EditStep
<1>2. Spec => []CInv
  BY CInvariant DEF SyncOnly
<1> QED
  BY <1>1, <1>2, EditInvariant, WatchedSpec, PTL DEF HSpec, EditsKept, KeepsEdits
=============================================================================
