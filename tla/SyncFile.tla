------------------------------ MODULE SyncFile ------------------------------
(***************************************************************************)
(* The sync and export commands: exportfile() and the phases of syncfile() *)
(* in ic35sync.c.  One action is one transaction with the IC35 and what    *)
(* the command does with its result, or the step from a loop to the next.  *)
(***************************************************************************)
EXTENDS Ic35Base

(* A transaction that changes nothing in the IC35 fails: in every phase    *)
(* the command closes the file and gives up.                               *)
CallFails ==
  /\ \/ pc \in {"file", "modlen", "len"}
     \/ (pc \in {"export", "mod", "index"} /\ irec < nrec)
     \/ (pc \in {"commit", "delete"} /\ tab # {})
     \/ (pc = "update" /\ \E s \in todo : pim[s].id # 0 \/ RecStat(s) = "dirty")
  /\ cmd \in {"export", "sync"}
  /\ Fault /\ GiveUp
  /\ UNCHANGED dev

(* The IC35 did what it was told, but its answer was lost or late.         *)
AnswerLost(newdev) == Fault /\ GiveUp /\ dev' = newdev

-----------------------------------------------------------------------------
(* exportfile: read all records by index into the PIM records.  For sync   *)
(* this is phase 0, when the PIM files hold no record of this file.        *)

BeginExport ==
  /\ pc = "file"
  /\ cmd = "export" \/ (cmd = "sync" /\ PimOf(fno) = {})
  /\ pc' = "export" /\ initexp' = TRUE
  /\ StartLoop(Cardinality(LiveIds(fno)))
  /\ UNCHANGED <<dev, file, count, pim, cmd, fno, same, rval>>

ExportRead(id) ==
  /\ pc = "export" /\ irec < nrec
  /\ IdFile[id] = fno /\ IsIndex(id, irec)
  /\ \E s \in PutSlots(id) : pim' = Ic35ToPim(s, id, dev[id].data)
  /\ irec' = irec + 1
  /\ UNCHANGED <<dev, file, count, pc, ctl, nrec, mleft, tab, todo, op>>

ExportDone ==
  /\ pc = "export" /\ irec = nrec
  /\ IF cmd = "export" THEN FileDone("finish")
     ELSE pc' = "modlen" /\ NoLoop /\ UNCHANGED <<cmd, fno, initexp, rval>>
  /\ UNCHANGED <<dev, file, count, pim, same>>

-----------------------------------------------------------------------------
(* phase 1: records modified or deleted on the IC35                        *)

BeginSync ==
  /\ pc = "file" /\ cmd = "sync" /\ PimOf(fno) # {}
  /\ pc' = "modlen" /\ initexp' = FALSE
  /\ UNCHANGED <<dev, file, count, pim, cmd, fno, same, rval, loop>>

ModLen ==
  /\ pc = "modlen"
  /\ pc' = "mod"
  /\ nrec' = Cardinality(ChangedIds(fno)) /\ irec' = 0
  /\ mleft' = ChangedIds(fno)
  /\ UNCHANGED <<dev, file, count, pim, ctl, tab, todo, op>>

(* changed on the IC35 only, not also in the PIM file                      *)
NoConflictAlways(id) == id \in Ids             \* mutant: the IC35 overrides
NoConflictNew(id) == ByID(id) = {}             \* mutant: PIM_CLEAN forgotten
NoConflict(id) == \A s \in ByID(id) : RecStat(s) = "clean"

(* the PIM records after a change on the IC35 was taken over               *)
ReceivedFallsThrough(id) ==                    \* mutant: no break in the switch
  IF ByID(id) = {} THEN {pim} ELSE {PimDelete(s) : s \in ByID(id)}
Received(id) ==
  IF Live(dev[id]) THEN {Ic35ToPim(s, id, dev[id].data) : s \in PutSlots(id)}
  ELSE IF ByID(id) = {} THEN {pim}
  ELSE {PimDelete(s) : s \in ByID(id)}

ModRead(id) ==
  /\ pc = "mod" /\ irec < nrec /\ id \in mleft
  /\ mleft' = mleft \ {id} /\ irec' = irec + 1
  /\ IF NoConflict(id)
     THEN pim' \in Received(id) /\ tab' = tab \cup {id}
     ELSE UNCHANGED <<tab, pim>>
  /\ UNCHANGED <<dev, file, count, pc, ctl, nrec, todo, op>>

ModDoneEarly ==                                \* mutant: one record too few
  /\ pc = "mod" /\ irec + 1 >= nrec
  /\ pc' = "commit"
  /\ UNCHANGED <<dev, file, count, pim, ctl, loop>>
ModDone ==
  /\ pc = "mod" /\ irec = nrec
  /\ pc' = "commit"
  /\ UNCHANGED <<dev, file, count, pim, ctl, loop>>

Commit(id) ==
  /\ pc = "commit" /\ id \in tab
  /\ \/ /\ dev' = DevCommit(id) /\ tab' = tab \ {id}
        /\ UNCHANGED <<file, count, pim, pc, ctl, nrec, irec, mleft, todo, op>>
     \/ AnswerLost(DevCommit(id))

(* after an initial export the other phases are left out; phase 2 visits   *)
(* the records of this file, and skips the clean ones                      *)
CommitDone ==
  /\ pc = "commit" /\ tab = {}
  /\ IF initexp THEN FileDone("stamp")
     ELSE /\ pc' = "update"
          /\ todo' = {s \in PimOf(fno) : RecStat(s) # "clean"}
          /\ UNCHANGED <<cmd, fno, initexp, rval, nrec, irec, mleft, tab, op>>
  /\ UNCHANGED <<dev, file, count, pim, same>>

-----------------------------------------------------------------------------
(* phase 2: records modified in the PIM files                              *)

Visited(s) == todo' = todo \ {s} /\ UNCHANGED <<nrec, irec, mleft, tab, op>>

(* pim_delrec() frees the record the iterator of pim_getrec() stands on.   *)
(* The next pim_getrec() reads the freed record: it goes on, it finds no   *)
(* more records, or the run is killed (Crash).                             *)
VisitedFreed(s) ==
  /\ todo' \in {todo \ {s}, {}}
  /\ UNCHANGED <<nrec, irec, mleft, tab, op>>

(* What delete answers for a record the IC35 no longer has is not known.   *)
PushDeleted(s) ==
  /\ pc = "update" /\ s \in todo /\ RecStat(s) = "del" /\ pim[s].id # 0
  /\ LET id == pim[s].id IN
     \/ /\ dev' = DevDelete(id) /\ pim' = PimDelete(s)
        /\ VisitedFreed(s)
        /\ UNCHANGED <<file, count, pc, ctl>>
     \/ AnswerLost(DevDelete(id))
     \/ ~Live(dev[id]) /\ GiveUp /\ UNCHANGED <<dev, count>>

(* a record marked deleted that never was on the IC35 stays as it is, and  *)
(* so does one that was modified here and deleted there                    *)
NotOnIC35(s) == pim[s].id # 0 /\ ~Live(dev[pim[s].id])
PushNothingMore(s) ==                          \* mutant: result of the read unused
  /\ pc = "update" /\ s \in todo
  /\ RecStat(s) = "dirty" /\ pim[s].id # 0
  /\ Visited(s)
  /\ UNCHANGED <<dev, file, count, pim, pc, ctl>>
PushNothingStays(s) ==                         \* mutant: no next record
  /\ pc = "update" /\ s \in todo
  /\ RecStat(s) = "dirty" /\ NotOnIC35(s)
  /\ UNCHANGED vars
PushNothing(s) ==
  /\ pc = "update" /\ s \in todo
  /\ \/ RecStat(s) = "del" /\ pim[s].id = 0
     \/ RecStat(s) = "dirty" /\ NotOnIC35(s)
  /\ Visited(s)
  /\ UNCHANGED <<dev, file, count, pim, pc, ctl>>

(* read_id_frec finds the record, update_frec overwrites it                *)
PushChanged(s) ==
  /\ pc = "update" /\ s \in todo /\ RecStat(s) = "dirty" /\ pim[s].id # 0
  /\ LET id == pim[s].id IN
     /\ Live(dev[id])
     /\ \/ /\ dev' = DevPut(id, pim[s].data) /\ pim' = PimClean(s, id)
           /\ Visited(s)
           /\ UNCHANGED <<file, count, pc, ctl>>
        \/ AnswerLost(DevPut(id, pim[s].data))

(* write_frec of a record without record-ID; the IC35 may be full          *)
PushNew(s) ==
  /\ pc = "update" /\ s \in todo /\ RecStat(s) = "dirty" /\ pim[s].id = 0
  /\ \/ \E id \in FreshIds(fno) :
        \/ /\ dev' = DevPut(id, pim[s].data) /\ pim' = PimClean(s, id)
           /\ Visited(s)
           /\ UNCHANGED <<file, count, pc, ctl>>
        \/ AnswerLost(DevPut(id, pim[s].data))
     \/ FreshIds(fno) = {} /\ GiveUp /\ UNCHANGED <<dev, count>>

PushDone ==
  /\ pc = "update" /\ todo = {}
  /\ pc' = "len"
  /\ UNCHANGED <<dev, file, count, pim, ctl, loop>>

-----------------------------------------------------------------------------
(* phase 3: records missing in the PIM files                               *)

Len ==
  /\ pc = "len"
  /\ pc' = "index" /\ StartLoop(Cardinality(LiveIds(fno)))
  /\ UNCHANGED <<dev, file, count, pim, ctl>>

IndexRead(id) ==
  /\ pc = "index" /\ irec < nrec
  /\ IdFile[id] = fno /\ IsIndex(id, irec)
  /\ irec' = irec + 1
  /\ tab' = IF ByID(id) = {} THEN tab \cup {id} ELSE tab
  /\ UNCHANGED <<dev, file, count, pim, pc, ctl, nrec, mleft, todo, op>>

IndexDone ==
  /\ pc = "index" /\ irec = nrec
  /\ pc' = "delete"
  /\ UNCHANGED <<dev, file, count, pim, ctl, loop>>

Delete(id) ==
  /\ pc = "delete" /\ id \in tab
  /\ \/ /\ dev' = DevDelete(id) /\ tab' = tab \ {id}
        /\ UNCHANGED <<file, count, pim, pc, ctl, nrec, irec, mleft, todo, op>>
     \/ AnswerLost(DevDelete(id))

DeleteDone ==
  /\ pc = "delete" /\ tab = {}
  /\ FileDone("stamp")
  /\ UNCHANGED <<dev, file, count, pim, same>>

-----------------------------------------------------------------------------
Phase0 == BeginExport \/ (\E id \in Ids : ExportRead(id)) \/ ExportDone
Phase1 == \/ BeginSync \/ ModLen \/ (\E id \in Ids : ModRead(id)) \/ ModDone
          \/ (\E id \in Ids : Commit(id)) \/ CommitDone
Phase2 == \/ \E s \in Slots : \/ PushDeleted(s) \/ PushNothing(s)
                              \/ PushChanged(s) \/ PushNew(s)
          \/ PushDone
Phase3 == \/ Len \/ (\E id \in Ids : IndexRead(id)) \/ IndexDone
          \/ (\E id \in Ids : Delete(id)) \/ DeleteDone

SyncNext == Phase0 \/ Phase1 \/ Phase2 \/ Phase3 \/ CallFails
=============================================================================
