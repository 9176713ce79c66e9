----------------------------- MODULE ImportFile -----------------------------
(***************************************************************************)
(* The import command: importfile() in ic35sync.c.  It reads all records   *)
(* of an IC35 file, compares them with the PIM records, collects one       *)
(* action per PIM record, and executes the actions.                        *)
(***************************************************************************)
EXTENDS Ic35Base

(* open_file or get_flen failed, or read_frec: the command gives up        *)
ImportCallFails ==
  /\ cmd = "import"
  /\ pc = "file" \/ (pc = "impread" /\ irec < nrec)
  /\ Fault /\ GiveUp
  /\ UNCHANGED dev

BeginImport ==
  /\ pc = "file" /\ cmd = "import"
  /\ pc' = "impread" /\ StartLoop(Cardinality(LiveIds(fno)))
  /\ UNCHANGED <<dev, file, count, pim, ctl>>

ImportRead(id) ==
  /\ pc = "impread" /\ irec < nrec
  /\ IdFile[id] = fno /\ IsIndex(id, irec)
  /\ irec' = irec + 1 /\ tab' = tab \cup {id}
  /\ UNCHANGED <<dev, file, count, pim, pc, ctl, nrec, mleft, todo, op>>

ImportReadDone ==
  /\ pc = "impread" /\ irec = nrec
  /\ pc' = "impcmp"
  /\ UNCHANGED <<dev, file, count, pim, ctl, loop>>

(* the action a PIM record needs, whatever its status                      *)
Action(s) ==
  LET id == pim[s].id IN
  IF id \in tab
  THEN IF dev[id].data = pim[s].data
       THEN IF dev[id].chg = "clean" THEN "none" ELSE "commit"
       ELSE "update"
  ELSE IF id \in OwnerIds THEN "update" ELSE "write"

(* what stays in the table is only on the IC35                             *)
ImportCompareForgets ==               \* mutant: IC35 records not in the PIM files
  /\ pc = "impcmp"                   \* are not counted
  /\ op' = [s \in Slots |-> IF s \in PimOf(fno) THEN Action(s) ELSE "none"]
  /\ tab' = {}
  /\ pc' = "impexec"
  /\ UNCHANGED <<dev, file, count, pim, ctl, nrec, irec, mleft, todo>>
ImportCompare ==
  /\ pc = "impcmp"
  /\ op' = [s \in Slots |-> IF s \in PimOf(fno) THEN Action(s) ELSE "none"]
  /\ tab' = tab \ {pim[s].id : s \in PimOf(fno)}
  /\ pc' = "impexec"
  /\ UNCHANGED <<dev, file, count, pim, ctl, nrec, irec, mleft, todo>>

(* the IC35 after the action for s, which has or gets record-ID id         *)
Effect(s, id) == IF op[s] = "commit" THEN DevCommit(id)
                                     ELSE DevPut(id, pim[s].data)

Executed(s) == /\ op' = [op EXCEPT ![s] = "none"]
               /\ UNCHANGED <<file, pc, cmd, fno, initexp, same,
                              nrec, irec, mleft, tab, todo>>

(* a failure is noted, and the other actions still executed                *)
ImportExec(s) ==
  /\ pc = "impexec" /\ op[s] # "none"
  /\ \E id \in IF op[s] = "write" THEN FreshIds(fno) ELSE {pim[s].id} :
     \/ /\ dev' = Effect(s, id) /\ pim' = PimClean(s, id)
        /\ UNCHANGED <<rval, count>>
     \/ /\ dev' \in {dev, Effect(s, id)} /\ rval' = "ERR"
        /\ Fault /\ UNCHANGED pim
  /\ Executed(s)

ImportFull(s) ==
  /\ pc = "impexec" /\ op[s] = "write" /\ FreshIds(fno) = {}
  /\ rval' = "ERR" /\ UNCHANGED <<dev, pim, count>>
  /\ Executed(s)

(* all files but the last: go on unless an action failed; after the last   *)
(* the stamp is written if no file had records the PIM files lack          *)
ImportDone ==
  /\ pc = "impexec" /\ \A s \in Slots : op[s] = "none"
  /\ same' = (same /\ tab = {} /\ rval = "OK")
  /\ IF rval = "OK" THEN FileDone(IF same' THEN "stamp" ELSE "finish")
     ELSE pc' = "finish" /\ NoLoop /\ UNCHANGED <<cmd, fno, initexp, rval>>
  /\ UNCHANGED <<dev, file, count, pim>>

ImportNext ==
  \/ BeginImport \/ ImportCallFails \/ ImportReadDone \/ ImportCompare
  \/ \E id \in Ids : ImportRead(id)
  \/ \E s \in Slots : ImportExec(s) \/ ImportFull(s)
  \/ ImportDone
=============================================================================
