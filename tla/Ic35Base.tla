------------------------------ MODULE Ic35Base ------------------------------
(***************************************************************************)
(* The state every ic35sync command works on, and the two worlds around    *)
(* it: the IC35 organiser behind the serial line and the user.             *)
(*                                                                         *)
(* A run of ic35sync reads the PIM files into memory (pim_open), talks to  *)
(* the IC35, and writes the PIM files back when it ends (pim_close).  Only *)
(* the vCard/vCalendar format, the default one, is modelled: a PIM record  *)
(* carries the IC35 record-ID in X-PILOTID, its change status in           *)
(* X-PILOTSTAT and, for a VCARD, the time of its last revision in REV.     *)
(*                                                                         *)
(* Record contents are opaque values: the IC35 fields of a record.         *)
(***************************************************************************)
EXTENDS Naturals, FiniteSets

CONSTANTS
  NFiles,         (* number of IC35 files; file numbers follow fileids[]   *)
  RevFiles,       (* files of VCARD records, whose REV time is consulted   *)
  Ids,            (* IC35 record-IDs, FileRecId(fid, rid)                  *)
  IdFile,         (* the file a record-ID belongs to                       *)
  OwnerIds,       (* FileRecId(FILEADDR,1): the owner address              *)
  Slots,          (* places a PIM record can have in the PIM files         *)
  SlotFile,       (* the kind of record in that place, as an IC35 file     *)
  Data,           (* record contents                                       *)
  NoData,         (* contents of a deleted record                          *)
  Commands,       (* commands the user runs                                *)
  PimMarksDeleted,(* do PIM programs mark deletions, or drop the record    *)
  MaxEdits,       (* bound on user edits                                   *)
  MaxFaults,      (* bound on failing transactions                         *)
  MaxCrashes      (* bound on killed runs                                  *)

Files == 1 .. NFiles

ASSUME FilesAssumption == NFiles \in Nat \ {0} /\ RevFiles \subseteq Files
ASSUME IdsAssumption ==
  /\ Ids \subseteq Nat \ {0}
  /\ IsFiniteSet(Ids)
  /\ IdFile \in [Ids -> Files]
  /\ OwnerIds \subseteq Ids
ASSUME SlotsAssumption == Slots \subseteq Nat /\ SlotFile \in [Slots -> Files]
ASSUME DataAssumption == NoData \notin Data
ASSUME CommandsAssumption == Commands \subseteq {"export", "import", "sync"}
ASSUME MarksAssumption == PimMarksDeleted \in BOOLEAN
ASSUME BoundsAssumption ==
  MaxEdits \in Nat /\ MaxFaults \in Nat /\ MaxCrashes \in Nat

VARIABLES
  dev,      (* the records in the IC35, with their change flags            *)
  file,     (* the PIM files on disk                                       *)
  edits, faults, crashes,       (* how often the bounded events happened   *)
  pim,      (* the PIM records in memory                                   *)
  pc,       (* where the running command is                                *)
  cmd,      (* the command                                                 *)
  fno,      (* index of the IC35 file being processed                      *)
  initexp,  (* syncfile: the initial export was done                       *)
  same,     (* ic35import: ic35_same_as_PIM                                *)
  rval,     (* result of the command so far                                *)
  nrec, irec, (* records announced by the IC35, and read so far            *)
  mleft,    (* modified records the IC35 has not delivered yet             *)
  tab,      (* record-IDs in the IC35 record table                         *)
  todo,     (* PIM records pim_getrec() still has to visit                 *)
  op        (* ic35import: action collected for each PIM record            *)

count == <<edits, faults, crashes>>
ctl   == <<cmd, fno, initexp, same, rval>>
loop  == <<nrec, irec, mleft, tab, todo, op>>
vars  == <<dev, file, count, pim, pc, ctl, loop>>

-----------------------------------------------------------------------------
(* Records in the IC35.  The change flag is 00 clean, 80 new, 40 modified, *)
(* 20 deleted by the user and not yet confirmed.                           *)

DevFlags == {"unborn", "gone", "clean", "new", "mod", "del"}
DevRec   == [data : Data \cup {NoData}, chg : DevFlags]

Unborn == [data |-> NoData, chg |-> "unborn"]
Gone   == [data |-> NoData, chg |-> "gone"]

Live(r)    == r.chg \in {"clean", "new", "mod"}
Changed(r) == r.chg \in {"new", "mod", "del"}

LiveIds(f)    == {id \in Ids : IdFile[id] = f /\ Live(dev[id])}
ChangedIds(f) == {id \in Ids : IdFile[id] = f /\ Changed(dev[id])}

(* record number n of a file, counted from 0: the file holds its live      *)
(* records in the order of their record-IDs                                *)
IsIndex(id, n) ==
  /\ id \in LiveIds(IdFile[id])
  /\ Cardinality({j \in LiveIds(IdFile[id]) : j < id}) = n

(* write gives a record-ID never used before; the owner's is reserved      *)
FreshIds(f) ==
  {id \in Ids \ OwnerIds : IdFile[id] = f /\ dev[id].chg = "unborn"}

(* the IC35 after write or update, after delete, and after the change flag *)
(* of a record was reset                                                   *)
DevPut(id, d)  == [dev EXCEPT ![id] = [data |-> d, chg |-> "clean"]]
DevDelete(id)  == [dev EXCEPT ![id] = Gone]
DevCommit(id)  ==
  [dev EXCEPT ![id] = IF dev[id].chg = "del" THEN Gone
                      ELSE IF Live(dev[id]) THEN [dev[id] EXCEPT !.chg = "clean"]
                      ELSE dev[id]]

-----------------------------------------------------------------------------
(* PIM records, as vCard/vCalendar objects.  id is X-PILOTID or 0, stat    *)
(* X-PILOTSTAT ("dirty" also when it is missing), newer says that REV is   *)
(* later than the stamp on the IC35: oldic35dt() < REV.                    *)

PimStat == {"none", "clean", "dirty", "del"}
PimRec  == [id : Ids \cup {0}, data : Data \cup {NoData},
            stat : PimStat, newer : BOOLEAN]
NoPim   == [id |-> 0, data |-> NoData, stat |-> "none", newer |-> FALSE]
EmptyPim == [s \in Slots |-> NoPim]

Present(p, s) == p[s].stat # "none"
PimOf(f)      == {s \in Slots : SlotFile[s] = f /\ Present(pim, s)}

(* first place without a record among those for records of file f          *)
FreeSlots(p, f) == {s \in Slots : SlotFile[s] = f /\ ~Present(p, s)}
FirstFree(p, f) == {s \in FreeSlots(p, f) : \A t \in FreeSlots(p, f) : s <= t}

(* vca_recstat: a VCARD revised after the last sync is dirty               *)
RecStat(s) == IF pim[s].stat = "clean" /\ pim[s].newer
              THEN "dirty" ELSE pim[s].stat

ByID(id) == {s \in Slots : Present(pim, s) /\ pim[s].id = id}

(* vca_putic35rec: into the record with this ID or a new one; REV is set   *)
(* to the time of this sync if anything in the record changed              *)
PutSlotsNew(id) == FirstFree(pim, IdFile[id])    \* mutant: lookup dropped
PutSlots(id) == IF ByID(id) # {} THEN ByID(id) ELSE FirstFree(pim, IdFile[id])
Ic35ToPimNew(s, id, d) ==      \* mutant: records already there stay as they are
  IF Present(pim, s) THEN pim
  ELSE [pim EXCEPT ![s] = [id |-> id, data |-> d, stat |-> "clean",
                           newer |-> IdFile[id] \in RevFiles]]
Ic35ToPim(s, id, d) ==
  [pim EXCEPT ![s] =
     [id |-> id, data |-> d, stat |-> "clean",
      newer |-> \/ pim[s].newer
                \/ IdFile[id] \in RevFiles /\ (~Present(pim, s) \/ pim[s].data # d)]]
PimDelete(s) == [pim EXCEPT ![s] = NoPim]

(* pim_set_recid, pim_set_recstat(PIM_CLEAN)                               *)
PimCleanIdOnly(s, id) == [pim EXCEPT ![s].id = id]  \* mutant: status forgotten
PimClean(s, id) == [pim EXCEPT ![s].id = id, ![s].stat = "clean"]

-----------------------------------------------------------------------------
Init ==
  /\ dev = [id \in Ids |-> Unborn]
  /\ file = EmptyPim /\ pim = EmptyPim
  /\ edits = 0 /\ faults = 0 /\ crashes = 0
  /\ pc = "idle" /\ cmd = "none" /\ fno = 1
  /\ initexp = FALSE /\ same = FALSE /\ rval = "OK"
  /\ nrec = 0 /\ irec = 0
  /\ mleft = {} /\ tab = {} /\ todo = {} /\ op = [s \in Slots |-> "none"]

-----------------------------------------------------------------------------
(* The user.  While ic35sync runs the IC35 is held by the connection.      *)

UserEdits ==
  /\ pc = "idle" /\ edits < MaxEdits /\ edits' = edits + 1
  /\ UNCHANGED <<faults, crashes, pim, pc, ctl, loop>>

DevCreates(id, d) ==
  /\ UserEdits
  /\ dev[id].chg = "unborn"
  /\ dev' = [dev EXCEPT ![id] = [data |-> d, chg |-> "new"]]
  /\ UNCHANGED file

DevEdits(id, d) ==
  /\ UserEdits
  /\ Live(dev[id]) /\ dev[id].data # d
  /\ dev' = [dev EXCEPT ![id] =
               [data |-> d, chg |-> IF dev[id].chg = "new" THEN "new" ELSE "mod"]]
  /\ UNCHANGED file

DevDeletes(id) ==
  /\ UserEdits
  /\ Live(dev[id])
  /\ dev' = [dev EXCEPT ![id] = [data |-> NoData, chg |-> "del"]]
  /\ UNCHANGED file

(* bound on new PIM records: every record-ID keeps a place for its record  *)
PlacesLeft(f) ==
  Cardinality({s \in Slots : SlotFile[s] = f /\ Present(file, s) /\ file[s].id = 0})
    + Cardinality({id \in Ids : IdFile[id] = f})
  < Cardinality({s \in Slots : SlotFile[s] = f})

PimCreates(s, d) ==
  /\ UserEdits
  /\ s \in FirstFree(file, SlotFile[s]) /\ PlacesLeft(SlotFile[s])
  /\ file' = [file EXCEPT ![s] = [id |-> 0, data |-> d, stat |-> "dirty",
                                  newer |-> SlotFile[s] \in RevFiles]]
  /\ UNCHANGED dev

(* gnomecard only sets REV, the calendar programs only X-PILOTSTAT         *)
PimEdits(s, d) ==
  /\ UserEdits
  /\ file[s].stat \in {"clean", "dirty"} /\ file[s].data # d
  /\ file' = IF SlotFile[s] \in RevFiles
             THEN [file EXCEPT ![s].data = d, ![s].newer = TRUE]
             ELSE [file EXCEPT ![s].data = d, ![s].stat = "dirty"]
  /\ UNCHANGED dev

PimRemoves(s) ==
  /\ UserEdits
  /\ Present(file, s)
  /\ file' = IF PimMarksDeleted THEN [file EXCEPT ![s].stat = "del"]
                                ELSE [file EXCEPT ![s] = NoPim]
  /\ file' # file
  /\ UNCHANGED dev

User ==
  \/ \E id \in Ids, d \in Data : DevCreates(id, d) \/ DevEdits(id, d)
  \/ \E id \in Ids : DevDeletes(id)
  \/ \E s \in Slots, d \in Data : PimCreates(s, d) \/ PimEdits(s, d)
  \/ \E s \in Slots : PimRemoves(s)

-----------------------------------------------------------------------------
(* The frame of a command: open the PIM files and connect, walk over the   *)
(* IC35 files, disconnect and write the PIM files back.                    *)

NoLoop == /\ nrec' = 0 /\ irec' = 0 /\ mleft' = {} /\ tab' = {} /\ todo' = {}
          /\ op' = [s \in Slots |-> "none"]

(* read n records in a loop                                                *)
StartLoop(n) == /\ nrec' = n /\ irec' = 0
                /\ UNCHANGED <<mleft, tab, todo, op>>

Fault == faults < MaxFaults /\ faults' = faults + 1 /\ UNCHANGED <<edits, crashes>>

Start(c) ==
  /\ pc = "idle"
  /\ cmd' = c /\ pim' = file /\ pc' = "file"
  /\ fno' = 1 /\ initexp' = FALSE /\ same' = TRUE /\ rval' = "OK"
  /\ UNCHANGED <<dev, file, count, loop>>

(* a transaction failed: the command gives up and disconnects              *)
GiveUpStamps ==                          \* mutant: stamp in spite of the failure
  /\ pc' = "stamp" /\ rval' = "ERR" /\ NoLoop
  /\ UNCHANGED <<file, pim, cmd, fno, initexp, same>>
GiveUp ==
  /\ pc' = "finish" /\ rval' = "ERR" /\ NoLoop
  /\ UNCHANGED <<file, pim, cmd, fno, initexp, same>>

(* the file is done: the next one, or what follows the last one            *)
FileDoneTooFar(after) ==                 \* mutant: one file too many
  /\ IF fno <= NFiles THEN pc' = "file" /\ fno' = fno + 1
                      ELSE pc' = after /\ fno' = fno
  /\ NoLoop
  /\ UNCHANGED <<cmd, initexp, rval>>
FileDone(after) ==
  /\ IF fno < NFiles THEN pc' = "file" /\ fno' = fno + 1
                     ELSE pc' = after /\ fno' = fno
  /\ NoLoop
  /\ UNCHANGED <<cmd, initexp, rval>>

(* WriteSysInfo stamps the IC35 with the time of this run; its result is   *)
(* ignored.  No REV, in memory or on disk, is later than that stamp.       *)
Stamped(p) == [s \in Slots |-> [p[s] EXCEPT !.newer = FALSE]]
WriteSysInfo ==
  /\ pc = "stamp"
  /\ pc' = "finish"
  /\ \/ /\ pim' = Stamped(pim) /\ file' = Stamped(file)
        /\ UNCHANGED count
     \/ Fault /\ UNCHANGED <<pim, file>>
  /\ UNCHANGED <<dev, ctl, loop>>

(* disconnect, pim_close                                                   *)
Finish ==
  /\ pc = "finish"
  /\ file' = pim /\ pim' = EmptyPim
  /\ pc' = "idle" /\ cmd' = "none" /\ fno' = 1
  /\ initexp' = FALSE /\ same' = FALSE /\ rval' = "OK"
  /\ NoLoop
  /\ UNCHANGED <<dev, count>>

(* the run is killed, without pim_close or while it writes the PIM files,  *)
(* when only some of the records have been written                         *)
Crash ==
  /\ pc # "idle" /\ crashes < MaxCrashes
  /\ crashes' = crashes + 1
  /\ \/ UNCHANGED file
     \/ /\ pc = "finish"
        /\ \E S \in SUBSET Slots :
             file' = [s \in Slots |-> IF s \in S THEN pim[s] ELSE NoPim]
  /\ pim' = EmptyPim
  /\ pc' = "idle" /\ cmd' = "none" /\ fno' = 1
  /\ initexp' = FALSE /\ same' = FALSE /\ rval' = "OK"
  /\ NoLoop
  /\ UNCHANGED <<dev, edits, faults>>

-----------------------------------------------------------------------------
PCs == {"idle", "file", "export", "modlen", "mod", "commit", "update", "len",
        "index", "delete", "impread", "impcmp", "impexec", "stamp", "finish"}
Ops == {"none", "commit", "update", "write"}

TypeOK ==
  /\ dev \in [Ids -> DevRec]
  /\ file \in [Slots -> PimRec] /\ pim \in [Slots -> PimRec]
  /\ edits \in Nat /\ faults \in Nat /\ crashes \in Nat
  /\ pc \in PCs /\ cmd \in Commands \cup {"none"} /\ fno \in Files
  /\ initexp \in BOOLEAN /\ same \in BOOLEAN /\ rval \in {"OK", "ERR"}
  /\ nrec \in Nat /\ irec \in Nat
  /\ mleft \subseteq Ids /\ tab \subseteq Ids /\ todo \subseteq Slots
  /\ op \in [Slots -> Ops]
=============================================================================
