------------------------------ MODULE Ic35Sync ------------------------------
(***************************************************************************)
(* The ic35sync program: its export, import and sync commands, run one     *)
(* after another in any order against an IC35 and PIM files that the user  *)
(* edits in between.  Every transaction may fail, and a run may be killed. *)
(***************************************************************************)
EXTENDS SyncFile, ImportFile

Program == WriteSysInfo \/ Finish \/ SyncNext \/ ImportNext

Next == User \/ (\E c \in Commands : Start(c)) \/ Program \/ Crash

Spec == Init /\ [][Next]_vars

(* A run is a sequential program, and every wait for the IC35 times out.   *)
FairSpec == Spec /\ WF_vars(Program)

(* Besides, the user keeps running the sync command.                       *)
SyncingSpec == FairSpec /\ WF_vars(Start("sync"))

-----------------------------------------------------------------------------
(* No two PIM records carry the same IC35 record-ID, neither in memory nor *)
(* on disk: vca_putic35rec looks a record up before it adds one, and only  *)
(* a record-ID the IC35 has just given is put into a record without one.   *)
UniqueIds(p) ==
  \A s, t \in Slots : p[s].id # 0 /\ p[s].id = p[t].id => s = t
PimIdsUnique == UniqueIds(pim) /\ UniqueIds(file)

(* The PIM records in memory say what the IC35 says of record id.          *)
Mirrored(id) ==
  IF Live(dev[id])
  THEN \E s \in ByID(id) : pim[s].data = dev[id].data
  ELSE ByID(id) = {}

(* Phase 1b: the IC35 is told to forget a change only when the PIM records *)
(* hold it.  The evidence was gathered in phase 1a, one read at a time,    *)
(* and must still be true at each commit.                                  *)
CommitMirrored == pc = "commit" => \A id \in tab : Mirrored(id)

(* Phase 3b: a record that phase 3a found missing in the PIM files, and    *)
(* that will be deleted on the IC35, has no uncommitted change there.      *)
(* ic35sync.c asks itself for this check at lines 485 and 709.             *)
DeleteSettled ==
  pc \in {"index", "delete"} =>
    \A id \in tab : dev[id].chg = "clean" /\ ByID(id) = {}

(* What one sync cannot settle: a record modified in the PIM file and      *)
(* deleted on the IC35, or marked deleted in the PIM file without ever     *)
(* having been on the IC35.                                                *)
Unresolved(s) ==
  \/ RecStat(s) = "dirty" /\ pim[s].id # 0 /\ ~Live(dev[pim[s].id])
  \/ RecStat(s) = "del" /\ pim[s].id = 0

Matching(s) == /\ pim[s].id # 0 /\ Live(dev[pim[s].id])
               /\ pim[s].data = dev[pim[s].id].data

(* The synchronisation stamp goes to the IC35 only when every IC35 record  *)
(* matches its PIM record and every PIM record is on the IC35, after a     *)
(* sync or an import, but for conflicts one sync cannot settle.  A run     *)
(* killed between the commit of a deletion and pim_close() leaves a clean  *)
(* PIM record of an IC35 record that is gone, which no later sync finds.   *)
StampMeansMirror ==
  pc = "stamp" /\ crashes = 0 =>
    /\ \A id \in Ids : Live(dev[id]) => Mirrored(id)
    /\ \A s \in Slots : Present(pim, s) => Matching(s) \/ Unresolved(s)

(* A record keeps its change mark through a sync that is stamped only when *)
(* it was deleted on the IC35 and modified in the PIM file: README line    *)
(* 149 promises no exception.  VCARDs are left out, as an initial export   *)
(* gives each new one a REV time later than the last stamp, and phase 1a   *)
(* then takes it for modified and does not commit it.                      *)
MarksLeftAreConflicts ==
  pc = "stamp" /\ cmd = "sync" =>
    \A id \in Ids : Changed(dev[id]) /\ IdFile[id] \notin RevFiles =>
      dev[id].chg = "del" /\ \E s \in ByID(id) : RecStat(s) = "dirty"

(* Phase 2 writes all modified PIM records to the IC35 (ic35sync.c line    *)
(* 476): when it is over, each one has its contents there, or is not on    *)
(* the IC35 because it was deleted there.                                  *)
Phase2Complete ==
  pc = "len" =>
    \A s \in PimOf(fno) : RecStat(s) = "dirty" =>
      /\ pim[s].id # 0
      /\ Live(dev[pim[s].id]) => pim[s].data = dev[pim[s].id].data

-----------------------------------------------------------------------------
(* Once the user has stopped editing and nothing fails any more, a run     *)
(* ends, whatever happened in it before.                                   *)
RunEnds == (pc # "idle") ~> (pc = "idle")

(* If the user keeps syncing, the PIM files and the IC35 converge: after   *)
(* lost answers, half done syncs and records written twice, finally the    *)
(* records on disk are those on the IC35, but for unresolved conflicts.    *)
FileMatching(s) ==
  LET id == file[s].id IN
  \/ id # 0 /\ Live(dev[id]) /\ file[s].data = dev[id].data
  \/ id # 0 /\ dev[id].chg = "del" /\ file[s].stat = "dirty"
FilesMirror ==
  /\ \A id \in Ids : Live(dev[id]) => \E s \in Slots : file[s].id = id
  /\ \A s \in Slots : Present(file, s) => FileMatching(s)
Converges == <>[](pc = "idle" => FilesMirror)

-----------------------------------------------------------------------------
(* Every step of every command keeps the promises of ReplicaContract, when *)
(* no file holds VCARDs: a REV time in them is a status of its own.        *)
Shown(p) ==
  [s \in Slots |-> [id |-> p[s].id, data |-> p[s].data, stat |-> p[s].stat]]
Contract == INSTANCE ReplicaContract
              WITH saved <- Shown(file), book <- Shown(pim), mode <- cmd
KeepsContract == Contract!Spec
=============================================================================
