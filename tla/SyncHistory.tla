---------------------------- MODULE SyncHistory ----------------------------
(***************************************************************************)
(* Ic35Sync watched over many runs: what the user did with a record is     *)
(* remembered, so that what the program later does with it can be judged.  *)
(* The history variables follow from the steps of Ic35Sync and never       *)
(* restrict them.                                                          *)
(***************************************************************************)
EXTENDS Ic35Sync

VARIABLES
  deleted,  (* record-IDs the user deleted, on the IC35 or in a PIM file   *)
  orphan,   (* record-IDs given for a write that never got into a PIM file *)
  known,    (* record-IDs that were on disk in a PIM file                  *)
  edited    (* PIM records with an edit not known to be on the IC35        *)

hvars == <<vars, deleted, orphan, known, edited>>

UserStep == pc = "idle" /\ pc' = "idle"

(* record-IDs of the PIM records that are not marked deleted               *)
FileIds(f) == {f[s].id : s \in {t \in Slots : f[t].stat \in {"clean", "dirty"}}} \ {0}

Observe ==
  /\ deleted' = deleted
       \cup {id \in Ids : UserStep /\ Live(dev[id]) /\ ~Live(dev'[id])}
       \cup {id \in Ids : UserStep /\ id \in FileIds(file) \ FileIds(file')}
  /\ orphan' = (orphan \cup {id \in Ids : ~UserStep /\ dev[id].chg = "unborn"
                                                   /\ Live(dev'[id])})
               \ FileIds(file')
  /\ known' = known \cup FileIds(file')
  /\ edited' =
       IF UserStep
       THEN {s \in Slots : Present(file', s)
                           /\ (s \in edited \/ file'[s].data # file[s].data)}
       ELSE edited \ {s \in Slots : pc \notin {"idle", "finish"} /\ pim'[s] # pim[s]
                        /\ pim'[s].id # 0 /\ pim'[s].data = dev'[pim'[s].id].data}

HInit == Init /\ deleted = {} /\ orphan = {} /\ known = {} /\ edited = {}
HSpec == HInit /\ [][Next /\ Observe]_hvars

-----------------------------------------------------------------------------
(* No record vanishes from the IC35 unless the user deleted it there or in *)
(* the PIM file (README line 146), or a write gave its record-ID to a      *)
(* PIM record and no PIM file got to know: phase 3 of syncfile() takes a   *)
(* record missing in the PIM file for a deleted one.                       *)
OnlyUserDeletes ==
  \A id \in Ids : dev[id].chg = "gone" => id \in deleted \cup orphan

(* Nor does a record vanish from the PIM files.                            *)
PimOnlyUserDeletes == known \subseteq FileIds(file) \cup deleted

(* README line 147: PIM overrides IC35 when both changed a record.  Only   *)
(* then: a change made on the IC35 and not yet in the PIM file is never    *)
(* overwritten there unless the user edited the PIM record too.            *)
Overwritten(id) ==
  /\ pc # "idle" /\ dev[id].chg \in {"new", "mod"}
  /\ dev'[id].data \notin {dev[id].data, NoData}
OverrideNeedsEdit ==
  [][\A id \in Ids : Overwritten(id) => \E s \in edited : pim[s].id = id]_hvars

(* README line 186: the modification in the PIM file takes precedence.     *)
(* Until it is on the IC35, no run of sync removes or replaces it.         *)
EditsKept ==
  [][pc # "idle" /\ pc' # "idle" =>
       \A s \in edited : Present(pim, s) /\ pim[s].stat # "del"
                         => pim'[s].data = pim[s].data]_hvars
=============================================================================
