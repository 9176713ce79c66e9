--------------------------- MODULE ReplicaContract ---------------------------
(***************************************************************************)
(* What ic35sync promises to the owner of two replicas, the IC35 and the   *)
(* PIM files, without files, phases, transactions or faults.  A session    *)
(* works on a copy of the PIM records, which is saved when it ends or      *)
(* forgotten when it is killed.                                            *)
(***************************************************************************)
EXTENDS Naturals

CONSTANTS Ids, Slots, Data, NoData

VARIABLES
  dev,    (* IC35 records: data and change flag                            *)
  saved,  (* PIM records on disk: record-ID, data and status               *)
  book,   (* the session's copy of them                                    *)
  mode    (* "none", or the command of the session                         *)

cvars == <<dev, saved, book, mode>>

Live(r)    == r.chg \in {"clean", "new", "mod"}
NoPim      == [id |-> 0, data |-> NoData, stat |-> "none"]
Holders(id) == {s \in Slots : book[s].stat # "none" /\ book[s].id = id}

Mirrors(id) ==
  IF Live(dev[id]) THEN \E s \in Holders(id) : book[s].data = dev[id].data
                   ELSE Holders(id) = {}

Init ==
  /\ dev = [id \in Ids |-> [data |-> NoData, chg |-> "unborn"]]
  /\ saved = [s \in Slots |-> NoPim] /\ book = saved
  /\ mode = "none"

(* outside of sessions both replicas are the user's                        *)
UserChanges ==
  /\ mode = "none"
  /\ UNCHANGED <<book, mode>>
  /\ \/ UNCHANGED saved
     \/ UNCHANGED dev

Begin == mode = "none" /\ mode' # "none" /\ book' = saved /\ UNCHANGED <<dev, saved>>

End ==
  /\ mode # "none" /\ mode' = "none"
  /\ saved' = book /\ book' = [s \in Slots |-> NoPim]
  /\ UNCHANGED dev

(* a session that is killed saves nothing, or only some of its records     *)
Killed ==
  /\ mode # "none" /\ mode' = "none"
  /\ saved' = saved \/ \A s \in Slots : saved'[s] \in {book[s], NoPim}
  /\ book' = [s \in Slots |-> NoPim]
  /\ UNCHANGED dev

-----------------------------------------------------------------------------
(* Steps of a session.  The PIM record takes the contents of the IC35's;   *)
(* for sync only if the user did not change it in the PIM file.            *)
Learn(id, s) ==
  /\ mode \in {"export", "sync"} /\ Live(dev[id])
  /\ Holders(id) \subseteq {s}
  /\ book[s].stat = "none" \/ s \in Holders(id)
  /\ mode = "sync" => book[s].stat \in {"none", "clean"}
  /\ book' = [book EXCEPT ![s] = [id |-> id, data |-> dev[id].data, stat |-> "clean"]]
  /\ UNCHANGED dev

(* a PIM record the user left alone follows a deletion on the IC35         *)
Drop(id, s) ==
  /\ mode = "sync" /\ dev[id].chg = "del"
  /\ s \in Holders(id) /\ book[s].stat = "clean"
  /\ book' = [book EXCEPT ![s] = NoPim]
  /\ UNCHANGED dev

(* the IC35 forgets a change that the PIM records hold                     *)
Cleared(r) == IF r.chg = "del" THEN [data |-> NoData, chg |-> "gone"]
              ELSE IF Live(r) THEN [r EXCEPT !.chg = "clean"]
              ELSE r
Forget(id) ==
  /\ mode \in {"import", "sync"} /\ Mirrors(id)
  /\ dev' = [dev EXCEPT ![id] = Cleared(dev[id])]

(* the IC35 takes the contents of a PIM record the user changed, or of any *)
(* in an import; one without a record-ID on the IC35 gets a new one        *)
Teach(id, s) ==
  /\ mode \in {"import", "sync"} /\ book[s].stat # "none"
  /\ mode = "sync" => book[s].stat = "dirty"
  /\ IF dev[id].chg = "unborn" THEN book[s].id = 0 \/ mode = "import"
                               ELSE book[s].id = id
  /\ dev' = [dev EXCEPT ![id] = [data |-> book[s].data, chg |-> "clean"]]

(* the IC35 deletes what the PIM file marks deleted or no longer has; the  *)
(* latter only if it was not changed on the IC35                           *)
Remove(id) ==
  /\ mode = "sync"
  /\ \/ Holders(id) = {} /\ dev[id].chg = "clean"
     \/ \E s \in Holders(id) : book[s].stat = "del"
  /\ dev' = [dev EXCEPT ![id] = [data |-> NoData, chg |-> "gone"]]

(* the PIM record is told what became of it, or the answer got lost        *)
Acknowledge(id, s) ==
  UNCHANGED book \/ book' = [book EXCEPT ![s].id = id, ![s].stat = "clean"]

Session ==
  /\ UNCHANGED <<saved, mode>>
  /\ \E id \in Ids :
       \/ (Forget(id) \/ Remove(id)) /\ UNCHANGED book
       \/ \E s \in Slots :
            \/ Learn(id, s)
            \/ Drop(id, s)
            \/ Forget(id) /\ mode = "import" /\ s \in Holders(id) /\ Acknowledge(id, s)
            \/ Teach(id, s) /\ Acknowledge(id, s)
            \/ Remove(id) /\ s \in Holders(id) /\ book' = [book EXCEPT ![s] = NoPim]

Next == UserChanges \/ Begin \/ End \/ Killed \/ Session
Spec == Init /\ [][Next]_cvars
=============================================================================
