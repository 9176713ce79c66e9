---------------------------- MODULE TransContract ----------------------------
(***************************************************************************)
(* What a caller of syntrans.c may rely on: a transaction is one step on   *)
(* the IC35, made at most once and only while the transaction lasts; when  *)
(* it reports success the step was made and the result is that of this     *)
(* transaction.  A transaction that fails may or may not have made its     *)
(* step.  This is what the actions of SyncFile take for granted.           *)
(***************************************************************************)
EXTENDS Naturals, FiniteSets, Sequences

CONSTANTS
  MaxId,     (* record-IDs are 1..MaxId; 0 is none                         *)
  Records,   (* contents of records                                        *)
  Infos      (* reference informations                                     *)

VARIABLES
  dev, info, (* the IC35's records and reference information               *)
  call,      (* the transaction being done, or NoCall                      *)
  did,       (* has its step been made, and on which record                *)
  ret        (* result of the last transaction                             *)

Ids    == 1 .. MaxId
NoRec  == [data |-> <<>>, chg |-> "none"]
NoCall == [op |-> "none", id |-> 0, data |-> <<>>]
NoWork == [done |-> FALSE, rid |-> 0]
ERR    == [ok |-> FALSE, val |-> <<>>]
NonExist == [rid |-> 0, chg |-> "none", data |-> <<>>]
Exists(d)  == {i \in Ids : d[i].chg \in {"clean", "mod"}}
Changed(d) == {i \in Ids : d[i].chg \in {"mod", "del"}}
Nth(S, n)  == CHOOSE i \in S : Cardinality({j \in S : j < i}) = n
Found(i)   == [rid |-> i, chg |-> dev[i].chg, data |-> dev[i].data]

(* the step of a transaction that changes the IC35                         *)
Does(i, rec) == dev' = [dev EXCEPT ![i] = rec] /\ did' = [done |-> TRUE, rid |-> i]
Takes(op, i, data) ==
  \/ /\ op = "write_frec" /\ dev[i] = NoRec
     /\ Does(i, [data |-> data, chg |-> "clean"])
  \/ op = "update_frec" /\ Does(i, [data |-> data, chg |-> "clean"])
  \/ op = "delete_frec" /\ Does(i, NoRec)
  \/ /\ op = "commit_frec"
     /\ Does(i, IF dev[i].chg = "del" THEN NoRec ELSE [dev[i] EXCEPT !.chg = "clean"])

(* the results a transaction may return as success                         *)
Right ==
  CASE call.op \in {"write_frec", "update_frec"} -> {<<"id", did.rid>>}
    [] call.op = "read_id_frec" ->
         {<<"rec", IF call.id \in Exists(dev) THEN Found(call.id) ELSE NonExist>>}
    [] call.op = "read_frec"     -> {<<"rec", Found(Nth(Exists(dev), call.id))>>}
    [] call.op = "read_mod_frec" -> {<<"rec", Found(i)>> : i \in Changed(dev)}
    [] call.op = "get_flen"      -> {<<"len", Cardinality(Exists(dev))>>}
    [] call.op = "get_mod_flen"  -> {<<"len", Cardinality(Changed(dev))>>}
    [] call.op \in {"ReadSysInfo", "connect"} -> {<<"info", info>>}
    [] OTHER -> {<<>>}
Changes == {"write_frec", "update_frec", "delete_frec", "commit_frec", "WriteSysInfo"}

Call == /\ call.op = "none" /\ call'.op # "none" /\ did' = NoWork
        /\ UNCHANGED <<dev, info, ret>>

Step == /\ call.op # "none" /\ ~did.done
        /\ UNCHANGED <<call, ret>> \/ (call'.op = "none" /\ ~ret'.ok)
        /\ \/ /\ UNCHANGED info
              /\ IF call.op = "write_frec" THEN \E i \in Ids : Takes(call.op, i, call.data)
                                           ELSE Takes(call.op, call.id, call.data)
           \/ /\ call.op = "WriteSysInfo" /\ info' = call.data[1]
              /\ did' = [done |-> TRUE, rid |-> 0] /\ UNCHANGED dev

Return == /\ call.op # "none" /\ call'.op = "none" /\ UNCHANGED <<dev, info, did>>
          /\ \/ ~ ret'.ok
             \/ /\ ret'.ok /\ call.op \in Changes => did.done
                /\ \E v \in Right : ret'.val = v

Init == call = NoCall /\ did = NoWork /\ ret = ERR
Next == Call \/ Step \/ Return
Spec == Init /\ [][Next]_<<dev, info, call, did, ret>>
=============================================================================
