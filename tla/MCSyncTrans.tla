----------------------------- MODULE MCSyncTrans -----------------------------
(* Records of one full block and of more, for TLC.                         *)
EXTENDS SyncTrans
MCRecords == {<<"a", "b">>, <<"c", "b", "a">>}
=============================================================================
