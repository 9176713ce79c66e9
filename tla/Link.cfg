CONSTANTS
  TextBytes = {"L1ACK1", "L1DATA", "other"}
  MaxLost = 1
  MaxLate = 1
  MaxId = 2
  Records <- MCRecords
  WriteLen = 2
  ReadLen = 2
  MaxRLen = 3
  Junk = Junk
  Infos = {"dtime"}
  MaxTries = 3
  Ops = {"connect", "disconnect", "ReadSysInfo", "WriteSysInfo", "get_flen", "get_mod_flen", "read_frec", "update_frec", "commit_frec",
         "read_id_frec", "read_mod_frec", "write_frec", "delete_frec"}
  MaxCalls = 4
SPECIFICATION FairSpec
INVARIANTS TypeOK NotLeftConnected
PROPERTIES OneStep CallEnds
