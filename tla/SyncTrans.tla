------------------------------ MODULE SyncTrans ------------------------------
(***************************************************************************)
(* Commands and responses of synproto.c (sendcmd, recvrsp) and the         *)
(* transactions of syntrans.c made of them: connecting, the reference      *)
(* information, and the operations on the records of a file.  A record is  *)
(* read in blocks until one is marked last, and written in blocks of 80    *)
(* bytes, each answered.                                                   *)
(*                                                                         *)
(* The IC35 is external.  It executes a command when it arrives, keeps the *)
(* response until it is told the exchange is over (exit), and forgets the  *)
(* blocks of a record that is not completed.                               *)
(***************************************************************************)
EXTENDS SyncLink, FiniteSetsExt

CONSTANTS
  MaxId,      (* record-IDs are 1..MaxId; 0 is none                        *)
  Records,    (* contents of records: sequences of bytes, not empty        *)
  WriteLen,   (* bytes per block written, 80 in _write_frec                *)
  ReadLen,    (* bytes per block the IC35 sends                            *)
  MaxRLen,    (* MAXRLEN: size of the buffer of _read_frec                 *)
  Junk,       (* what is read from a response to something else            *)
  Infos,      (* reference informations                                    *)
  MaxTries,   (* WELCOME_RETRY                                             *)
  Ops,        (* the transactions that are called                          *)
  MaxCalls    (* bound on transactions in one session                      *)

ASSUME TransAssumption ==
  /\ MaxId \in Nat /\ WriteLen \in Nat \ {0} /\ ReadLen \in Nat \ {0}
  /\ \A r \in Records : r \in Seq(ToSet(r)) /\ Len(r) \in 1 .. MaxRLen
  /\ MaxRLen \in Nat /\ MaxTries \in Nat \ {0} /\ MaxCalls \in Nat

VARIABLES
  call,       (* transaction being done, or NoCall                         *)
  pc,         (* what its current command does next                        *)
  cmd,        (* the command sent                                          *)
  rsp,        (* what L2recvrsp got                                        *)
  loc,        (* local variables: block pointer and buffer                 *)
  ret,        (* result of the last transaction                            *)
  ncalls,     (* transactions called in this session                       *)
  open,       (* com_fd: is the line open                                  *)
  ic,         (* IC35: connected, pending response, blocks received        *)
  dev, info,  (* IC35: its records and its reference information           *)
  did         (* what the IC35 has done for this call (history)            *)

devvars == <<dev, info, did>>
vars    == <<line, losts, lates, call, pc, cmd, rsp, loc, ret, ncalls, open, ic,
             dev, info, did>>

Contract == INSTANCE TransContract
NoCall == Contract!NoCall
NoWork == Contract!NoWork
NoRec  == Contract!NoRec
ERR    == Contract!ERR
Ids    == Contract!Ids
NoCmd  == [id |-> "none", rid |-> 0, data |-> <<>>, last |-> TRUE]
NoLoc  == [step |-> 1, tries |-> 0, ptr |-> 0, rid |-> 0, chg |-> "none", data |-> <<>>]
NoIc   == [mode |-> "off", rsp |-> NoRsp, out |-> <<>>, wr |-> NoCmd]

-----------------------------------------------------------------------------
(* The IC35 executes command c.                                            *)
Rsp(kind, last, val) == [kind |-> kind, last |-> last, val |-> val]
Answers(r)   == ic' = [ic EXCEPT !.rsp = r, !.wr = NoCmd, !.out = <<>>]
Unchanged(r) == Answers(r) /\ UNCHANGED devvars

Cut(s, n) == SubSeq(s, 1, IF n < Len(s) THEN n ELSE Len(s))
Rest(s, n) == SubSeq(s, n + 1, Len(s))

SendsRecord(i) ==
  /\ ic' = [ic EXCEPT !.wr = NoCmd, !.out = Rest(dev[i].data, ReadLen),
              !.rsp = Rsp("rec", Len(dev[i].data) <= ReadLen,
                          [Contract!Found(i) EXCEPT !.data = Cut(@, ReadLen)])]
  /\ UNCHANGED devvars
SendsMore ==
  /\ ic' = [ic EXCEPT !.out = Rest(@, ReadLen),
              !.rsp = Rsp("more", Len(ic.out) <= ReadLen, [data |-> Cut(ic.out, ReadLen)])]
  /\ UNCHANGED devvars

(* A record arrives block by block, and is stored with the last of them.   *)
Gets(c) ==
  IF ~ c.last
  THEN ic' = [ic EXCEPT !.wr = c, !.rsp = Rsp("cont", FALSE, 0)] /\ UNCHANGED devvars
  ELSE /\ \E i \in Ids :
            /\ IF c.id = "fputrec" THEN Contract!Takes("write_frec", i, c.data)
               ELSE i = c.rid /\ Contract!Takes("update_frec", i, c.data)
            /\ Answers(Rsp("id", TRUE, i))
       /\ UNCHANGED info

IcExecutes(c) ==
  CASE c.id = "ident"    -> Unchanged(Rsp("ident", TRUE, 0))
    [] c.id = "getpower" -> Unchanged(Rsp("state", TRUE, "powerOK"))
    [] c.id = "password" -> Unchanged(Rsp("state", TRUE, c.data[1]))
    [] c.id = "category" -> Unchanged(Rsp("state", TRUE, 0))
    [] c.id = "getdtime" -> Unchanged(Rsp("info", TRUE, info))
    [] c.id = "fopen"    -> Unchanged(Rsp("fd", TRUE, 0))
    [] c.id = "fclose"   -> Unchanged(Rsp("done", TRUE, 0))
    [] c.id = "fgetlen"  -> Unchanged(Rsp("len", TRUE, Cardinality(Contract!Exists(dev))))
    [] c.id = "fgetmlen" -> Unchanged(Rsp("len", TRUE, Cardinality(Contract!Changed(dev))))
    [] c.id = "fgetirec" ->
         IF c.rid \in Contract!Exists(dev) THEN SendsRecord(c.rid)
         ELSE Unchanged(Rsp("rec", TRUE, Contract!NonExist))
    [] c.id = "fgetrec"  -> SendsRecord(Contract!Nth(Contract!Exists(dev), c.rid))
    [] c.id = "fgetmrec" -> \E i \in Contract!Changed(dev) : SendsRecord(i)
    [] c.id = "fgetmore" -> SendsMore
    [] c.id \in {"fputrec", "fupdrec"} -> Gets(c)
    [] c.id = "fputmore" ->
         IF ic.wr = NoCmd THEN Unchanged(NoRsp)
         ELSE Gets([ic.wr EXCEPT !.data = @ \o c.data, !.last = c.last])
    [] c.id = "fdelrec"  -> /\ Contract!Takes("delete_frec", c.rid, <<>>)
                            /\ Answers(Rsp("done", TRUE, 0)) /\ UNCHANGED info
    [] c.id = "fclrchg"  -> /\ Contract!Takes("commit_frec", c.rid, <<>>)
                            /\ Answers(Rsp("done", TRUE, 0)) /\ UNCHANGED info
    [] c.id = "setdtime" -> /\ info' = c.data[1] /\ did' = [done |-> TRUE, rid |-> 0]
                            /\ Answers(Rsp("done", TRUE, 0)) /\ UNCHANGED dev
    [] c.id = "disconn"  -> /\ ic' = [ic EXCEPT !.rsp = Rsp("done", TRUE, 0), !.mode = "leaving"]
                            /\ UNCHANGED devvars

-----------------------------------------------------------------------------
(* sendcmd and recvrsp                                                     *)
Goto(where) == pc' = where /\ UNCHANGED <<call, cmd, loc, ret>>
Sends(c) ==
  pc' = "init" /\ cmd' = [id |-> c.id, rid |-> c.rid, data |-> c.data, last |-> c.last]
Command(id, rid, data) == [id |-> id, rid |-> rid, data |-> data, last |-> TRUE]

Returns(r) ==
  pc' = "idle" /\ ret' = r /\ call' = NoCall /\ cmd' = NoCmd /\ loc' = NoLoc
OK(v) == [ok |-> TRUE, val |-> v]

FailsAndCloses ==                 \* mutant: connect() closes the line only
  IF call.op = "connect" THEN Goto("com_exit") ELSE Returns(ERR)

(* The command or its response failed.  connect() then disconnects.        *)
Fails ==
  IF call.op = "connect"
  THEN Sends(Command("disconn", 0, <<>>)) /\ loc' = NoLoc /\ UNCHANGED <<call, ret>>
  ELSE Returns(ERR)

SendFailsAgain ==                 \* mutant: the command is tried again
  IF cmd.id = "disconn" THEN Goto("request") ELSE Goto("init")

(* sendcmd failed: _read_frec and disconnect do not look at its result     *)
SendFails == IF cmd.id \in {"fgetmore", "disconn"} THEN Goto("request") ELSE Fails

Answer(mode, units) == IF ic.mode \in mode THEN units ELSE <<>>

SendInit ==
  /\ pc = "init"
  /\ \E s \in L1send(Answer({"on"}, Ack("L1ACK0"))) :
     \E r \in L1recv(s, Recv1(s.now), Recv1(<<>>)) :
       /\ Transfer(s, r)
       /\ IF r.got.rid = "L1ACK0" THEN Goto("select") ELSE SendFails
  /\ UNCHANGED <<ic, devvars, rsp, ncalls, open>>

SendSelect ==
  /\ pc = "select"
  /\ \E s \in L1send(Answer({"on"}, Ack("L1ACK1"))) :
     \E r \in L1recv(s, Recv1(s.now), Recv1(<<>>)) :
       /\ Transfer(s, r)
       /\ IF s.arrived /\ ic.mode = "on" THEN IcExecutes(cmd) ELSE UNCHANGED <<ic, devvars>>
       /\ IF r.got.rid = "L1ACK1" THEN Goto("request") ELSE SendFails
  /\ UNCHANGED <<rsp, ncalls, open>>

SendRequest ==
  /\ pc = "request"
  /\ \E s \in L1send(IF ic.rsp = NoRsp THEN <<>> ELSE Answer({"on", "leaving"}, Data(ic.rsp))) :
     \E r \in L1recv(s, RecvPdu(s.now), RecvPdu(<<>>)) : Transfer(s, r) /\ rsp' = r.got.rsp
  /\ Goto("exit")
  /\ UNCHANGED <<ic, devvars, ncalls, open>>

-----------------------------------------------------------------------------
(* what a transaction does with the response                               *)
Value(kind) == IF rsp.kind = kind THEN rsp.val ELSE Junk

(* _read_frec: the first block has record-ID and change flag; a block that *)
(* does not fit into the buffer is dropped                                 *)
Block == IF rsp.kind = (IF cmd.id = "fgetmore" THEN "more" ELSE "rec")
         THEN rsp.val.data ELSE <<Junk>>
Head1 == IF cmd.id = "fgetmore" THEN loc
         ELSE IF rsp.kind = "rec"
         THEN [loc EXCEPT !.rid = rsp.val.rid, !.chg = rsp.val.chg]
         ELSE [loc EXCEPT !.rid = Junk]
ReadBlock ==
  LET buff == IF Len(loc.data \o Block) <= MaxRLen THEN loc.data \o Block ELSE loc.data
      rec  == [rid |-> Head1.rid, chg |-> Head1.chg, data |-> buff]
  IN IF ~ rsp.last
     THEN /\ Sends(Command("fgetmore", 0, <<>>)) /\ loc' = [Head1 EXCEPT !.data = buff]
          /\ UNCHANGED <<call, ret>>
     ELSE Returns(OK(<<"rec", IF call.op = "read_id_frec" /\ rec.rid # call.id
                              THEN Contract!NonExist ELSE rec>>))

(* _write_frec: the next block from wptr on                                *)
WriteId(c, wptr) == IF wptr > 0 THEN "fputmore"
                    ELSE IF c.op = "write_frec" THEN "fputrec" ELSE "fupdrec"
WriteCmdWhole(c, wptr) ==         \* mutant: all of the record in one block
  [id |-> WriteId(c, wptr), rid |-> c.id, data |-> Rest(c.data, wptr), last |-> TRUE]
WriteCmdLate(c, wptr) ==          \* mutant: a full last block is not marked last
  [id   |-> WriteId(c, wptr), rid |-> c.id,
   data |-> Cut(Rest(c.data, wptr), WriteLen),
   last |-> wptr + WriteLen > Len(c.data)]
WriteCmd(c, wptr) ==
  LET block == Cut(Rest(c.data, wptr), WriteLen)
  IN [id   |-> WriteId(c, wptr), rid |-> c.id, data |-> block,
      last |-> wptr + Len(block) >= Len(c.data)]

(* the record-ID is taken from the last response only                      *)
Wrote ==
  LET wptr == loc.ptr + Len(cmd.data)
      rid  == IF rsp.last THEN Value("id") ELSE loc.rid
  IN IF wptr < Len(call.data)
     THEN /\ Sends(WriteCmd(call, wptr)) /\ loc' = [loc EXCEPT !.ptr = wptr, !.rid = rid]
          /\ UNCHANGED <<call, ret>>
     ELSE Returns(OK(<<"id", rid>>))

(* connect: identify, power, authenticate, ReadSysInfo                     *)
Steps == <<"ident", "getpower", "password", "getdtime">>
Connected ==
  CASE loc.step = 4 -> Returns(OK(<<"info", Value("info")>>))
    [] loc.step = 2 /\ Value("state") # "powerOK"  -> Fails
    [] loc.step = 3 /\ Value("state") # "passwdOK" -> Fails
    [] OTHER -> /\ loc' = [loc EXCEPT !.step = @ + 1]
                /\ Sends(Command(Steps[loc.step + 1], 0, call.data))
                /\ UNCHANGED <<call, ret>>

Answered ==
  CASE cmd.id = "disconn" -> Goto("com_exit")
    [] cmd.id # "disconn" /\ rsp = NoRsp -> Fails
    [] rsp # NoRsp /\ cmd.id \in {"fgetirec", "fgetrec", "fgetmrec", "fgetmore"} -> ReadBlock
    [] rsp # NoRsp /\ cmd.id \in {"fputrec", "fupdrec", "fputmore"} -> Wrote
    [] rsp # NoRsp /\ call.op = "connect" /\ cmd.id # "disconn" -> Connected
    [] rsp # NoRsp /\ cmd.id = "getdtime" /\ call.op # "connect" -> Returns(OK(<<"info", Value("info")>>))
    [] rsp # NoRsp /\ cmd.id \in {"fgetlen", "fgetmlen"} -> Returns(OK(<<"len", Value("len")>>))
    [] OTHER -> Returns(OK(<<>>))

SendExit ==
  /\ pc = "exit"
  /\ \E s \in L1send(Answer({"on", "leaving"}, Ack("L1ACK1"))) :
     \E r \in L1recv(s, Recv1(s.now), Recv1(<<>>)) :
       /\ Transfer(s, r)
       /\ ic' = IF s.arrived THEN [ic EXCEPT !.rsp = NoRsp] ELSE ic
  /\ Answered /\ rsp' = NoRsp
  /\ UNCHANGED <<devvars, ncalls, open>>

(* com_exit: the driver forgets what it still held                         *)
ComExit ==
  /\ pc = "com_exit"
  /\ line' = <<>> /\ open' = FALSE
  /\ Returns(IF call.op = "connect" THEN ERR ELSE OK(<<>>))
  /\ UNCHANGED <<ic, devvars, rsp, losts, lates, ncalls>>

-----------------------------------------------------------------------------
(* transactions                                                            *)
Calls(op, id, data) ==
  /\ pc = "idle" /\ op \in Ops /\ ncalls < MaxCalls /\ ncalls' = ncalls + 1
  /\ call' = [op |-> op, id |-> id, data |-> data]
  /\ did' = NoWork /\ loc' = NoLoc
  /\ UNCHANGED <<losts, rsp, ret, dev, info>>
Does(op, id, data, c) ==
  open /\ Calls(op, id, data) /\ Sends(c) /\ UNCHANGED <<open, ic, line, lates>>

(* com_init(), then welcome(): it starts with no answer yet (GOT_NONE).    *)
(* The user starts the IC35 sooner or later.                               *)
connect ==
  /\ ~ open
  /\ \E passwd \in {<<"passwdOK">>, <<"passwdBad">>} :
       /\ Calls("connect", 0, passwd)
       /\ ic' = NoIc /\ UNCHANGED <<line, lates, cmd>>
       /\ \/ open' = TRUE  /\ pc' = "GOT_NONE"
          \/ open' = FALSE /\ pc' = "com_exit"
UserStarts ==
  /\ pc \in {"GOT_NONE", "GOT_WELCOME"} /\ ic.mode = "off"
  /\ ic' = [ic EXCEPT !.mode = "started"]
  /\ UNCHANGED <<line, losts, lates, call, pc, cmd, rsp, loc, ret, ncalls, open, devvars>>

(* One try of welcome(): the IC35, once started, answers the first command *)
(* byte with WELCOME, the next one with ready.  SIGINT ends the loop; when *)
(* it wakes com_recv before the answer is there, that counts as late.      *)
WELCOME == <<Unit("W"), Unit("E")>>
Ready   == <<Unit("ready")>>
RecvText(l, text) ==
  LET n == IF Len(l) < Len(text) THEN Len(l) ELSE Len(text)
  IN {[ok |-> SubSeq(l, 1, n) = text, rest |-> SubSeq(l, n + 1, Len(l))]}

IcHearsByte ==
  ic' = [ic EXCEPT !.mode = CASE @ = "started" -> "welcomed" [] @ = "welcomed" -> "on"
                              [] OTHER -> @]
ByteAnswer == CASE ic.mode = "started" -> WELCOME [] ic.mode = "welcomed" -> Ready
                [] OTHER -> <<>>

AfterTry(ok, signal) ==
  CASE signal -> Sends(Command("disconn", 0, <<>>)) /\ loc' = NoLoc
    [] ~ signal /\ ok /\ pc = "GOT_WELCOME" ->
         Sends(Command(Steps[1], 0, call.data)) /\ loc' = NoLoc
    [] ~ signal /\ ~ (ok /\ pc = "GOT_WELCOME") /\ loc.tries + 1 < MaxTries ->
         /\ loc' = [loc EXCEPT !.tries = @ + 1] /\ UNCHANGED cmd
         /\ pc' = IF ok THEN "GOT_WELCOME" ELSE pc
    [] OTHER -> Sends(Command("disconn", 0, <<>>)) /\ loc' = NoLoc

TryWelcome ==
  /\ pc \in {"GOT_NONE", "GOT_WELCOME"}
  /\ \E s \in L1send(ByteAnswer), signal \in BOOLEAN :
     LET Recv(l) == RecvText(l, IF pc = "GOT_NONE" THEN WELCOME ELSE Ready)
     IN \E r \in L1recv(s, Recv(s.now), Recv(<<>>)) :
          /\ Transfer(s, r)
          /\ IF s.arrived THEN IcHearsByte ELSE UNCHANGED ic
          /\ AfterTry(r.got.ok, signal)
  /\ UNCHANGED <<call, rsp, ret, ncalls, open, devvars>>

disconnect == Does("disconnect", 0, <<>>, Command("disconn", 0, <<>>))

(* transactions of one command without arguments that matter here          *)
Single == [ReadSysInfo |-> "getdtime", category |-> "category", open_file |-> "fopen",
           close_file |-> "fclose", get_flen |-> "fgetlen", get_mod_flen |-> "fgetmlen"]
Simple ==
  \/ \E op \in DOMAIN Single : Does(op, 0, <<>>, Command(Single[op], 0, <<>>))
  \/ \E i \in Infos : Does("WriteSysInfo", 0, <<i>>, Command("setdtime", 0, <<i>>))

Reads ==
  \/ \E i \in Ids : Does("read_id_frec", i, <<>>, Command("fgetirec", i, <<>>))
  \/ \E n \in 0 .. Cardinality(Contract!Exists(dev)) - 1 :
       Does("read_frec", n, <<>>, Command("fgetrec", n, <<>>))
  \/ /\ Contract!Changed(dev) # {}
     /\ Does("read_mod_frec", 0, <<>>, Command("fgetmrec", 0, <<>>))

Writes ==
  \/ /\ \E i \in Ids : dev[i] = NoRec
     /\ \E d \in Records : LET c == [op |-> "write_frec", id |-> 0, data |-> d] IN
          Does("write_frec", 0, d, WriteCmd(c, 0))
  \/ \E i \in Contract!Exists(dev), d \in Records :
       LET c == [op |-> "update_frec", id |-> i, data |-> d] IN
          Does("update_frec", i, d, WriteCmd(c, 0))
  \/ \E i \in Contract!Exists(dev) :
       Does("delete_frec", i, <<>>, Command("fdelrec", i, <<>>))
  \/ \E i \in Contract!Changed(dev) :
       Does("commit_frec", i, <<>>, Command("fclrchg", i, <<>>))

Init ==
  /\ LinkInit /\ call = NoCall /\ pc = "idle" /\ cmd = NoCmd /\ rsp = NoRsp
  /\ loc = NoLoc /\ ret = ERR /\ ncalls = 0 /\ open = FALSE /\ ic = NoIc
  /\ info \in Infos /\ did = NoWork
  /\ dev \in [Ids -> {NoRec, [data |-> <<>>, chg |-> "del"]} \cup
                     [data : Records, chg : {"clean", "mod"}]]

(* the session is long enough                                              *)
Stop == pc = "idle" /\ ncalls = MaxCalls /\ UNCHANGED vars

Program == TryWelcome \/ SendInit \/ SendSelect \/ SendRequest \/ SendExit \/ ComExit
Next == \/ connect \/ UserStarts \/ disconnect \/ Simple \/ Reads \/ Writes
        \/ Program \/ Stop
Spec     == Init /\ [][Next]_vars
FairSpec == Spec /\ WF_vars(Program)

-----------------------------------------------------------------------------
(* No time-out, try or block of a transaction is counted past its limit,   *)
(* and no more data is sent or collected than a block or record may hold;  *)
(* the IC35 may add blocks of one write to another when an answer is late. *)
TypeOK ==
  /\ losts \in 0 .. MaxLost /\ lates \in 0 .. MaxLate
  /\ pc \in {"idle", "GOT_NONE", "GOT_WELCOME", "init", "select", "request", "exit", "com_exit"}
  /\ cmd.rid \in 0 .. MaxId /\ Len(cmd.data) \in 0 .. (IF WriteLen > 1 THEN WriteLen ELSE 1)
  /\ Len(loc.data) <= MaxRLen /\ loc.tries < MaxTries /\ loc.step \in DOMAIN Steps
  /\ open \in BOOLEAN /\ ret.ok \in BOOLEAN /\ ncalls \in 0 .. MaxCalls
  /\ ic.mode \in {"off", "started", "welcomed", "on", "leaving"}
  /\ \A i \in Ids : /\ lates = 0 => Len(dev[i].data) <= MaxRLen
                    /\ dev[i].chg \in {"none", "clean", "mod", "del"}
  /\ info \in Infos /\ did.done \in BOOLEAN /\ did.rid \in 0 .. MaxId

(* Every transaction is one step on the IC35, made at most once, and what  *)
(* it returns as success is its own result and whole.  When a record has   *)
(* several blocks this holds for one PDU lost: if the exit after a block   *)
(* and the init of the next command are, _read_frec reads the block again. *)
OneStep == Contract!Spec

(* After a failed connect and after disconnect the IC35 is not left        *)
(* connected, unless something was lost or late.                           *)
NotLeftConnected == ~ open /\ losts + lates = 0 => ic.mode # "on"

(* Every transaction ends, whatever is lost.                               *)
CallEnds == pc # "idle" ~> pc = "idle"
=============================================================================
