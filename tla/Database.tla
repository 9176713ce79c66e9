------------------------------ MODULE Database ------------------------------
(***************************************************************************)
(* Backup and restore of the IC35 database: readdatabase(),                *)
(* writedatabase() in mgrtrans.c, and the commands of ic35mgr.c that call  *)
(* them.  The commands run one after another, each on its own connection;  *)
(* what a failed backup leaves in the file may be restored by the next.    *)
(***************************************************************************)
EXTENDS MgrLink

(* A file holds all blocks and twice the information block.                *)
Image(origin) ==
  [i \in 1 .. (NBlocks + 1) * BlkLen |->
     Contents(origin, (i - 1) \div BlkLen)[((i - 1) % BlkLen) + 1]]
  \o <<Info(origin), Info(origin)>>

Init ==
  /\ cmd = "none" /\ pc = "idle" /\ rval = "OK"
  /\ faults = 0 /\ lates = 0 /\ unseen = FALSE
  /\ toIc = <<>> /\ toPc = <<>>
  /\ mode = "idle" /\ iblk = 0 /\ ibuf = <<>>
  /\ db = [k \in Blocks |-> Contents("ic35", k)]
  /\ call = [cmd |-> "none", rsp |-> "none", tries |-> 0, then |-> "idle"]
  /\ blk = 0 /\ tries = 0 /\ buf = <<>>
  /\ file = Image("file")                        \* backup of another IC35

(* mconnect has succeeded; fopen(fname, "w") empties the file.  No more    *)
(* commands are started after what it could not see, as for Bounded.       *)
Start(c) ==
  /\ pc = "idle" /\ ~unseen /\ cmd' = c /\ rval' = "OK"
  /\ blk' = 0 /\ tries' = 0 /\ buf' = <<>>
  /\ IF c = "backup"
     THEN /\ file' = <<>> /\ pc' = "send byte"
          /\ call' = [cmd |-> "backup", rsp |-> "gotcmd", tries |-> 0,
                      then |-> "recv data"]
     ELSE pc' = "info" /\ UNCHANGED <<file, call>>
  /\ UNCHANGED <<counts, toIc, toPc, ic35>>

WrittenSomehow(bytes, next) ==       \* mutant: the result of fwrite is ignored
  \/ file' = file \o bytes /\ next /\ UNCHANGED faults
  \/ /\ Bounded /\ faults' = faults + 1
     /\ \E n \in {0, Len(bytes) - 1} : file' = file \o SubSeq(bytes, 1, n)
     /\ next

Written(bytes, next) ==
  \/ file' = file \o bytes /\ next /\ UNCHANGED faults
  \/ \* fwrite wrote nothing, or not all
     /\ Bounded /\ faults' = faults + 1
     /\ \E n \in {0, Len(bytes) - 1} : file' = file \o SubSeq(bytes, 1, n)
     /\ Fail /\ UNCHANGED <<blk, tries>>

(* _readdatabase: write the block to the file and receive the next         *)
ReadBlock ==
  /\ pc = "got block"
  /\ Written(buf, /\ tries' = 0
                  /\ IF blk < NBlocks THEN blk' = blk + 1 /\ Goto("recv data")
                                      ELSE blk' = 0 /\ Goto("info"))
  /\ UNCHANGED <<cmd, buf, toIc, toPc, lates, unseen, ic35>>

(* _getdbinfo, for both commands                                           *)
GetInfo ==
  /\ pc = "info" /\ Mcmdrsp("info", "gotcmd", "get info")
  /\ UNCHANGED <<counts, toIc, toPc, ic35, local>>

ReadInfo ==
  /\ pc = "get info" /\ cmd = "backup"
  /\ \E r \in com_recv(1) :
       /\ toPc' = SubSeq(toPc, Len(r.got) + 1, Len(toPc))
       /\ lates' = lates + r.late
       /\ IF r.got = <<>> THEN Fail /\ UNCHANGED <<blk, tries, file, faults>>
          ELSE Written(r.got, /\ blk' = blk + 1 /\ UNCHANGED tries
                              /\ Goto(IF blk = 0 THEN "info" ELSE "end"))
  /\ UNCHANGED <<cmd, buf, toIc, unseen, ic35>>

(* _writedatabase: compare with the last bytes of the file; a difference   *)
(* is only reported.  fseek fails in a file that is too short.             *)
InfoPlace(i) == IF Len(file) >= 2 THEN Len(file) - 1 + i ELSE 1 + i
CompareInfo ==
  /\ pc = "get info" /\ cmd = "restore"
  /\ \E r \in com_recv(1) :
       /\ Taken(r)
       /\ IF r.got = <<>> \/ InfoPlace(blk) > Len(file) THEN Fail /\ UNCHANGED blk
          ELSE /\ Goto(IF blk = 0 THEN "info" ELSE "restinit")
               /\ blk' = (blk + 1) % 2
  /\ UNCHANGED <<cmd, tries, buf, file, unseen, ic35>>

RestInit ==
  /\ pc = "restinit" /\ Mcmdrsp("restinit", "gotcmd", "restdata")
  /\ UNCHANGED <<counts, toIc, toPc, ic35, local>>
RestData ==
  /\ pc = "restdata" /\ Mcmdrsp("restdata", "gotdata", "read file")
  /\ UNCHANGED <<counts, toIc, toPc, ic35, local>>

ReadFile ==
  /\ pc = "read file"
  /\ buf' = Part(file, blk * BlkLen, BlkLen)
  /\ tries' = 0
  /\ IF Len(buf') < BlkLen THEN Fail ELSE Goto("send data")
  /\ UNCHANGED <<cmd, blk, file, counts, toIc, toPc, ic35>>

WriteBlock ==
  /\ pc = "put block"
  /\ IF blk < NBlocks THEN blk' = blk + 1 /\ Goto("read file")
                      ELSE Goto("end") /\ UNCHANGED blk
  /\ UNCHANGED <<cmd, tries, buf, file, counts, toIc, toPc, ic35>>

(* mdisconnect resets the IC35 and closes the line; its result is ignored  *)
Disconnect ==
  /\ pc = "end" /\ toIc = <<>>
  /\ toPc' = <<>> /\ mode' = "idle" /\ iblk' = 0 /\ ibuf' = <<>>
  /\ pc' = "idle" /\ cmd' = "none" /\ rval' = "OK"
  /\ call' = [cmd |-> "none", rsp |-> "none", tries |-> 0, then |-> "idle"]
  /\ blk' = 0 /\ tries' = 0 /\ buf' = <<>>
  /\ UNCHANGED <<toIc, db, file, counts>>

Program ==
  \/ LinkNext \/ ReadBlock \/ GetInfo \/ ReadInfo \/ CompareInfo
  \/ RestInit \/ RestData \/ ReadFile \/ WriteBlock \/ Disconnect

(* fclose cannot write what is still buffered, and its result is ignored   *)
CloseFails ==
  /\ pc = "end" /\ cmd = "backup"
  /\ Bounded /\ faults' = faults + 1 /\ unseen' = TRUE
  /\ \E n \in 0 .. Len(file) - 1 : file' = SubSeq(file, 1, n)
  /\ UNCHANGED <<cmd, pc, rval, lates, toIc, toPc, ic35, call, blk, tries, buf>>

Steps == Program \/ IcStep \/ LineFault \/ \E c \in {"backup", "restore"} : Start(c)
Next  == Steps \/ CloseFails

Spec == Init /\ [][Next]_vars

(* The program never waits without a time-out, and the IC35 reads what it  *)
(* has been sent; nothing is assumed about which of the two is faster.     *)
FairSpec == Spec /\ WF_vars(Program \/ IcStep)

-----------------------------------------------------------------------------
(* A command has ended with exit code 0, and the IC35 has read all of it.  *)
Succeeded(c) == pc = "end" /\ cmd = c /\ rval = "OK" /\ toIc = <<>>
Chunk(f, k) == Part(f, k * BlkLen, BlkLen)

(* A backup that reports success has every block of the database at its    *)
(* place, if no answer is late, not more than two bytes are lost or        *)
(* garbled, and nothing went wrong unseen: fclose() has lost nothing, and  *)
(* no sum has agreed by chance with data it was not made of, as the sum of *)
(* the bytes does not tell all data apart.  A late answer breaks this:     *)
(* Mcmdrsp() has acknowledged twice by then, the IC35 is a block ahead,    *)
(* and a nak makes it repeat another block than the one that was garbled.  *)
(* So do three errors: a second answer to an acknowledge remains on the    *)
(* line and is taken for that to the next one, which was lost, and the     *)
(* same block is read twice.                                               *)
BackupWhole ==
  Succeeded("backup") /\ lates = 0 /\ ~unseen => \A k \in Blocks : Chunk(file, k) = db[k]

(* Late or cut answers or not, unless a sum has agreed by chance or        *)
(* fclose() lost something no block in a backup that reports success is    *)
(* garbled, cut, or put together from two: what is left over from one try  *)
(* of a block, or comes before it, does not pass for the next.             *)
BackupGenuine ==
  Succeeded("backup") /\ ~unseen => \A k \in Blocks : \E j \in Blocks : Chunk(file, k) = db[j]

(* A restore that reports success has put every block of the file at its   *)
(* place in the IC35, unless a sum has agreed by chance, although          *)
(* Mcmdrsp() repeats acknowledges and takes any answer for the one it      *)
(* waits for.  This holds for one late answer and one error; with two late *)
(* answers and one error the sum of one try is read for that of the next,  *)
(* and that one acknowledged although the IC35 has taken a negative        *)
(* acknowledge for its first byte.                                         *)
RestoreWhole ==
  Succeeded("restore") /\ ~unseen => \A k \in Blocks : db[k] = Chunk(file, k)

(* However a restore ends, and also when it restores what a failed backup  *)
(* left in the file, each block of the IC35 is one whole block of the old  *)
(* or of the new contents, unless a sum has agreed by chance: a cut block  *)
(* of the file never goes out.  With two late answers a wrong one may      *)
(* stay, as for RestoreWhole.                                              *)
BlocksWhole ==
  ~unseen =>
    \A k \in Blocks : \E o \in {"ic35", "file"}, j \in Blocks : db[k] = Contents(o, j)

(* Every backup and restore ends, whatever the line does.                  *)
CommandEnds == (pc # "idle") ~> (pc = "idle")
=============================================================================
