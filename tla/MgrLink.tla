------------------------------- MODULE MgrLink -------------------------------
(***************************************************************************)
(* The manager protocol of mgrproto.c over a serial line: Mcmdrsp() sends  *)
(* a command byte and waits for a response byte, Mrecvblk() and Msendblk() *)
(* move a block with a checksum, an acknowledge and retries.  The line may *)
(* lose or garble a byte, and an answer may come after the time-out.       *)
(*                                                                         *)
(* The line carries single bytes without number or frame: what a byte is   *)
(* taken for only depends on what its receiver waits for.  A byte is a     *)
(* triple <<origin, block, place>>; Bad is what is left of a garbled one.  *)
(***************************************************************************)
EXTENDS Naturals, SequencesExt

CONSTANTS
  NBlocks,    (* NDATABLKS: the database is head block 0 and NBlocks more  *)
  BlkLen,     (* bytes in a block: HEADBLKSZ, DATABLKSZ                    *)
  MaxRetry,   (* MAXRETRY                                                  *)
  MaxFaults,  (* bound on bytes lost or garbled, failing writes and        *)
              (* answers that come after the time-out, all together        *)
  MaxLate     (* bound on the late answers among them                      *)

ASSUME MgrAssumption ==
  /\ NBlocks \in Nat /\ BlkLen \in Nat \ {0, 1} /\ MaxRetry \in Nat \ {0}
  /\ MaxFaults \in Nat /\ MaxLate \in Nat

VARIABLES
  cmd, pc, rval, (* command of ic35mgr or "none", place in it, its result  *)
  faults, lates, (* how often the bounded events happened                  *)
  unseen,        (* history: a checksum has agreed with data it was not    *)
                 (* made of, or a file was not whole when it was closed    *)
  toIc, toPc,    (* bytes on the line, in both directions                  *)
  mode, iblk, ibuf, (* IC35: what it waits for, number of its block, bytes *)
                 (* of it received                                         *)
  db,            (* IC35: its database                                     *)
  call,          (* Mcmdrsp: command, response, tries so far, where to go  *)
                 (* on                                                     *)
  blk, tries,    (* loop counter i, and _xmitblk: tries of this block      *)
  buf,           (* receive or send buffer                                 *)
  file           (* contents of the backup file                            *)

counts == <<faults, lates, unseen>>
ic35   == <<mode, iblk, ibuf, db>>
local  == <<cmd, blk, tries, buf, file>>
vars   == <<cmd, pc, rval, faults, lates, unseen, toIc, toPc, mode, iblk, ibuf, db,
            call, blk, tries, buf, file>>

Blocks == 0 .. NBlocks
Bad    == <<"bad", 0, 0>>
Byte(c) == <<c, 0, 0>>
Contents(origin, k) == [i \in 1 .. BlkLen |-> <<origin, k, i>>]
Info(origin) == <<origin, 0, 0>>

(* at most n bytes of s after the first k                                  *)
Part(s, k, n) == SubSeq(s, k + 1, IF k + n < Len(s) THEN k + n ELSE Len(s))

(* The sum of the bytes modulo 2^16, low byte first.  Its value is left    *)
(* open; what is known of it is which data it was made of.                 *)
chksum(data) == <<<<"sum", data, 1>>, <<"sum", data, 2>>>>

(* One byte makes the difference, and is garbled.                          *)
OneGarbled(s, t) ==
  /\ Len(s) = Len(t)
  /\ \E i \in DOMAIN s : s[i] # t[i] /\ Bad \in {s[i], t[i]}
                       /\ \A j \in DOMAIN s \ {i} : s[j] = t[j]

(* Whether the two bytes got are the sum of data: surely when made of it,  *)
(* surely not when one garbled byte, of the data or of the sum, is the     *)
(* whole difference.  Otherwise the sums may be equal or not, as when one  *)
(* byte is garbled to the next value and another to the one before.        *)
SumAgrees(data, got) ==
  IF got = chksum(data) THEN {TRUE}
  ELSE IF \/ OneGarbled(got, chksum(data))
          \/ got = chksum(got[1][2]) /\ OneGarbled(data, got[1][2])
       THEN {FALSE} ELSE BOOLEAN
Unseen(ok, got) == unseen' = (unseen \/ (ok /\ got # chksum(buf)))

-----------------------------------------------------------------------------
(* What bounds the events.  After what the program cannot see, nothing is  *)
(* claimed of the data, and the command only ends.                         *)
Bounded == faults + lates < MaxFaults /\ ~unseen

(* com_recv(buff, n): what it may return.  It waits until n bytes are      *)
(* there or time runs out: the IC35 has no more to say, or says it late,   *)
(* and then what has come so far is returned.                              *)
Late(n) ==
  IF lates = MaxLate \/ ~Bounded THEN {}
  ELSE {[got |-> Part(toPc, 0, k), late |-> 1] :
          k \in {k \in 0 .. n - 1 : k <= Len(toPc) /\ k < Len(toIc \o toPc)}}
com_recv(n) ==
  Late(n) \cup IF Len(toPc) < n /\ toIc # <<>> THEN {}
               ELSE {[got |-> Part(toPc, 0, n), late |-> 0]}
Taken(r) == /\ toPc' = SubSeq(toPc, Len(r.got) + 1, Len(toPc))
            /\ lates' = lates + r.late
            /\ UNCHANGED <<faults, toIc>>

Send(bytes) == toIc' = toIc \o bytes /\ UNCHANGED <<toPc, counts>>

Goto(where) == pc' = where /\ UNCHANGED <<rval, call>>
Fail        == pc' = "end" /\ rval' = "ERR" /\ UNCHANGED call

-----------------------------------------------------------------------------
(* Mcmdrsp: up to MaxRetry times send the command byte and read one byte   *)
Mcmdrsp(c, r, then) ==
  /\ pc' = "send byte" /\ UNCHANGED rval
  /\ call' = [cmd |-> c, rsp |-> r, tries |-> 0, then |-> then]

SendByte ==
  /\ pc = "send byte" /\ Send(<<Byte(call.cmd)>>)
  /\ Goto("get byte")
  /\ UNCHANGED <<ic35, local>>

(* the byte read may also be one of a block, with any value                *)
IsResponse(got) ==
  IF Len(got) = 1 /\ (got[1] = Bad \/ got[1][1] \in {"ic35", "file", "sum"})
  THEN BOOLEAN ELSE {got = <<Byte(call.rsp)>>}

AgainForever == pc' = "send byte" /\ UNCHANGED <<rval, call>>   \* mutant: no count
Again ==
  IF call.tries + 1 < MaxRetry
  THEN /\ pc' = "send byte" /\ UNCHANGED rval
       /\ call' = [call EXCEPT !.tries = @ + 1]
  ELSE Fail

GetByte ==
  /\ pc = "get byte"
  /\ \E r \in com_recv(1) :
       /\ Taken(r)
       /\ \E ok \in IsResponse(r.got) : IF ok THEN Goto(call.then) ELSE Again
  /\ UNCHANGED <<unseen, ic35, local>>

-----------------------------------------------------------------------------
(* _xmitblk: rc is the result of one transmission.  A wrong checksum is    *)
(* answered with nak while retries are left; no answer at all, or too      *)
(* short a block, ends the transfer.                                       *)
Xmit(rc, retry, then) ==
  \/ rc = "OK" /\ Mcmdrsp("ack", "gotack", then) /\ UNCHANGED tries
  \/ /\ rc = "chksum" /\ tries < MaxRetry
     /\ Mcmdrsp("nak", "gotack", retry) /\ tries' = tries + 1
  \/ /\ rc = "recv" \/ (rc = "chksum" /\ tries = MaxRetry)
     /\ Fail /\ UNCHANGED tries

(* _recvblk: data, then checksum.  When fewer than two bytes of it come,   *)
(* it is looked for at the end of the data.  A block that is too short,    *)
(* cut for that or not, is not taken, whatever its sum.                    *)
RecvData ==
  /\ pc = "recv data"
  /\ \E r \in com_recv(BlkLen) :
       /\ Taken(r) /\ buf' = r.got
       /\ IF Len(r.got) >= 2 THEN Goto("recv sum") /\ UNCHANGED tries
                             ELSE Xmit("recv", "recv data", "got block")
  /\ UNCHANGED <<unseen, ic35, cmd, blk, file>>

RecvSumTrusts ==          \* mutant: a block without checksum is accepted
  /\ pc = "recv sum"
  /\ \E r \in com_recv(2) :
       /\ Taken(r)
       /\ Xmit(IF Len(r.got) = 2 /\ r.got # chksum(buf) THEN "chksum" ELSE "OK",
               "recv data", "got block")
  /\ UNCHANGED <<unseen, ic35, cmd, blk, buf, file>>

RecvSum ==
  /\ pc = "recv sum"
  /\ \E r \in com_recv(2) :
       /\ Taken(r)
       /\ \E ok \in IF Len(buf) = BlkLen /\ Len(r.got) = 2
                    THEN SumAgrees(buf, r.got) ELSE {FALSE} :
            /\ Unseen(ok, r.got)
            /\ Xmit(IF ok THEN "OK" ELSE "chksum", "recv data", "got block")
  /\ UNCHANGED <<ic35, cmd, blk, buf, file>>

(* _sendblk: data, then the checksum the IC35 makes of it                  *)
SendData ==
  /\ pc = "send data" /\ Send(buf)
  /\ Goto("check sum")
  /\ UNCHANGED <<ic35, local>>

CheckSumTrusts ==         \* mutant: the checksum is received, not compared
  /\ pc = "check sum"
  /\ \E r \in com_recv(2) :
       /\ Taken(r)
       /\ Xmit(IF Len(r.got) = 2 THEN "OK" ELSE "recv", "send data", "put block")
  /\ UNCHANGED <<unseen, ic35, cmd, blk, buf, file>>

CheckSum ==
  /\ pc = "check sum"
  /\ \E r \in com_recv(2) :
       /\ Taken(r)
       /\ \/ /\ Len(r.got) = 2
             /\ \E ok \in SumAgrees(buf, r.got) :
                  /\ Unseen(ok, r.got)
                  /\ Xmit(IF ok THEN "OK" ELSE "chksum", "send data", "put block")
          \/ /\ Len(r.got) < 2 /\ UNCHANGED unseen
             /\ Xmit("recv", "send data", "put block")
  /\ UNCHANGED <<ic35, cmd, blk, buf, file>>

LinkNext == SendByte \/ GetByte \/ RecvData \/ RecvSum \/ SendData \/ CheckSum

-----------------------------------------------------------------------------
(* The IC35 takes one byte after the other and answers at once.  After an  *)
(* acknowledge it goes on, after a negative one it repeats its block.      *)
Becomes(m, k, answer) ==
  mode' = m /\ iblk' = k /\ toPc' = toPc \o answer /\ ibuf' = <<>>
Block(k) == db[k] \o chksum(db[k])

IcIdle(b) ==
  /\ mode = "idle" /\ UNCHANGED db
  /\ CASE b = Byte("backup")   -> Becomes("send", 0, <<Byte("gotcmd")>> \o Block(0))
       [] b = Byte("info")     -> Becomes("idle", 0, <<Byte("gotcmd"), Info("ic35")>>)
       [] b = Byte("restinit") -> Becomes("rest", 0, <<Byte("gotcmd")>>)
       [] OTHER                -> Becomes("idle", 0, <<>>)

IcRest(b) ==
  /\ mode = "rest" /\ UNCHANGED db
  /\ CASE b = Byte("restinit") -> Becomes("rest", 0, <<Byte("gotcmd")>>)
       [] b = Byte("restdata") -> Becomes("recv", 0, <<Byte("gotdata")>>)
       [] OTHER                -> Becomes("rest", 0, <<>>)

IcSend(b) ==
  /\ mode = "send" /\ UNCHANGED db
  /\ CASE b = Byte("ack") /\ iblk < NBlocks ->
            Becomes("send", iblk + 1, <<Byte("gotack")>> \o Block(iblk + 1))
       [] b = Byte("ack") /\ iblk = NBlocks -> Becomes("idle", 0, <<Byte("gotack")>>)
       [] b = Byte("nak") -> Becomes("send", iblk, <<Byte("gotack")>> \o Block(iblk))
       [] OTHER -> Becomes("send", iblk, <<>>)

IcRecv(b) ==
  /\ mode = "recv" /\ ibuf' = Append(ibuf, b)
  /\ IF Len(ibuf') < BlkLen THEN UNCHANGED <<mode, toPc>>
     ELSE mode' = "ack" /\ toPc' = toPc \o chksum(ibuf')
  /\ UNCHANGED <<iblk, db>>

IcAck(b) ==
  /\ mode = "ack"
  /\ CASE b = Byte("ack") ->
            /\ db' = [db EXCEPT ![iblk] = ibuf]
            /\ IF iblk < NBlocks THEN Becomes("recv", iblk + 1, <<Byte("gotack")>>)
                                 ELSE Becomes("idle", 0, <<Byte("gotack")>>)
       [] b = Byte("nak") -> Becomes("recv", iblk, <<Byte("gotack")>>) /\ UNCHANGED db
       [] OTHER -> UNCHANGED <<ic35, toPc>>

IcStep ==
  /\ toIc # <<>> /\ toIc' = Tail(toIc)
  /\ LET b == Head(toIc) IN
       IcIdle(b) \/ IcRest(b) \/ IcSend(b) \/ IcRecv(b) \/ IcAck(b)
  /\ UNCHANGED <<pc, rval, call, counts, local>>

(* one byte on the line is lost or garbled                                 *)
Spoilt(s) == UNION {{RemoveAt(s, i), [s EXCEPT ![i] = Bad]} : i \in DOMAIN s}
LineFault ==
  /\ Bounded /\ faults' = faults + 1
  /\ \/ toIc' \in Spoilt(toIc) /\ UNCHANGED toPc
     \/ toPc' \in Spoilt(toPc) /\ UNCHANGED toIc
  /\ UNCHANGED <<pc, rval, call, lates, unseen, ic35, local>>
=============================================================================
