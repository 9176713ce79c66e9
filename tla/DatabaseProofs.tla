--------------------------- MODULE DatabaseProofs ---------------------------
(***************************************************************************)
(* What a backup guarantees for every size of the database, every number   *)
(* of transmission errors, late or cut answers, failing writes and         *)
(* retries, until a sum agrees by chance with data it was not made of, or  *)
(* fclose() loses data (unseen): the file of a backup that reports success *)
(* holds whole blocks of the IC35 and nothing else where its blocks are.   *)
(*                                                                         *)
(* The argument follows the bytes.  During a backup the IC35 is asked only *)
(* for what it holds, so no byte of a checksum is on the line but of one   *)
(* of its blocks (AskedInv); a transmission is taken as a block only if    *)
(* such a checksum matches it; and the blocks already in the file do not   *)
(* move when more is written (BlocksInv).  A backup may follow a restore   *)
(* that failed: what the restore has sent must be data and not checksums   *)
(* (RestoreInv), which holds because it reads its blocks from where the    *)
(* file has data (FileInv).                                                *)
(*                                                                         *)
(* That each block is at its place does not hold on every line: a lost or  *)
(* late answer byte may let the program and the IC35 disagree about which  *)
(* block comes next.  The second half proves that nothing else can: on a   *)
(* line that keeps the answers (AnswersKept) the two are always in step    *)
(* (InStep), and then what is copied so far is right (SavedInv) and whole  *)
(* (WholeInv), for backup and restore alike.                               *)
(***************************************************************************)
EXTENDS Database, SequenceTheorems, TLAPS

(* What a byte can be: one of a database, a command or response, a garbled *)
(* byte; or one of the checksum of a sequence of those.                    *)
Tags  == {"ic35", "file", "bad", "none", "backup", "info", "restinit", "restdata",
          "ack", "nak", "gotcmd", "gotdata", "gotack"}
Data  == Tags \X Nat \X Nat
Sums(ds) == {"sum"} \X ds \X {1, 2}
AnyByte   == Data \cup Sums(Seq(Data))
Whole == [1 .. BlkLen -> Data]

LEMMA Facts ==
  /\ NBlocks \in Nat /\ BlkLen \in Nat /\ BlkLen > 1
  /\ Blocks = 0 .. NBlocks
  /\ Bad \in Data /\ Data \subseteq AnyByte
  /\ \A c \in Tags : Byte(c) \in Data /\ Info(c) \in Data
<1>1. NBlocks \in Nat /\ BlkLen \in Nat /\ BlkLen > 1 /\ Blocks = 0 .. NBlocks
  BY MgrAssumption DEF Blocks
<1>2. Bad \in Data /\ Data \subseteq AnyByte
  BY DEF Bad, Data, AnyByte, Tags
<1>3. \A c \in Tags : Byte(c) \in Data /\ Info(c) \in Data
  BY DEF Byte, Info, Data
<1> QED
  BY <1>1, <1>2, <1>3

LEMMA ContentsData ==
  ASSUME NEW o \in {"ic35", "file"}, NEW k \in Blocks PROVE Contents(o, k) \in Whole
<1>1. ASSUME NEW i \in 1 .. BlkLen PROVE <<o, k, i>> \in Data
  <2>1. o \in Tags /\ k \in Nat /\ i \in Nat
    BY Facts DEF Tags
  <2> QED
    BY <2>1 DEF Data
<1> QED
  BY <1>1 DEF Contents, Whole

LEMMA WholeSeq ==
  /\ \A d \in Whole : d \in Seq(Data) /\ Len(d) = BlkLen
  /\ \A s \in Seq(Data) : Len(s) = BlkLen => s \in Whole
<1>1. ASSUME NEW d \in Whole PROVE d \in Seq(Data) /\ Len(d) = BlkLen
  BY MgrAssumption DEF Whole
<1>2. ASSUME NEW s \in Seq(Data), Len(s) = BlkLen PROVE s \in Whole
  BY <1>2 DEF Whole
<1> QED
  BY <1>1, <1>2

LEMMA Times ==
  ASSUME NEW m \in Nat, NEW n \in Nat, m < n
  PROVE  m * BlkLen \in Nat /\ n * BlkLen \in Nat /\ m * BlkLen + BlkLen <= n * BlkLen
<1>1. PICK d \in Nat : n = m + 1 + d
  <2>1. n = m + 1 + (n - m - 1) /\ n - m - 1 \in Nat
    OBVIOUS
  <2> QED
    BY <2>1
<1>2. n * BlkLen = m * BlkLen + BlkLen + d * BlkLen
  BY <1>1, MgrAssumption
<1>3. d * BlkLen \in Nat /\ m * BlkLen \in Nat
  BY MgrAssumption
<1> QED
  BY <1>2, <1>3, MgrAssumption

LEMMA PartIn ==
  ASSUME NEW S, NEW s \in Seq(S), NEW k \in Nat, NEW n \in Nat
  PROVE  /\ Part(s, k, n) \in Seq(S)
         /\ Len(Part(s, k, n)) <= n
         /\ Len(Part(s, k, n)) = n /\ n > 0 => k + n <= Len(s)
         /\ k + n <= Len(s) => Part(s, k, n) = SubSeq(s, k + 1, k + n) /\ Len(Part(s, k, n)) = n
         /\ \A i \in 1 .. Len(Part(s, k, n)) : Part(s, k, n)[i] = s[k + i] /\ k + i <= Len(s)
<1> DEFINE e == IF k + n < Len(s) THEN k + n ELSE Len(s)
           t == SubSeq(s, k + 1, e)
<1>1. e \in Int /\ Len(s) \in Nat /\ e <= Len(s) /\ e <= k + n
  BY LenProperties
<1> HIDE DEF e
<1>2. \A i \in k + 1 .. e : s[i] \in S
  BY <1>1, ElementOfSeq
<1>3. /\ t \in Seq(S) /\ Len(t) = IF k + 1 <= e THEN e - (k + 1) + 1 ELSE 0
      /\ \A i \in 1 .. e - (k + 1) + 1 : t[i] = s[(k + 1) + i - 1]
  BY <1>1, <1>2, SubSeqProperties
<1> HIDE DEF t
<1>4. Part(s, k, n) = t
  BY DEF Part, t, e
<1>5. Len(t) <= n /\ (Len(t) = n /\ n > 0 => k + n <= Len(s))
  BY <1>1, <1>3
<1>6. k + n <= Len(s) => e = k + n
  BY <1>1 DEF e
<1>7. \A i \in 1 .. Len(t) : t[i] = s[k + i] /\ k + i <= Len(s)
  BY <1>1, <1>3
<1>8. k + n <= Len(s) => t = SubSeq(s, k + 1, k + n) /\ Len(t) = n
  BY <1>1, <1>3, <1>6 DEF t
<1> QED
  BY <1>3, <1>4, <1>5, <1>7, <1>8

LEMMA SpoiltIn ==
  ASSUME NEW S, NEW s \in Seq(S), NEW t \in Spoilt(s), Bad \in S PROVE t \in Seq(S)
<1>1. PICK i \in DOMAIN s : t = RemoveAt(s, i) \/ t = [s EXCEPT ![i] = Bad]
  BY DEF Spoilt
<1>0. Len(s) \in Nat /\ i \in 1 .. Len(s)
  BY LenProperties
<1>2. CASE t = RemoveAt(s, i)
  <2>1. \A j \in 1 .. i - 1 : s[j] \in S
    BY <1>0, ElementOfSeq
  <2>2. \A j \in i + 1 .. Len(s) : s[j] \in S
    BY <1>0, ElementOfSeq
  <2>3. SubSeq(s, 1, i - 1) \in Seq(S) /\ SubSeq(s, i + 1, Len(s)) \in Seq(S)
    BY <1>0, <2>1, <2>2, SubSeqProperties
  <2> QED
    BY <1>2, <2>3, ConcatProperties DEF RemoveAt
<1>3. CASE t = [s EXCEPT ![i] = Bad]
  BY <1>0, <1>3, ExceptSeq
<1> QED
  BY <1>1, <1>2, <1>3
-----------------------------------------------------------------------------
Size     == (NBlocks + 1) * BlkLen
DbBlocks == {db[j] : j \in Blocks}

(* The place in the command: while Mcmdrsp() is busy, where it goes on.    *)
Where    == IF pc \in {"send byte", "get byte"} THEN call.then ELSE pc
Reading  == {"recv data", "recv sum", "got block"}
Restoring == {"read file", "send data", "check sum", "put block"}

(* What is on the line, in the IC35 and in the call of Mcmdrsp.            *)
Asked == {Bad} \cup {Byte(c) : c \in {"backup", "info", "ack", "nak"}}

LineInv ==
  /\ cmd \in {"none", "backup", "restore"} /\ (cmd = "none" <=> pc = "idle")
  /\ db \in [Blocks -> Whole]
  /\ toIc \in Seq(Data) /\ ibuf \in Seq(Data) /\ toPc \in Seq(AnyByte)
  /\ iblk \in Blocks /\ mode \in {"idle", "send", "rest", "recv", "ack"}
  /\ mode = "recv" => Len(ibuf) < BlkLen
  /\ mode = "ack" => Len(ibuf) = BlkLen
  /\ cmd = "none" => toIc = <<>> /\ toPc = <<>> /\ mode = "idle"

(* During a backup the IC35 is only asked for what it holds: no byte on    *)
(* the line is of the checksum of anything else.                           *)
AskedInv ==
  cmd = "backup" => /\ mode \in {"idle", "send"}
                    /\ toIc \in Seq(Asked)
                    /\ toPc \in Seq(Data \cup Sums(DbBlocks))

Calls == [cmd : Tags, rsp : Tags, tries : Nat,
          then : Reading \cup Restoring \cup {"idle", "get info", "restdata"}]

CallInv ==
  /\ call \in Calls
  /\ cmd = "backup" =>
       /\ Where \in Reading \cup {"info", "get info", "end"}
       /\ pc \in {"send byte", "get byte"} => call.cmd \in {"backup", "info", "ack", "nak"}
  /\ cmd = "restore" => Where \in Restoring \cup {"info", "get info", "restinit", "restdata", "end"}

(* No byte of a checksum is in the file, where it holds the blocks, and so *)
(* none gets into the IC35 by a restore.                                   *)
DataIn(f) == \A i \in 1 .. Len(f) : i <= Size => f[i] \in Data

FileInv ==
  file \in Seq(AnyByte) /\ DataIn(file) /\ buf \in Seq(AnyByte) /\ blk \in Nat

Counted(place, k) ==
  /\ place \in Restoring => k \in Blocks
  /\ place \in {"info", "get info"} => k \in {0, 1}
  /\ place \in {"restinit", "restdata"} => k = 0

RestoreInv == cmd = "restore" => buf \in Seq(Data) /\ Counted(Where, blk)

(* The blocks received so far are blocks of the IC35.                      *)
BlocksInv ==
  cmd = "backup" =>
    /\ Where \in Reading => /\ blk \in Blocks /\ Len(file) = blk * BlkLen
                            /\ \A k \in 0 .. blk - 1 : Chunk(file, k) \in DbBlocks
    /\ Where = "got block" => buf \in DbBlocks
    /\ Where \in {"info", "get info"} \/ (Where = "end" /\ rval = "OK") =>
         Len(file) >= Size /\ \A k \in Blocks : Chunk(file, k) \in DbBlocks

-----------------------------------------------------------------------------
LEMMA Received ==
  ASSUME NEW S, toPc \in Seq(S), NEW n \in Nat, NEW r \in com_recv(n)
  PROVE  /\ r.got \in Seq(S) /\ Len(r.got) \in Nat
         /\ SubSeq(toPc, Len(r.got) + 1, Len(toPc)) \in Seq(S)
<1>1. \E k \in Nat : r.got = Part(toPc, 0, k)
  BY DEF com_recv, Late
<1>2. r.got \in Seq(S)
  BY <1>1, PartIn
<1>3. Len(r.got) \in Nat /\ Len(toPc) \in Nat
  BY <1>2, LenProperties
<1>4. \A i \in Len(r.got) + 1 .. Len(toPc) : toPc[i] \in S
  BY <1>3, ElementOfSeq
<1>5. SubSeq(toPc, Len(r.got) + 1, Len(toPc)) \in Seq(S)
  BY <1>3, <1>4, SubSeqProperties
<1> QED
  BY <1>2, <1>3, <1>5

LEMMA OneByte == ASSUME NEW S, NEW b \in S PROVE <<b>> \in Seq(S)
  OBVIOUS

LEMMA ChksumIn ==
  ASSUME NEW ds, NEW d \in ds PROVE chksum(d) \in Seq(Sums(ds)) /\ chksum(d)[1][2] = d
  BY DEF chksum, Sums

(* The program's end of the line.                                          *)
LEMMA ProgramSends ==
  ASSUME LineInv, cmd # "none", UNCHANGED <<cmd, ic35>>, pc' # "idle",
         toIc' \in Seq(Data), toPc' \in Seq(AnyByte)
  PROVE  LineInv'
  BY DEF LineInv, ic35

LEMMA LineReceives ==
  ASSUME LineInv, NEW n \in Nat, NEW r \in com_recv(n)
  PROVE  r.got \in Seq(AnyByte) /\ SubSeq(toPc, Len(r.got) + 1, Len(toPc)) \in Seq(AnyByte)
  BY Received DEF LineInv

(* The IC35 answers with what it is asked for.                             *)
LEMMA IcAnswers ==
  ASSUME LineInv, NEW k \in Blocks, NEW c \in Tags
  PROVE  /\ <<Byte(c)>> \o Block(k) \in Seq(Data \cup Sums(DbBlocks))
         /\ <<Byte(c)>> \in Seq(Data) /\ <<Byte(c), Info("ic35")>> \in Seq(Data)
<1> DEFINE S == Data \cup Sums(DbBlocks)
<1>1. Byte(c) \in Data /\ Info("ic35") \in Data
  BY Facts DEF Tags
<1>2. db[k] \in Seq(Data) /\ db[k] \in DbBlocks
  BY WholeSeq DEF LineInv, DbBlocks
<1>3. db[k] \in Seq(S) /\ chksum(db[k]) \in Seq(S) /\ <<Byte(c)>> \in Seq(S)
  <2>1. chksum(db[k]) \in Seq(Sums(DbBlocks))
    BY <1>2, ChksumIn
  <2>2. Byte(c) \in S
    BY <1>1
  <2>3. db[k] \in Seq(S) /\ chksum(db[k]) \in Seq(S)
    BY <1>2, <2>1, SeqMonotonic
  <2> HIDE DEF S
  <2> QED
    BY <2>2, <2>3, OneByte
<1>4. Block(k) \in Seq(S)
  <2> HIDE DEF S
  <2> QED
    BY <1>3, ConcatProperties DEF Block
<1>5. <<Byte(c)>> \o Block(k) \in Seq(S)
  <2> HIDE DEF S
  <2> QED
    BY <1>3, <1>4, ConcatProperties
<1>6. <<Byte(c)>> \in Seq(Data) /\ <<Byte(c), Info("ic35")>> \in Seq(Data)
  BY <1>1
<1> QED
  BY <1>5, <1>6

LEMMA BlocksHeld ==
  ASSUME LineInv
  PROVE  DbBlocks \subseteq Seq(Data) /\ Data \cup Sums(DbBlocks) \subseteq AnyByte
<1>1. DbBlocks \subseteq Seq(Data)
  BY WholeSeq DEF LineInv, DbBlocks
<1> QED
  BY <1>1 DEF AnyByte, Sums

(* What a byte that the IC35 takes changes.                                *)
LEMMA IcLine ==
  ASSUME LineInv, NEW b \in Data,
         IcIdle(b) \/ IcRest(b) \/ IcSend(b) \/ IcRecv(b) \/ IcAck(b)
  PROVE  /\ db' \in [Blocks -> Whole] /\ ibuf' \in Seq(Data) /\ iblk' \in Blocks
         /\ mode' \in {"idle", "send", "rest", "recv", "ack"}
         /\ mode' = "recv" => Len(ibuf') < BlkLen
         /\ mode' = "ack" => Len(ibuf') = BlkLen
         /\ \E a \in Seq(AnyByte) : toPc' = toPc \o a
<1>0. /\ NBlocks \in Nat /\ BlkLen \in Nat /\ BlkLen > 1 /\ Blocks = 0 .. NBlocks
      /\ 0 \in Blocks /\ \A k \in Blocks : k < NBlocks => k + 1 \in Blocks
  BY Facts
<1>1. <<>> \in Seq(Data) /\ <<>> \in Seq(AnyByte) /\ Len(<<>>) = 0
  BY EmptySeq
<1>2. \A k \in Blocks, c \in Tags : <<Byte(c)>> \o Block(k) \in Seq(AnyByte)
  BY IcAnswers, BlocksHeld, SeqMonotonic
<1>3. \A c \in Tags : <<Byte(c)>> \in Seq(AnyByte) /\ <<Byte(c), Info("ic35")>> \in Seq(AnyByte)
  BY <1>0, IcAnswers, Facts, SeqMonotonic
<1>4. {"gotcmd", "gotdata", "gotack"} \subseteq Tags
  BY DEF Tags
<1>5. ASSUME NEW m \in {"idle", "send", "rest", "recv"}, NEW k \in Blocks,
             NEW a \in Seq(AnyByte), Becomes(m, k, a), db' \in [Blocks -> Whole] PROVE
         /\ db' \in [Blocks -> Whole] /\ ibuf' \in Seq(Data) /\ iblk' \in Blocks
         /\ mode' \in {"idle", "send", "rest", "recv", "ack"}
         /\ mode' = "recv" => Len(ibuf') < BlkLen
         /\ mode' = "ack" => Len(ibuf') = BlkLen
         /\ \E x \in Seq(AnyByte) : toPc' = toPc \o x
  <2>1. mode' = m /\ iblk' = k /\ ibuf' = <<>> /\ toPc' = toPc \o a
    BY <1>5 DEF Becomes
  <2>2. Len(ibuf') < BlkLen
    BY <1>0, <1>1, <2>1
  <2> QED
    BY <1>1, <1>5, <2>1, <2>2
<1>6. ASSUME UNCHANGED <<db, ibuf, iblk, mode, toPc>> PROVE
         /\ db' \in [Blocks -> Whole] /\ ibuf' \in Seq(Data) /\ iblk' \in Blocks
         /\ mode' \in {"idle", "send", "rest", "recv", "ack"}
         /\ mode' = "recv" => Len(ibuf') < BlkLen
         /\ mode' = "ack" => Len(ibuf') = BlkLen
         /\ \E a \in Seq(AnyByte) : toPc' = toPc \o a
  <2>1. toPc = toPc \o <<>>
    BY DEF LineInv
  <2> QED
    BY <1>1, <1>6, <2>1 DEF LineInv
<1>7. CASE IcIdle(b)
  <2>1. \E m \in {"idle", "send", "rest"}, k \in Blocks, a \in Seq(AnyByte) : Becomes(m, k, a)
    BY <1>0, <1>1, <1>2, <1>3, <1>4, <1>7 DEF IcIdle
  <2>2. db' \in [Blocks -> Whole]
    BY <1>7 DEF IcIdle, LineInv
  <2> QED
    BY <1>5, <2>1, <2>2
<1>8. CASE IcRest(b)
  <2>1. \E m \in {"rest", "recv"}, k \in Blocks, a \in Seq(AnyByte) : Becomes(m, k, a)
    BY <1>0, <1>1, <1>2, <1>3, <1>4, <1>8 DEF IcRest, Byte
  <2>2. db' \in [Blocks -> Whole]
    BY <1>8 DEF IcRest, LineInv
  <2> QED
    BY <1>5, <2>1, <2>2
<1>9. CASE IcSend(b)
  <2>0. iblk \in Blocks
    BY DEF LineInv
  <2>1. \E m \in {"idle", "send"}, k \in Blocks, a \in Seq(AnyByte) : Becomes(m, k, a)
    BY <1>0, <1>1, <1>2, <1>3, <1>4, <1>9, <2>0 DEF IcSend
  <2>2. db' \in [Blocks -> Whole]
    BY <1>9 DEF IcSend, LineInv
  <2> QED
    BY <1>5, <2>1, <2>2
<1>10. CASE IcRecv(b)
  <2>1. /\ ibuf' = Append(ibuf, b) /\ ibuf' \in Seq(Data) /\ Len(ibuf') = Len(ibuf) + 1
        /\ Len(ibuf) < BlkLen /\ Len(ibuf) \in Nat /\ UNCHANGED <<db, iblk>>
    BY <1>10, AppendProperties, LenProperties DEF IcRecv, LineInv
  <2>2. CASE Len(ibuf') < BlkLen
    <3>1. toPc' = toPc \o <<>> /\ mode' = "recv"
      BY <1>10, <2>2 DEF IcRecv, LineInv
    <3> QED
      BY <1>1, <2>1, <2>2, <3>1 DEF LineInv
  <2>3. CASE ~(Len(ibuf') < BlkLen)
    <3>1. toPc' = toPc \o chksum(ibuf') /\ mode' = "ack"
      BY <1>10, <2>3 DEF IcRecv
    <3>2. Len(ibuf') = BlkLen
      BY <1>0, <2>1, <2>3
    <3>3. chksum(ibuf') \in Seq(AnyByte)
      <4>1. chksum(ibuf') \in Seq(Sums(Seq(Data)))
        BY <2>1, ChksumIn
      <4>2. Sums(Seq(Data)) \subseteq AnyByte
        BY DEF AnyByte
      <4> QED
        BY <4>1, <4>2, SeqMonotonic
    <3> QED
      BY <2>1, <3>1, <3>2, <3>3 DEF LineInv
  <2> QED
    BY <2>2, <2>3
<1>11. CASE IcAck(b)
  <2>0. ibuf \in Whole /\ iblk \in Blocks /\ db \in [Blocks -> Whole]
    BY <1>11, WholeSeq DEF IcAck, LineInv
  <2>1. CASE b = Byte("ack")
    <3>1. db' = [db EXCEPT ![iblk] = ibuf]
      BY <1>11, <2>1 DEF IcAck, Byte
    <3>2. \E m \in {"idle", "recv"}, k \in Blocks, a \in Seq(AnyByte) : Becomes(m, k, a)
      BY <1>0, <1>3, <1>4, <1>11, <2>0, <2>1 DEF IcAck, Byte
    <3>3. db' \in [Blocks -> Whole]
      BY <2>0, <3>1
    <3> QED
      BY <1>5, <3>2, <3>3
  <2>2. CASE b # Byte("ack") /\ b = Byte("nak")
    <3>1. Becomes("recv", iblk, <<Byte("gotack")>>) /\ UNCHANGED db
      BY <1>11, <2>2 DEF IcAck, Byte
    <3>2. \E k \in Blocks, a \in Seq(AnyByte) : Becomes("recv", k, a)
      BY <1>3, <1>4, <2>0, <3>1
    <3>3. db' \in [Blocks -> Whole]
      BY <2>0, <3>1
    <3> QED
      BY <1>5, <3>2, <3>3
  <2>3. CASE b # Byte("ack") /\ b # Byte("nak")
    <3>1. UNCHANGED <<ic35, toPc>>
      BY <1>11, <2>3 DEF IcAck
    <3> QED
      BY <1>6, <3>1 DEF ic35
  <2> QED
    BY <2>1, <2>2, <2>3
<1> QED
  BY <1>7, <1>8, <1>9, <1>10, <1>11

-----------------------------------------------------------------------------
LEMMA LineInit == Init => LineInv
<1> SUFFICES ASSUME Init PROVE LineInv
  OBVIOUS
<1>1. db \in [Blocks -> Whole]
  BY ContentsData DEF Init
<1>2. <<>> \in Seq(Data) /\ <<>> \in Seq(AnyByte) /\ 0 \in Blocks
  BY EmptySeq, Facts
<1> QED
  BY <1>1, <1>2 DEF Init, LineInv

(* Where Mcmdrsp() goes on is a place in the command.                      *)
LEMMA CallPlace ==
  ASSUME LineInv, CallInv, pc \in {"send byte", "get byte"}
  PROVE  cmd # "none" /\ call.then # "idle" /\ call.then \notin {"send byte", "get byte"}
  BY DEF LineInv, CallInv, Calls, Where, Reading, Restoring

LEMMA IcLineStep == ASSUME LineInv, IcStep PROVE LineInv'
<1> DEFINE b == Head(toIc)
<1>1. b \in Data /\ toIc' = Tail(toIc) /\ toIc' \in Seq(Data) /\ cmd # "none"
  BY HeadTailProperties DEF IcStep, LineInv
<1>2. UNCHANGED <<cmd, pc>>
  BY DEF IcStep, local
<1>3. IcIdle(b) \/ IcRest(b) \/ IcSend(b) \/ IcRecv(b) \/ IcAck(b)
  BY DEF IcStep
<1> HIDE DEF b
<1>4. /\ db' \in [Blocks -> Whole] /\ ibuf' \in Seq(Data) /\ iblk' \in Blocks
      /\ mode' \in {"idle", "send", "rest", "recv", "ack"}
      /\ mode' = "recv" => Len(ibuf') < BlkLen
      /\ mode' = "ack" => Len(ibuf') = BlkLen
      /\ \E a \in Seq(AnyByte) : toPc' = toPc \o a
  BY <1>1, <1>3, IcLine
<1>5. toPc' \in Seq(AnyByte)
  BY <1>4, ConcatProperties DEF LineInv
<1> QED
  BY <1>1, <1>2, <1>4, <1>5 DEF LineInv

LEMMA LineStep == ASSUME LineInv, CallInv, RestoreInv, [Steps]_vars PROVE LineInv'
<1>0. toIc \in Seq(Data) /\ toPc \in Seq(AnyByte) /\ <<>> \in Seq(AnyByte)
  BY EmptySeq DEF LineInv
<1>1. CASE UNCHANGED vars
  BY <1>1 DEF vars, LineInv
<1>2. ASSUME NEW c \in {"backup", "restore"}, Start(c) PROVE LineInv'
  BY <1>2 DEF Start, LineInv, ic35
<1>3. CASE SendByte
  <2>1. /\ cmd # "none" /\ UNCHANGED <<cmd, ic35, toPc>> /\ pc' = "get byte"
        /\ toIc' = toIc \o <<Byte(call.cmd)>>
    BY <1>3 DEF SendByte, Send, Goto, local, LineInv
  <2>2. Byte(call.cmd) \in Data
    BY Facts DEF CallInv, Calls
  <2>3. toIc' \in Seq(Data)
    BY <1>0, <2>1, <2>2, OneByte, ConcatProperties
  <2> QED
    BY <1>0, <2>1, <2>3, ProgramSends
<1>4. CASE GetByte
  <2>1. PICK r \in com_recv(1) : Taken(r) /\ \E ok \in IsResponse(r.got) : IF ok THEN Goto(call.then) ELSE Again
    BY <1>4 DEF GetByte
  <2>2. pc' # "idle"
    BY <1>4, <2>1, CallPlace DEF GetByte, Goto, Again, Fail
  <2>3. toPc' \in Seq(AnyByte) /\ UNCHANGED toIc
    BY <2>1, LineReceives DEF Taken
  <2>4. cmd # "none" /\ UNCHANGED <<cmd, ic35>>
    BY <1>4, CallPlace DEF GetByte, local
  <2> QED
    BY <1>0, <2>2, <2>3, <2>4, ProgramSends
<1>5. CASE RecvData \/ RecvSum \/ CheckSum
  <2>1. \E n \in Nat : \E r \in com_recv(n) : Taken(r)
    BY <1>5, Facts DEF RecvData, RecvSum, CheckSum
  <2>2. toPc' \in Seq(AnyByte) /\ UNCHANGED toIc
    BY <2>1, LineReceives DEF Taken
  <2>3. pc' \in {"recv sum", "send byte", "end"}
    BY <1>5 DEF RecvData, RecvSum, CheckSum, Xmit, Mcmdrsp, Goto, Fail
  <2>4. cmd # "none" /\ UNCHANGED <<cmd, ic35>>
    BY <1>5 DEF RecvData, RecvSum, CheckSum, LineInv
  <2> QED
    BY <1>0, <2>2, <2>3, <2>4, ProgramSends
<1>6. CASE SendData
  <2>1. /\ cmd # "none" /\ UNCHANGED <<cmd, ic35, toPc>> /\ pc' = "check sum"
        /\ toIc' = toIc \o buf
    BY <1>6 DEF SendData, Send, Goto, local, LineInv
  <2>2. buf \in Seq(Data)
    <3>1. cmd = "restore"
      BY <1>6, <2>1 DEF SendData, CallInv, LineInv, Where, Reading
    <3> QED
      BY <3>1 DEF RestoreInv
  <2>3. toIc' \in Seq(Data)
    BY <1>0, <2>1, <2>2, ConcatProperties
  <2> QED
    BY <1>0, <2>1, <2>3, ProgramSends
<1>7. CASE ReadBlock
  <2>1. cmd # "none" /\ UNCHANGED <<cmd, ic35, toIc, toPc>>
    BY <1>7 DEF ReadBlock, LineInv
  <2>2. pc' # "idle"
    BY <1>7 DEF ReadBlock, Written, Goto, Fail
  <2> QED
    BY <1>0, <2>1, <2>2, ProgramSends
<1>8. CASE GetInfo \/ RestInit \/ RestData \/ ReadFile \/ WriteBlock
  <2>1. cmd # "none" /\ UNCHANGED <<cmd, ic35, toIc, toPc>>
    BY <1>8 DEF GetInfo, RestInit, RestData, ReadFile, WriteBlock, LineInv, local
  <2>2. pc' # "idle"
    BY <1>8 DEF GetInfo, RestInit, RestData, ReadFile, WriteBlock, Mcmdrsp, Goto, Fail
  <2> QED
    BY <1>0, <2>1, <2>2, ProgramSends
<1>9. CASE ReadInfo \/ CompareInfo
  <2>1. \E r \in com_recv(1) : toPc' = SubSeq(toPc, Len(r.got) + 1, Len(toPc))
    BY <1>9 DEF ReadInfo, CompareInfo, Taken
  <2>2. toPc' \in Seq(AnyByte)
    BY <2>1, LineReceives
  <2>3. cmd # "none" /\ UNCHANGED <<cmd, ic35, toIc>>
    BY <1>9 DEF ReadInfo, CompareInfo, Taken, LineInv
  <2>4. pc' # "idle"
    BY <1>9 DEF ReadInfo, CompareInfo, Written, Goto, Fail
  <2> QED
    BY <1>0, <2>2, <2>3, <2>4, ProgramSends
<1>10. CASE Disconnect
  <2>1. <<>> \in Seq(Data) /\ 0 \in Blocks
    BY EmptySeq, Facts
  <2> QED
    BY <1>0, <1>10, <2>1 DEF Disconnect, LineInv
<1>11. CASE IcStep
  BY <1>11, IcLineStep
<1>12. CASE LineFault
  <2>1. /\ toIc' \in Seq(Data) /\ toPc' \in Seq(AnyByte)
    BY <1>0, <1>12, SpoiltIn, Facts DEF LineFault
  <2>2. cmd = "none" => FALSE
    <3>1. Spoilt(<<>>) = {}
      BY DEF Spoilt
    <3> QED
      BY <1>12, <3>1 DEF LineFault, LineInv
  <2>3. UNCHANGED <<cmd, pc, ic35>>
    BY <1>12 DEF LineFault, local
  <2> QED
    BY <2>1, <2>2, <2>3 DEF LineInv, ic35
<1> QED
  BY <1>1, <1>2, <1>3, <1>4, <1>5, <1>6, <1>7, <1>8, <1>9, <1>10, <1>11, <1>12
  DEF Steps, Program, LinkNext

-----------------------------------------------------------------------------
LEMMA CallInit == Init => CallInv
  BY DEF Init, CallInv, Calls, Where, Tags

(* Mcmdrsp() starts with the command it is given.                          *)
LEMMA CallMade ==
  ASSUME NEW c \in Tags, NEW r \in Tags,
         NEW t \in Reading \cup Restoring \cup {"get info", "restdata"}, Mcmdrsp(c, r, t)
  PROVE  /\ call' \in Calls /\ call'.cmd = c /\ Where' = t /\ pc' = "send byte" /\ UNCHANGED rval
  BY DEF Mcmdrsp, Where, Calls

LEMMA CallTries ==
  ASSUME NEW C, NEW T, NEW c \in [cmd : C, rsp : C, tries : Nat, then : T], NEW n \in Nat
  PROVE  /\ c.tries \in Nat
         /\ [c EXCEPT !.tries = n] \in [cmd : C, rsp : C, tries : Nat, then : T]
         /\ [c EXCEPT !.tries = n].cmd = c.cmd
         /\ [c EXCEPT !.tries = n].then = c.then
  OBVIOUS

LEMMA CallRetried ==
  ASSUME call \in Calls, call' = [call EXCEPT !.tries = @ + 1]
  PROVE  call' \in Calls /\ call'.cmd = call.cmd /\ call'.then = call.then
<1>1. call.tries \in Nat
  BY CallTries DEF Calls
<1> DEFINE n == call.tries + 1
<1>2. call' = [call EXCEPT !.tries = n]
  OBVIOUS
<1>3. n \in Nat
  BY <1>1
<1> HIDE DEF n
<1> QED
  BY <1>2, <1>3, CallTries DEF Calls

LEMMA CallStep == ASSUME LineInv, CallInv, [Steps]_vars PROVE CallInv'
<1> USE DEF CallInv, Reading, Restoring
<1>0. {"backup", "info", "ack", "nak", "gotack", "gotcmd", "gotdata", "none",
       "restinit", "restdata"} \subseteq Tags
  BY DEF Tags
<1>1. CASE UNCHANGED vars
  BY <1>1 DEF vars, Where
<1>2. ASSUME NEW c \in {"backup", "restore"}, Start(c) PROVE CallInv'
  <2>1. CASE c = "backup"
    <3>1. /\ cmd' = "backup" /\ pc' = "send byte"
          /\ call' = [cmd |-> "backup", rsp |-> "gotcmd", tries |-> 0, then |-> "recv data"]
      BY <1>2, <2>1 DEF Start
    <3>2. call' \in Calls /\ call'.cmd = "backup" /\ call'.then = "recv data"
      BY <1>0, <3>1 DEF Calls
    <3>3. Where' = "recv data"
      BY <3>1, <3>2 DEF Where
    <3> QED
      BY <3>1, <3>2, <3>3
  <2>2. CASE c = "restore"
    <3>1. cmd' = "restore" /\ pc' = "info" /\ UNCHANGED call
      BY <1>2, <2>2 DEF Start
    <3> QED
      BY <3>1 DEF Where
  <2> QED
    BY <2>1, <2>2
<1>3. CASE SendByte
  <2>1. pc = "send byte" /\ pc' = "get byte" /\ UNCHANGED <<cmd, call>>
    BY <1>3 DEF SendByte, Goto, local
  <2>2. Where' = Where
    BY <2>1 DEF Where
  <2>3. call' \in Calls
    BY <2>1
  <2>4. cmd' = "backup" => call'.cmd \in {"backup", "info", "ack", "nak"}
    BY <2>1
  <2>5. /\ cmd' = "backup" => Where' \in Reading \cup {"info", "get info", "end"}
        /\ cmd' = "restore" => Where' \in Restoring \cup {"info", "get info", "restinit", "restdata", "end"}
    BY <2>1, <2>2
  <2> QED
    BY <2>3, <2>4, <2>5
<1>4. CASE GetByte
  <2>1. Goto(call.then) \/ Again
    BY <1>4 DEF GetByte
  <2>2. UNCHANGED cmd /\ pc = "get byte"
    BY <1>4 DEF GetByte, local
  <2>3. CASE Goto(call.then)
    BY <2>2, <2>3, CallPlace DEF Goto, Where
  <2>4. CASE Again
    <3>1. CASE call.tries + 1 < MaxRetry
      <4>1. pc' = "send byte" /\ call' = [call EXCEPT !.tries = @ + 1]
        BY <2>4, <3>1 DEF Again
      <4>2. call' \in Calls /\ call'.cmd = call.cmd /\ call'.then = call.then
        BY <4>1, CallRetried
      <4>3. Where' = Where
        BY <2>2, <4>1, <4>2 DEF Where
      <4>4. cmd' = "backup" => call'.cmd \in {"backup", "info", "ack", "nak"}
        BY <2>2, <4>2
      <4>5. /\ cmd' = "backup" => Where' \in Reading \cup {"info", "get info", "end"}
            /\ cmd' = "restore" => Where' \in Restoring \cup {"info", "get info", "restinit", "restdata", "end"}
        BY <2>2, <4>3
      <4> QED
        BY <4>2, <4>4, <4>5
    <3>2. CASE ~(call.tries + 1 < MaxRetry)
      BY <2>2, <2>4, <3>2 DEF Again, Fail, Where
    <3> QED
      BY <3>1, <3>2
  <2> QED
    BY <2>1, <2>3, <2>4
<1>5. CASE RecvData \/ RecvSum
  <2>1. cmd = "backup" /\ UNCHANGED cmd
    BY <1>5 DEF RecvData, RecvSum, LineInv, Where
  <2>2. \/ Goto("recv sum") \/ Fail
        \/ Mcmdrsp("ack", "gotack", "got block") \/ Mcmdrsp("nak", "gotack", "recv data")
    BY <1>5 DEF RecvData, RecvSum, Xmit
  <2>3. CASE Goto("recv sum") \/ Fail
    BY <2>1, <2>3 DEF Goto, Fail, Where
  <2>4. CASE Mcmdrsp("ack", "gotack", "got block") \/ Mcmdrsp("nak", "gotack", "recv data")
    BY <1>0, <2>1, <2>4, CallMade
  <2> QED
    BY <2>2, <2>3, <2>4
<1>6. CASE CheckSum
  <2>1. cmd = "restore" /\ UNCHANGED cmd
    BY <1>6 DEF CheckSum, LineInv, Where
  <2>2. \/ Fail
        \/ Mcmdrsp("ack", "gotack", "put block") \/ Mcmdrsp("nak", "gotack", "send data")
    BY <1>6 DEF CheckSum, Xmit
  <2>3. CASE Fail
    BY <2>1, <2>3 DEF Fail, Where
  <2>4. CASE Mcmdrsp("ack", "gotack", "put block") \/ Mcmdrsp("nak", "gotack", "send data")
    BY <1>0, <2>1, <2>4, CallMade
  <2> QED
    BY <2>2, <2>3, <2>4
<1>7. CASE SendData \/ ReadFile \/ WriteBlock
  <2>1. cmd = "restore" /\ UNCHANGED <<cmd, call>>
    BY <1>7 DEF SendData, ReadFile, WriteBlock, LineInv, Where, local, Goto, Fail
  <2>2. pc' \in {"check sum", "send data", "read file", "end"}
    BY <1>7 DEF SendData, ReadFile, WriteBlock, Goto, Fail
  <2> QED
    BY <2>1, <2>2 DEF Where
<1>8. CASE ReadBlock \/ ReadInfo
  <2>1. cmd = "backup" /\ UNCHANGED <<cmd, call>>
    BY <1>8 DEF ReadBlock, ReadInfo, LineInv, Where, Written, Goto, Fail
  <2>2. pc' \in {"recv data", "info", "end"}
    BY <1>8 DEF ReadBlock, ReadInfo, Written, Goto, Fail
  <2> QED
    BY <2>1, <2>2 DEF Where
<1>9. CASE GetInfo
  <2>1. cmd \in {"backup", "restore"} /\ UNCHANGED cmd /\ Mcmdrsp("info", "gotcmd", "get info")
    BY <1>9 DEF GetInfo, LineInv, local
  <2> QED
    BY <1>0, <2>1, CallMade
<1>10. CASE RestInit \/ RestData
  <2>1. cmd = "restore" /\ UNCHANGED cmd
    BY <1>10 DEF RestInit, RestData, LineInv, local, Where
  <2>2. Mcmdrsp("restinit", "gotcmd", "restdata") \/ Mcmdrsp("restdata", "gotdata", "read file")
    BY <1>10 DEF RestInit, RestData
  <2> QED
    BY <1>0, <2>1, <2>2, CallMade
<1>11. CASE CompareInfo
  <2>1. cmd = "restore" /\ UNCHANGED <<cmd, call>>
    BY <1>11 DEF CompareInfo, Goto, Fail
  <2>2. pc' \in {"info", "restinit", "end"}
    BY <1>11 DEF CompareInfo, Goto, Fail
  <2> QED
    BY <2>1, <2>2 DEF Where
<1>12. CASE Disconnect
  BY <1>0, <1>12 DEF Disconnect, Where, Calls
<1>13. CASE IcStep \/ LineFault
  BY <1>13 DEF IcStep, LineFault, local, Where
<1> QED
  BY <1>1, <1>2, <1>3, <1>4, <1>5, <1>6, <1>7, <1>8, <1>9, <1>10, <1>11, <1>12, <1>13
  DEF Steps, Program, LinkNext

-----------------------------------------------------------------------------
(* The steps of a backup.                                                  *)
LEMMA BackupSteps ==
  ASSUME LineInv, CallInv, cmd = "backup", [Steps]_vars
  PROVE  \/ SendByte \/ GetByte \/ RecvData \/ RecvSum \/ ReadBlock \/ GetInfo
         \/ ReadInfo \/ Disconnect \/ IcStep \/ LineFault \/ UNCHANGED vars
<1>1. pc # "idle" /\ Where \in Reading \cup {"info", "get info", "end"}
  BY DEF LineInv, CallInv
<1> QED
  BY <1>1 DEF Steps, Program, LinkNext, Where, Reading, Start, SendData, CheckSum, CompareInfo,
       RestInit, RestData, ReadFile, WriteBlock

LEMMA BackupStarts ==
  ASSUME LineInv, [Steps]_vars, cmd # "backup", cmd' = "backup"
  PROVE  Start("backup")
<1>1. ASSUME NEW c \in {"backup", "restore"}, Start(c) PROVE cmd' = c
  BY <1>1 DEF Start
<1>2. Program \/ IcStep \/ LineFault \/ UNCHANGED vars => cmd' \in {cmd, "none"}
  BY DEF Program, LinkNext, SendByte, GetByte, RecvData, RecvSum, SendData, CheckSum,
     ReadBlock, GetInfo, ReadInfo, CompareInfo, RestInit, RestData, ReadFile, WriteBlock,
     Disconnect, IcStep, LineFault, vars, local
<1> QED
  BY <1>1, <1>2 DEF Steps

LEMMA AskedProgram ==
  ASSUME AskedInv, cmd = "backup", UNCHANGED <<cmd, ic35>>,
         toIc' \in Seq(Asked), toPc' \in Seq(Data \cup Sums(DbBlocks))
  PROVE  AskedInv'
  BY DEF AskedInv, ic35, DbBlocks

LEMMA IcAsked ==
  ASSUME LineInv, AskedInv, cmd = "backup", IcStep PROVE AskedInv' /\ UNCHANGED db
<1> DEFINE S == Data \cup Sums(DbBlocks)
           b == Head(toIc)
<1>1. b \in Asked /\ toIc' \in Seq(Asked) /\ toPc \in Seq(S) /\ UNCHANGED cmd
  BY HeadTailProperties DEF IcStep, AskedInv, local
<1>2. /\ NBlocks \in Nat /\ 0 \in Blocks /\ \A k \in Blocks : k < NBlocks => k + 1 \in Blocks
  BY Facts
<1>3. {"gotcmd", "gotack"} \subseteq Tags
  BY DEF Tags
<1>4. /\ \A k \in Blocks : \A c \in {"gotcmd", "gotack"} : <<Byte(c)>> \o Block(k) \in Seq(S)
      /\ \A c \in {"gotcmd", "gotack"} : <<Byte(c)>> \in Seq(S) /\ <<Byte(c), Info("ic35")>> \in Seq(S)
      /\ <<>> \in Seq(S)
  BY <1>2, <1>3, IcAnswers, SeqMonotonic, EmptySeq
<1>5. ASSUME NEW m \in {"idle", "send"}, NEW k, NEW a \in Seq(S), Becomes(m, k, a), UNCHANGED db
      PROVE  AskedInv' /\ UNCHANGED db
  <2> DEFINE R == S
  <2>1. toPc' \in Seq(S) /\ mode' = m
    <3> HIDE DEF S
    <3> QED
      BY <1>1, <1>5, ConcatProperties DEF Becomes
  <2>2. DbBlocks' = DbBlocks
    BY <1>5 DEF DbBlocks
  <2> QED
    BY <1>1, <1>5, <2>1, <2>2 DEF AskedInv
<1>6. mode \in {"idle", "send"} /\ (IcIdle(b) \/ IcSend(b)) /\ iblk \in Blocks
  BY DEF AskedInv, IcStep, IcRest, IcRecv, IcAck, LineInv
<1>7. CASE IcIdle(b)
  <2>1. UNCHANGED db /\ \E m \in {"idle", "send"}, k \in Blocks, a \in Seq(S) : Becomes(m, k, a)
    <3>1. b # Byte("restinit")
      BY <1>1 DEF Asked, Byte, Bad
    <3> HIDE DEF S, b
    <3> QED
      BY <1>2, <1>4, <1>7, <3>1 DEF IcIdle
  <2> QED
    BY <1>5, <2>1
<1>8. CASE IcSend(b)
  <2>1. UNCHANGED db /\ \E m \in {"idle", "send"}, k \in Blocks, a \in Seq(S) : Becomes(m, k, a)
    <3> HIDE DEF S, b
    <3> QED
      BY <1>2, <1>4, <1>6, <1>8 DEF IcSend
  <2> QED
    BY <1>5, <2>1
<1> QED
  BY <1>6, <1>7, <1>8

LEMMA AskedStep ==
  ASSUME LineInv, AskedInv, CallInv, [Steps]_vars PROVE AskedInv'
<1>1. CASE cmd' # "backup"
  BY <1>1 DEF AskedInv
<1>2. CASE cmd # "backup" /\ cmd' = "backup"
  <2>1. Start("backup")
    BY <1>2, BackupStarts
  <2>2. mode' = "idle" /\ toIc' = <<>> /\ toPc' = <<>>
    BY <2>1 DEF Start, LineInv, ic35
  <2> QED
    BY <2>2, EmptySeq DEF AskedInv
<1>3. CASE cmd = "backup" /\ cmd' = "backup"
  <2> DEFINE S == Data \cup Sums(DbBlocks)
  <2>0. toIc \in Seq(Asked) /\ toPc \in Seq(S)
    BY <1>3 DEF AskedInv
  <2>1. CASE SendByte
    <3>1. toIc' = toIc \o <<Byte(call.cmd)>> /\ UNCHANGED <<toPc, ic35>>
      BY <2>1 DEF SendByte, Send
    <3>2. Byte(call.cmd) \in Asked
      <4>1. call.cmd \in {"backup", "info", "ack", "nak"}
        BY <1>3, <2>1 DEF SendByte, CallInv
      <4> QED
        BY <4>1 DEF Asked
    <3>3. toIc' \in Seq(Asked)
      BY <2>0, <3>1, <3>2, OneByte, ConcatProperties
    <3> QED
      BY <1>3, <2>0, <3>1, <3>3, AskedProgram
  <2>2. CASE GetByte \/ RecvData \/ RecvSum \/ ReadInfo
    <3>1. \E n \in Nat : \E r \in com_recv(n) : toPc' = SubSeq(toPc, Len(r.got) + 1, Len(toPc))
      BY <2>2, Facts DEF GetByte, RecvData, RecvSum, ReadInfo, Taken
    <3>2. toPc' \in Seq(S)
      <4> HIDE DEF S
      <4> QED
        BY <2>0, <3>1, Received
    <3>3. UNCHANGED <<toIc, ic35>>
      BY <2>2 DEF GetByte, RecvData, RecvSum, ReadInfo, Taken
    <3> QED
      BY <1>3, <2>0, <3>2, <3>3, AskedProgram
  <2>3. CASE ReadBlock \/ GetInfo \/ UNCHANGED vars
    <3>1. UNCHANGED <<toIc, toPc, ic35>>
      BY <2>3 DEF ReadBlock, GetInfo, vars, ic35
    <3> QED
      BY <1>3, <2>0, <3>1, AskedProgram
  <2>4. CASE Disconnect
    BY <1>3, <2>4 DEF Disconnect
  <2>5. CASE IcStep
    BY <1>3, <2>5, IcAsked
  <2>6. CASE LineFault
    <3>1. UNCHANGED ic35 /\ Bad \in Asked /\ Bad \in S
      BY <2>6, Facts DEF LineFault, Asked
    <3>2. toIc' \in Seq(Asked) /\ toPc' \in Seq(S)
      <4> HIDE DEF S
      <4> QED
        BY <2>0, <2>6, <3>1, SpoiltIn DEF LineFault
    <3> QED
      BY <1>3, <3>1, <3>2, AskedProgram
  <2> QED
    BY <1>3, <2>1, <2>2, <2>3, <2>4, <2>5, <2>6, BackupSteps
<1> QED
  BY <1>1, <1>2, <1>3

-----------------------------------------------------------------------------
LEMMA SizeOf ==
  /\ Size \in Nat
  /\ \A k \in Blocks : k * BlkLen \in Nat /\ k * BlkLen + BlkLen <= Size
<1>1. ASSUME NEW k \in Blocks PROVE k * BlkLen \in Nat /\ k * BlkLen + BlkLen <= Size /\ Size \in Nat
  <2>1. k \in Nat /\ NBlocks + 1 \in Nat /\ k < NBlocks + 1
    BY Facts
  <2> QED
    BY <2>1, Times DEF Size
<1>2. 0 \in Blocks
  BY Facts
<1> QED
  BY <1>1, <1>2

LEMMA DataGrows ==
  ASSUME NEW f \in Seq(AnyByte), DataIn(f), NEW x \in Seq(AnyByte),
         x \in Seq(Data) \/ Len(f) >= Size
  PROVE  f \o x \in Seq(AnyByte) /\ DataIn(f \o x)
<1>1. /\ f \o x \in Seq(AnyByte) /\ Len(f \o x) = Len(f) + Len(x)
      /\ \A i \in 1 .. Len(f) + Len(x) :
           (f \o x)[i] = IF i <= Len(f) THEN f[i] ELSE x[i - Len(f)]
  BY ConcatProperties
<1>2. Len(f) \in Nat /\ Len(x) \in Nat /\ Size \in Nat
  BY LenProperties, SizeOf
<1> DEFINE g == f \o x
<1> HIDE DEF g
<1>3. ASSUME NEW i \in 1 .. Len(g), i <= Size PROVE g[i] \in Data
  <2>0. i \in 1 .. Len(f) + Len(x)
    BY <1>1, <1>3 DEF g
  <2>1. CASE i <= Len(f)
    <3>1. i \in 1 .. Len(f) /\ f[i] \in Data
      BY <1>2, <1>3, <2>0, <2>1 DEF DataIn
    <3> QED
      BY <1>1, <2>0, <2>1, <3>1 DEF g
  <2>2. CASE ~(i <= Len(f))
    <3>1. x \in Seq(Data) /\ i - Len(f) \in 1 .. Len(x)
      BY <1>2, <1>3, <2>0, <2>2
    <3>2. x[i - Len(f)] \in Data
      BY <3>1, ElementOfSeq
    <3> QED
      BY <1>1, <2>0, <2>2, <3>2 DEF g
  <2> QED
    BY <2>1, <2>2
<1> QED
  BY <1>1, <1>3 DEF DataIn, g

(* What a block of the file looks like when it is written.                 *)
LEMMA ChunkKept ==
  ASSUME NEW f \in Seq(AnyByte), NEW x \in Seq(AnyByte), NEW k \in Blocks,
         k * BlkLen + BlkLen <= Len(f)
  PROVE  Chunk(f \o x, k) = Chunk(f, k)
<1>1. k * BlkLen \in Nat /\ BlkLen \in Nat /\ BlkLen > 1
  BY SizeOf, Facts
<1>2. Len(f) \in Nat /\ Len(x) \in Nat /\ f \o x \in Seq(AnyByte) /\ Len(f \o x) = Len(f) + Len(x)
  BY LenProperties, ConcatProperties
<1> DEFINE m == k * BlkLen
<1> HIDE DEF m
<1>3. m \in Nat /\ m + BlkLen <= Len(f) /\ m + BlkLen <= Len(f \o x)
  BY <1>1, <1>2 DEF m
<1>4. Part(f, m, BlkLen) = SubSeq(f, m + 1, m + BlkLen)
  BY <1>1, <1>3, PartIn
<1>5. Part(f \o x, m, BlkLen) = SubSeq(f \o x, m + 1, m + BlkLen)
  BY <1>1, <1>2, <1>3, PartIn
<1>6. SubSeq(f \o x, m + 1, m + BlkLen) = SubSeq(f, m + 1, m + BlkLen)
  BY <1>1, <1>2, <1>3, SubSeqOfConcat1
<1> QED
  BY <1>4, <1>5, <1>6 DEF Chunk, m

LEMMA ChunkAdded ==
  ASSUME NEW f \in Seq(AnyByte), NEW x \in Seq(AnyByte), NEW k \in Blocks,
         Len(f) = k * BlkLen, Len(x) = BlkLen
  PROVE  Chunk(f \o x, k) = x
<1>1. k * BlkLen \in Nat /\ BlkLen \in Nat /\ BlkLen > 1
  BY SizeOf, Facts
<1>2. Len(f) \in Nat /\ Len(x) \in Nat /\ f \o x \in Seq(AnyByte) /\ Len(f \o x) = Len(f) + Len(x)
  BY LenProperties, ConcatProperties
<1> DEFINE g == f \o x
<1> HIDE DEF g
<1>3. Part(g, Len(f), BlkLen) = SubSeq(g, Len(f) + 1, Len(f) + BlkLen)
  <2> DEFINE m == Len(f)
  <2> HIDE DEF m
  <2>1. g \in Seq(AnyByte) /\ m \in Nat /\ m + BlkLen <= Len(g)
    BY <1>1, <1>2 DEF g, m
  <2>2. Part(g, m, BlkLen) = SubSeq(g, m + 1, m + BlkLen)
    BY <1>1, <2>1, PartIn
  <2> QED
    BY <2>2 DEF m
<1>4. SubSeq(f \o x, Len(f) + 1, Len(f) + BlkLen) = SubSeq(x, 1, BlkLen)
  <2>1. (Len(f) + 1) - Len(f) = 1 /\ (Len(f) + BlkLen) - Len(f) = BlkLen
    BY <1>1, <1>2
  <2> QED
    BY <1>1, <1>2, <2>1, SubSeqOfConcat2
<1>5. SubSeq(x, 1, BlkLen) = x
  BY SubSeqFull
<1> QED
  BY <1>3, <1>4, <1>5 DEF Chunk, g

LEMMA BlockSeq ==
  ASSUME LineInv, NEW d \in DbBlocks PROVE d \in Seq(Data) /\ d \in Seq(AnyByte) /\ Len(d) = BlkLen
<1>1. d \in Seq(Data) /\ Len(d) = BlkLen
  BY WholeSeq DEF LineInv, DbBlocks
<1> QED
  BY <1>1, Facts, SeqMonotonic

(* What fwrite writes.                                                     *)
LEMMA CutWritten ==
  ASSUME NEW S, NEW x \in Seq(S), NEW n \in {0, Len(x) - 1} PROVE SubSeq(x, 1, n) \in Seq(S)
<1>1. Len(x) \in Nat
  BY LenProperties
<1>2. n \in Int /\ n <= Len(x)
  BY <1>1
<1>3. \A i \in 1 .. n : x[i] \in S
  BY <1>1, <1>2, ElementOfSeq
<1> QED
  BY <1>2, <1>3, SubSeqProperties

LEMMA FileInit == Init => FileInv /\ RestoreInv /\ BlocksInv
<1> SUFFICES ASSUME Init PROVE FileInv
  BY DEF Init, RestoreInv, BlocksInv
<1> DEFINE h == [i \in 1 .. Size |-> Contents("file", (i - 1) \div BlkLen)[((i - 1) % BlkLen) + 1]]
           t == <<Info("file"), Info("file")>>
<1>1. ASSUME NEW i \in 1 .. Size
      PROVE  Contents("file", (i - 1) \div BlkLen)[((i - 1) % BlkLen) + 1] \in Data
  <2>1. i - 1 \in Nat /\ BlkLen \in Nat /\ BlkLen > 0
    BY SizeOf, Facts
  <2>2. (i - 1) \div BlkLen \in Nat /\ (i - 1) % BlkLen \in 0 .. BlkLen - 1
    BY <2>1
  <2>3. ((i - 1) % BlkLen) + 1 \in 1 .. BlkLen
    BY <2>1, <2>2
  <2> DEFINE k == (i - 1) \div BlkLen
             j == ((i - 1) % BlkLen) + 1
  <2> HIDE DEF k, j
  <2>4. k \in Nat /\ j \in 1 .. BlkLen /\ j \in Nat
    BY <2>1, <2>2, <2>3 DEF k, j
  <2>5. Contents("file", k)[j] = <<"file", k, j>>
    BY <2>4 DEF Contents
  <2>6. <<"file", k, j>> \in Data
    BY <2>4 DEF Data, Tags
  <2> QED
    BY <2>5, <2>6 DEF k, j
<1>2. h \in Seq(Data)
  <2>1. h \in [1 .. Size -> Data] /\ Size \in Nat
    BY <1>1, SizeOf
  <2> QED
    BY <2>1, SeqDef
<1>3. t \in Seq(Data)
  <2>1. Info("file") \in Data
    BY Facts DEF Tags
  <2> QED
    BY <2>1
<1>4. file = h \o t /\ buf = <<>> /\ blk = 0
  BY DEF Init, Image, Size
<1> HIDE DEF h, t
<1>5. DataIn(<<>>) /\ <<>> \in Seq(AnyByte)
  BY EmptySeq DEF DataIn
<1>6. h \o t \in Seq(Data)
  BY <1>2, <1>3, ConcatProperties
<1>7. h \o t \in Seq(AnyByte) /\ DataIn(h \o t)
  <2>1. DataIn(h \o t)
    BY <1>6, ElementOfSeq DEF DataIn
  <2> QED
    BY <1>6, <2>1, Facts, SeqMonotonic
<1> QED
  BY <1>4, <1>5, <1>7 DEF FileInv

LEMMA FileStep ==
  ASSUME LineInv, CallInv, FileInv, BlocksInv, [Steps]_vars PROVE FileInv'
<1>0. /\ file \in Seq(AnyByte) /\ DataIn(file) /\ buf \in Seq(AnyByte) /\ blk \in Nat
      /\ <<>> \in Seq(AnyByte) /\ DataIn(<<>>)
  BY EmptySeq DEF FileInv, DataIn
<1>1. CASE \/ SendByte \/ GetByte \/ RecvSum \/ SendData \/ CheckSum \/ GetInfo
           \/ RestInit \/ RestData \/ IcStep \/ LineFault \/ UNCHANGED vars
  <2>1. UNCHANGED <<file, buf, blk>>
    BY <1>1 DEF SendByte, GetByte, RecvSum, SendData, CheckSum, GetInfo, RestInit, RestData,
       IcStep, LineFault, vars, local
  <2> QED
    BY <1>0, <2>1 DEF FileInv
<1>2. CASE Disconnect \/ \E c \in {"backup", "restore"} : Start(c)
  <2>1. file' \in {file, <<>>} /\ buf' = <<>> /\ blk' = 0
    BY <1>2 DEF Start, Disconnect
  <2> QED
    BY <1>0, <2>1 DEF FileInv
<1>3. CASE RecvData
  <2>1. UNCHANGED <<file, blk>> /\ \E r \in com_recv(BlkLen) : buf' = r.got
    BY <1>3 DEF RecvData
  <2> QED
    BY <1>0, <2>1, LineReceives, Facts DEF FileInv
<1>4. CASE ReadBlock
  <2>1. buf \in Seq(Data)
    <3>1. cmd = "backup" /\ Where = "got block"
      BY <1>4 DEF ReadBlock, Where, LineInv, CallInv, Restoring
    <3> QED
      BY <3>1, BlockSeq DEF BlocksInv
  <2>2. PICK x \in Seq(Data) : file' = file \o x
    BY <1>4, <2>1, CutWritten DEF ReadBlock, Written
  <2>3. x \in Seq(AnyByte)
    BY Facts, SeqMonotonic
  <2>4. UNCHANGED buf
    BY <1>4 DEF ReadBlock
  <2>5. blk' \in {blk, blk + 1, 0}
    BY <1>4 DEF ReadBlock, Written
  <2> QED
    BY <1>0, <2>2, <2>3, <2>4, <2>5, DataGrows DEF FileInv
<1>5. CASE ReadInfo
  <2>1. Len(file) >= Size
    BY <1>5 DEF BlocksInv, ReadInfo, Where
  <2>2. PICK r \in com_recv(1) :
           IF r.got = <<>> THEN Fail /\ UNCHANGED <<blk, tries, file, faults>>
           ELSE Written(r.got, /\ blk' = blk + 1 /\ UNCHANGED tries
                               /\ Goto(IF blk = 0 THEN "info" ELSE "end"))
    BY <1>5 DEF ReadInfo
  <2>3. r.got \in Seq(AnyByte)
    BY LineReceives
  <2>4. UNCHANGED buf
    BY <1>5 DEF ReadInfo
  <2>5. CASE r.got = <<>>
    BY <1>0, <2>2, <2>4, <2>5 DEF FileInv
  <2>6. CASE r.got # <<>>
    <3>1. PICK x \in Seq(AnyByte) : file' = file \o x
      BY <2>2, <2>3, <2>6, CutWritten DEF Written
    <3>2. blk' \in {blk, blk + 1}
      BY <2>2, <2>6 DEF Written
    <3>3. file' \in Seq(AnyByte) /\ DataIn(file')
      BY <1>0, <2>1, <3>1, DataGrows
    <3> QED
      BY <1>0, <2>4, <3>2, <3>3 DEF FileInv
  <2> QED
    BY <2>5, <2>6
<1>6. CASE CompareInfo \/ WriteBlock
  <2>1. UNCHANGED <<file, buf>>
    BY <1>6 DEF CompareInfo, WriteBlock
  <2>2. blk' \in {blk, blk + 1} \/ blk' = (blk + 1) % 2
    BY <1>6 DEF CompareInfo, WriteBlock
  <2>3. (blk + 1) % 2 \in Nat
    BY <1>0
  <2> QED
    BY <1>0, <2>1, <2>2, <2>3 DEF FileInv
<1>7. CASE ReadFile
  <2>1. UNCHANGED <<file, blk>> /\ buf' = Part(file, blk * BlkLen, BlkLen)
    BY <1>7 DEF ReadFile
  <2>2. blk * BlkLen \in Nat /\ BlkLen \in Nat
    BY <1>0, Facts
  <2>3. buf' \in Seq(AnyByte)
    BY <1>0, <2>1, <2>2, PartIn
  <2> QED
    BY <1>0, <2>1, <2>3 DEF FileInv
<1> QED
  BY <1>1, <1>2, <1>3, <1>4, <1>5, <1>6, <1>7 DEF Steps, Program, LinkNext

(* Steps that stay where they are in the command.                          *)
LEMMA QuietStep ==
  ASSUME SendByte \/ IcStep \/ LineFault \/ UNCHANGED vars
  PROVE  UNCHANGED <<cmd, rval, buf, blk, file>> /\ Where' = Where
<1>1. CASE SendByte
  BY <1>1 DEF SendByte, Goto, local, ic35, Where
<1>2. CASE IcStep
  BY <1>2 DEF IcStep, local, Where
<1>3. CASE LineFault
  BY <1>3 DEF LineFault, local, ic35, Where
<1>4. CASE UNCHANGED vars
  BY <1>4 DEF vars, local, Where
<1> QED
  BY <1>1, <1>2, <1>3, <1>4

LEMMA GetByteGoes ==
  ASSUME LineInv, CallInv, GetByte
  PROVE  /\ UNCHANGED <<cmd, buf, blk, file>>
         /\ \/ Where' = Where /\ rval' = rval
            \/ Where' = "end" /\ rval' = "ERR"
<1>1. UNCHANGED <<cmd, buf, blk, file>> /\ pc = "get byte" /\ (Goto(call.then) \/ Again)
  BY DEF GetByte, local
<1>2. CASE Goto(call.then)
  BY <1>1, <1>2, CallPlace DEF Goto, Where
<1>3. CASE Again
  <2>1. CASE call.tries + 1 < MaxRetry
    <3>1. pc' = "send byte" /\ call'.then = call.then /\ rval' = rval
      BY <1>3, <2>1, CallRetried DEF Again, CallInv
    <3> QED
      BY <1>1, <3>1 DEF Where
  <2>2. CASE ~(call.tries + 1 < MaxRetry)
    <3>1. pc' = "end" /\ rval' = "ERR"
      BY <1>3, <2>2 DEF Again, Fail
    <3> QED
      BY <1>1, <3>1 DEF Where
  <2> QED
    BY <2>1, <2>2
<1> QED
  BY <1>1, <1>2, <1>3

LEMMA PartData ==
  ASSUME FileInv, NEW k \in Blocks PROVE Part(file, k * BlkLen, BlkLen) \in Seq(Data)
<1> DEFINE m == k * BlkLen
           t == Part(file, m, BlkLen)
<1>1. m \in Nat /\ BlkLen \in Nat /\ m + BlkLen <= Size /\ Size \in Nat
  BY SizeOf, Facts
<1>2. file \in Seq(AnyByte) /\ Len(file) \in Nat
  BY LenProperties DEF FileInv
<1> HIDE DEF m
<1>3. /\ t \in Seq(AnyByte) /\ Len(t) <= BlkLen
      /\ \A i \in 1 .. Len(t) : t[i] = file[m + i] /\ m + i <= Len(file)
  BY <1>1, <1>2, PartIn
<1> HIDE DEF t
<1>4. Len(t) \in Nat /\ t \in [1 .. Len(t) -> AnyByte]
  BY <1>3, LenProperties
<1>5. ASSUME NEW i \in 1 .. Len(t) PROVE t[i] \in Data
  <2>1. i \in Nat /\ i >= 1 /\ i <= Len(t)
    BY <1>4
  <2>2. t[i] = file[m + i] /\ m + i <= Len(file)
    BY <1>3
  <2>3. m + i \in 1 .. Len(file) /\ m + i <= Size
    BY <1>1, <1>2, <1>3, <1>4, <2>1, <2>2
  <2> QED
    BY <2>2, <2>3 DEF FileInv, DataIn
<1>6. t \in [1 .. Len(t) -> Data]
  BY <1>4, <1>5
<1>7. t \in Seq(Data)
  BY <1>4, <1>6, SeqDef
<1> QED
  BY <1>7 DEF m, t

LEMMA RestoreStep ==
  ASSUME LineInv, CallInv, FileInv, RestoreInv, [Steps]_vars PROVE RestoreInv'
<1>0. 0 \in Blocks /\ \A k \in Blocks : k < NBlocks => k + 1 \in Blocks
  BY Facts
<1>1. CASE cmd' # "restore"
  BY <1>1 DEF RestoreInv
<1>2. CASE cmd # "restore" /\ cmd' = "restore"
  <2>1. Start("restore")
    <3>1. ASSUME NEW c \in {"backup", "restore"}, Start(c) PROVE cmd' = c
      BY <3>1 DEF Start
    <3>2. Program \/ IcStep \/ LineFault \/ UNCHANGED vars => cmd' \in {cmd, "none"}
      BY DEF Program, LinkNext, SendByte, GetByte, RecvData, RecvSum, SendData, CheckSum,
         ReadBlock, GetInfo, ReadInfo, CompareInfo, RestInit, RestData, ReadFile, WriteBlock,
         Disconnect, IcStep, LineFault, vars, local
    <3> QED
      BY <1>2, <3>1, <3>2 DEF Steps
  <2>2. buf' = <<>> /\ blk' = 0 /\ pc' = "info"
    BY <2>1 DEF Start
  <2>3. Where' = "info"
    BY <2>2 DEF Where
  <2>4. Counted("info", 0)
    BY DEF Counted, Restoring
  <2> QED
    BY <2>2, <2>3, <2>4, EmptySeq DEF RestoreInv
<1>3. CASE cmd = "restore" /\ cmd' = "restore"
  <2>0. /\ Where \in Restoring \cup {"info", "get info", "restinit", "restdata", "end"}
        /\ pc # "idle" /\ buf \in Seq(Data) /\ Counted(Where, blk)
    BY <1>3 DEF CallInv, LineInv, RestoreInv
  <2>9. ASSUME buf' \in Seq(Data), Counted(Where', blk') PROVE RestoreInv'
    BY <2>9 DEF RestoreInv
  <2>10. \A k : Counted("end", k)
    BY DEF Counted, Restoring
  <2>1. CASE SendByte \/ IcStep \/ LineFault \/ UNCHANGED vars
    BY <2>0, <2>1, <2>9, QuietStep
  <2>2. CASE GetByte
    BY <2>0, <2>2, <2>9, <2>10, GetByteGoes
  <2>3. CASE SendData
    <3>1. Where = "send data" /\ Where' = "check sum" /\ UNCHANGED <<buf, blk>>
      BY <2>3 DEF SendData, Goto, local, Where
    <3>2. Counted("check sum", blk)
      BY <2>0, <3>1 DEF Counted, Restoring
    <3> QED
      BY <2>0, <2>9, <3>1, <3>2
  <2>4. CASE CheckSum
    <3>1. Where = "check sum" /\ UNCHANGED <<buf, blk>>
      BY <2>4 DEF CheckSum, Where
    <3>2. \/ Fail
          \/ Mcmdrsp("ack", "gotack", "put block") \/ Mcmdrsp("nak", "gotack", "send data")
      BY <2>4 DEF CheckSum, Xmit
    <3>3. Where' \in {"put block", "send data", "end"}
      <4>1. CASE Fail
        BY <4>1 DEF Fail, Where
      <4>2. CASE Mcmdrsp("ack", "gotack", "put block")
        BY <4>2 DEF Mcmdrsp, Where
      <4>3. CASE Mcmdrsp("nak", "gotack", "send data")
        BY <4>3 DEF Mcmdrsp, Where
      <4> QED
        BY <3>2, <4>1, <4>2, <4>3
    <3>4. Counted("put block", blk) /\ Counted("send data", blk)
      BY <2>0, <3>1 DEF Counted, Restoring
    <3> QED
      BY <2>0, <2>9, <2>10, <3>1, <3>3, <3>4
  <2>5. CASE GetInfo \/ RestInit \/ RestData
    <3>1. UNCHANGED <<buf, blk>>
      BY <2>5 DEF GetInfo, RestInit, RestData, local
    <3>2. \/ Where = "info" /\ Where' = "get info"
          \/ Where = "restinit" /\ Where' = "restdata"
          \/ Where = "restdata" /\ Where' = "read file"
      <4>1. CASE GetInfo
        BY <4>1 DEF GetInfo, Mcmdrsp, Where
      <4>2. CASE RestInit
        BY <4>2 DEF RestInit, Mcmdrsp, Where
      <4>3. CASE RestData
        BY <4>3 DEF RestData, Mcmdrsp, Where
      <4> QED
        BY <2>5, <4>1, <4>2, <4>3
    <3>3. Counted(Where', blk)
      BY <1>0, <2>0, <3>2 DEF Counted, Restoring
    <3> QED
      BY <2>0, <2>9, <3>1, <3>3
  <2>6. CASE CompareInfo
    <3>1. Where = "get info" /\ UNCHANGED buf
      BY <2>6 DEF CompareInfo, Where
    <3>2. \/ pc' = "end"
          \/ blk' = (blk + 1) % 2 /\ pc' = IF blk = 0 THEN "info" ELSE "restinit"
      BY <2>6 DEF CompareInfo, Goto, Fail
    <3>3. blk \in {0, 1} /\ (blk = 0 => (blk + 1) % 2 = 1) /\ (blk = 1 => (blk + 1) % 2 = 0)
      <4>1. blk \in {0, 1}
        BY <2>0, <3>1 DEF Counted
      <4>2. (0 + 1) % 2 = 1
        OBVIOUS
      <4>3. (1 + 1) % 2 = 0
        OBVIOUS
      <4> QED
        BY <4>1, <4>2, <4>3
    <3>4. CASE pc' = "end"
      <4>1. Where' = "end"
        BY <3>4 DEF Where
      <4> QED
        BY <2>0, <2>9, <2>10, <3>1, <4>1
    <3>5. CASE blk = 0 /\ blk' = 1 /\ pc' = "info"
      <4>1. Where' = "info" /\ Counted("info", 1)
        BY <3>5 DEF Where, Counted, Restoring
      <4> QED
        BY <2>0, <2>9, <3>1, <3>5, <4>1
    <3>6. CASE blk = 1 /\ blk' = 0 /\ pc' = "restinit"
      <4>1. Where' = "restinit" /\ Counted("restinit", 0)
        BY <3>6 DEF Where, Counted, Restoring
      <4> QED
        BY <2>0, <2>9, <3>1, <3>6, <4>1
    <3> QED
      BY <3>2, <3>3, <3>4, <3>5, <3>6
  <2>7. CASE ReadFile
    <3>1. Where = "read file" /\ UNCHANGED blk
      BY <2>7 DEF ReadFile, Where
    <3>2. blk \in Blocks
      BY <2>0, <3>1 DEF Counted, Restoring
    <3>3. Where' \in {"send data", "end"}
      BY <2>7 DEF ReadFile, Goto, Fail, Where
    <3>4. buf' \in Seq(Data)
      BY <2>7, <3>2, PartData DEF ReadFile
    <3>5. Counted("send data", blk)
      BY <3>2 DEF Counted, Restoring
    <3> QED
      BY <2>9, <2>10, <3>1, <3>3, <3>4, <3>5
  <2>8. CASE WriteBlock
    <3>1. Where = "put block" /\ UNCHANGED buf
      BY <2>8 DEF WriteBlock, Where
    <3>2. blk \in Blocks
      BY <2>0, <3>1 DEF Counted, Restoring
    <3>3. \/ Where' = "read file" /\ blk' = blk + 1 /\ blk < NBlocks
          \/ Where' = "end"
      BY <2>8 DEF WriteBlock, Goto, Where
    <3>4. Counted(Where', blk')
      BY <1>0, <2>10, <3>2, <3>3 DEF Counted, Restoring
    <3> QED
      BY <2>0, <2>9, <3>1, <3>4
  <2>11. ~(\/ RecvData \/ RecvSum \/ ReadBlock \/ ReadInfo \/ Disconnect
           \/ \E c \in {"backup", "restore"} : Start(c))
    BY <1>3, <2>0 DEF RecvData, RecvSum, ReadBlock, ReadInfo, Disconnect, Start, Where, Restoring
  <2> QED
    BY <2>1, <2>2, <2>3, <2>4, <2>5, <2>6, <2>7, <2>8, <2>11 DEF Steps, Program, LinkNext
<1> QED
  BY <1>1, <1>2, <1>3

-----------------------------------------------------------------------------
(* What a backup has in its file while the blocks come, and afterwards.    *)
FirstBlocks(f, n) == Len(f) = n * BlkLen /\ \A k \in 0 .. n - 1 : Chunk(f, k) \in DbBlocks
AllBlocks(f) == Len(f) >= Size /\ \A k \in Blocks : Chunk(f, k) \in DbBlocks

LEMMA FirstKept ==
  ASSUME LineInv, FileInv, blk \in Blocks, FirstBlocks(file, blk), buf \in DbBlocks,
         NEW x, x = file \o buf
  PROVE  FirstBlocks(x, blk + 1) /\ (blk = NBlocks => AllBlocks(x))
<1>1. /\ file \in Seq(AnyByte) /\ buf \in Seq(AnyByte) /\ Len(buf) = BlkLen
      /\ Blocks = 0 .. NBlocks /\ NBlocks \in Nat /\ BlkLen \in Nat /\ blk \in Nat
  BY BlockSeq, Facts DEF FileInv
<1>2. Len(x) = Len(file) + BlkLen /\ (blk + 1) * BlkLen = blk * BlkLen + BlkLen
  <2>1. Len(x) = Len(file) + Len(buf)
    BY <1>1, ConcatProperties
  <2>2. (blk + 1) * BlkLen = blk * BlkLen + BlkLen
    BY <1>1
  <2> QED
    BY <1>1, <2>1, <2>2
<1>3. Chunk(x, blk) = buf
  BY <1>1, ChunkAdded DEF FirstBlocks
<1>4. ASSUME NEW k \in 0 .. blk - 1 PROVE Chunk(x, k) = Chunk(file, k)
  <2>1. k \in Blocks /\ k \in Nat /\ k < blk
    BY <1>1
  <2>2. k * BlkLen + BlkLen <= Len(file)
    BY <1>1, <2>1, Times DEF FirstBlocks
  <2> QED
    BY <1>1, <2>1, <2>2, ChunkKept
<1>5. ASSUME NEW k \in 0 .. blk PROVE Chunk(x, k) \in DbBlocks
  <2>1. k = blk \/ k \in 0 .. blk - 1
    BY <1>1
  <2> QED
    BY <1>3, <1>4, <2>1 DEF FirstBlocks
<1>6. (blk + 1) - 1 = blk /\ Len(x) = (blk + 1) * BlkLen
  BY <1>1, <1>2 DEF FirstBlocks
<1>7. blk = NBlocks => AllBlocks(x)
  <2>1. Size \in Nat /\ (blk = NBlocks => Len(x) = Size)
    BY <1>6, SizeOf DEF Size
  <2> QED
    BY <1>1, <1>5, <2>1 DEF AllBlocks
<1> QED
  BY <1>5, <1>6, <1>7 DEF FirstBlocks

LEMMA AllKept ==
  ASSUME LineInv, FileInv, AllBlocks(file), NEW x \in Seq(AnyByte) PROVE AllBlocks(file \o x)
<1>1. file \in Seq(AnyByte) /\ Len(file) \in Nat /\ Len(x) \in Nat /\ Size \in Nat
  BY LenProperties, SizeOf DEF FileInv
<1>2. Len(file \o x) = Len(file) + Len(x)
  BY <1>1, ConcatProperties
<1>3. ASSUME NEW k \in Blocks PROVE Chunk(file \o x, k) \in DbBlocks
  <2>1. k * BlkLen \in Nat /\ k * BlkLen + BlkLen <= Size /\ BlkLen \in Nat
    BY SizeOf, Facts
  <2>2. k * BlkLen + BlkLen <= Len(file)
    BY <1>1, <2>1 DEF AllBlocks
  <2> QED
    BY <1>1, <2>2, ChunkKept DEF AllBlocks
<1> QED
  BY <1>1, <1>2, <1>3 DEF AllBlocks

(* As long as no sum has agreed by chance, a block is acknowledged when    *)
(* the two bytes read are the sum of it.                                   *)
LEMMA SumCompared ==
  ASSUME NEW ok, NEW got, Unseen(ok, got), ~unseen', ok PROVE got = chksum(buf)
BY DEF Unseen

LEMMA SumOfReceived ==
  ASSUME RecvSum, ~unseen'
  PROVE  \E r \in com_recv(2) :
           /\ Taken(r)
           /\ \/ Xmit("OK", "recv data", "got block") /\ r.got = chksum(buf)
              \/ Xmit("chksum", "recv data", "got block")
<1>1. PICK r \in com_recv(2) :
        /\ Taken(r)
        /\ \E ok \in IF Len(buf) = BlkLen /\ Len(r.got) = 2
                     THEN SumAgrees(buf, r.got) ELSE {FALSE} :
             /\ Unseen(ok, r.got)
             /\ Xmit(IF ok THEN "OK" ELSE "chksum", "recv data", "got block")
  BY DEF RecvSum
<1>2. PICK ok \in IF Len(buf) = BlkLen /\ Len(r.got) = 2
                  THEN SumAgrees(buf, r.got) ELSE {FALSE} :
        /\ Unseen(ok, r.got)
        /\ Xmit(IF ok THEN "OK" ELSE "chksum", "recv data", "got block")
  BY <1>1
<1>3. CASE ok
  BY <1>1, <1>2, <1>3, SumCompared
<1>4. CASE ~ok
  BY <1>1, <1>2, <1>4
<1> QED
  BY <1>3, <1>4

LEMMA SumOfSent ==
  ASSUME CheckSum, ~unseen'
  PROVE  \E r \in com_recv(2) :
           /\ Taken(r)
           /\ \/ Xmit("OK", "send data", "put block") /\ r.got = chksum(buf)
              \/ Xmit("chksum", "send data", "put block") /\ Len(r.got) = 2
              \/ Xmit("recv", "send data", "put block")
<1>1. PICK r \in com_recv(2) :
        /\ Taken(r)
        /\ \/ /\ Len(r.got) = 2
              /\ \E ok \in SumAgrees(buf, r.got) :
                   /\ Unseen(ok, r.got)
                   /\ Xmit(IF ok THEN "OK" ELSE "chksum", "send data", "put block")
           \/ Xmit("recv", "send data", "put block")
  BY DEF CheckSum
<1>2. CASE Xmit("recv", "send data", "put block")
  BY <1>1, <1>2
<1>3. CASE /\ Len(r.got) = 2
           /\ \E ok \in SumAgrees(buf, r.got) :
                /\ Unseen(ok, r.got)
                /\ Xmit(IF ok THEN "OK" ELSE "chksum", "send data", "put block")
  <2>1. PICK ok \in SumAgrees(buf, r.got) :
          /\ Unseen(ok, r.got)
          /\ Xmit(IF ok THEN "OK" ELSE "chksum", "send data", "put block")
    BY <1>3
  <2>2. CASE ok
    BY <1>1, <2>1, <2>2, SumCompared
  <2>3. CASE ~ok
    BY <1>1, <1>3, <2>1, <2>3
  <2> QED
    BY <2>2, <2>3
<1> QED
  BY <1>1, <1>2, <1>3

(* Once a sum has agreed by chance, that is remembered.                    *)
LEMMA UnseenStays == ASSUME [Steps]_vars, ~unseen' PROVE ~unseen
<1>1. CASE RecvSum \/ CheckSum
  BY <1>1 DEF RecvSum, CheckSum, Unseen
<1>2. ASSUME NEW c \in {"backup", "restore"}, Start(c) PROVE ~unseen
  BY <1>2 DEF Start
<1>3. CASE SendByte \/ GetByte \/ RecvData \/ SendData
  BY <1>3 DEF SendByte, GetByte, RecvData, SendData, Send, counts
<1>4. CASE \/ ReadBlock \/ GetInfo \/ ReadInfo \/ CompareInfo \/ RestInit \/ RestData
           \/ ReadFile \/ WriteBlock \/ Disconnect
  BY <1>4 DEF ReadBlock, GetInfo, ReadInfo, CompareInfo, RestInit, RestData, ReadFile,
     WriteBlock, Disconnect, counts
<1>5. CASE IcStep \/ LineFault \/ UNCHANGED vars
  BY <1>5 DEF IcStep, LineFault, vars, counts
<1> QED
  BY <1>1, <1>2, <1>3, <1>4, <1>5 DEF Steps, Program, LinkNext

(* While nothing has gone wrong unseen, fclose() has not failed.           *)
LEMMA NothingUnseen == ASSUME [Next]_vars, ~unseen' PROVE [Steps]_vars /\ ~unseen
<1>1. ~CloseFails
  BY DEF CloseFails
<1>2. [Steps]_vars
  BY <1>1 DEF Next
<1> QED
  BY <1>2, UnseenStays

(* A received block that its checksum matches is one of the database.      *)
LEMMA SumOfBlock ==
  ASSUME LineInv, AskedInv, cmd = "backup", NEW r \in com_recv(2), r.got = chksum(buf)
  PROVE  buf \in DbBlocks
<1>1. r.got \in Seq(Data \cup Sums(DbBlocks))
  <2> DEFINE S == Data \cup Sums(DbBlocks)
  <2>1. toPc \in Seq(S)
    BY DEF AskedInv
  <2> HIDE DEF S
  <2>2. r.got \in Seq(S)
    BY <2>1, Received
  <2> QED
    BY <2>2 DEF S
<1>2. r.got = <<<<"sum", buf, 1>>, <<"sum", buf, 2>>>>
  BY DEF chksum
<1>3. r.got[1] = <<"sum", buf, 1>> /\ Len(r.got) = 2
  BY <1>2
<1>4. <<"sum", buf, 1>> \in Data \cup Sums(DbBlocks)
  <2> DEFINE S == Data \cup Sums(DbBlocks)
             g == r.got
  <2>1. g \in Seq(S) /\ Len(g) = 2 /\ g[1] = <<"sum", buf, 1>>
    BY <1>1, <1>3
  <2> HIDE DEF S, g
  <2>2. g[1] \in S
    BY <2>1, ElementOfSeq
  <2> QED
    BY <2>1, <2>2 DEF S
<1>5. <<"sum", buf, 1>> \notin Data
  BY DEF Data, Tags
<1> QED
  BY <1>4, <1>5 DEF Sums

Held(place, f, b, k, rc) ==
  /\ place \in Reading => k \in Blocks /\ FirstBlocks(f, k)
  /\ place = "got block" => b \in DbBlocks
  /\ place \in {"info", "get info"} \/ (place = "end" /\ rc = "OK") => AllBlocks(f)

LEMMA BlocksHold == BlocksInv <=> (cmd = "backup" => Held(Where, file, buf, blk, rval))
BY DEF BlocksInv, Held, FirstBlocks, AllBlocks

LEMMA BlocksHold2 ==
  ASSUME DbBlocks' = DbBlocks, Held(Where', file', buf', blk', rval') PROVE BlocksInv'
BY DEF BlocksInv, Held, FirstBlocks, AllBlocks, Chunk

LEMMA FailedHolds == \A f, b, k : Held("end", f, b, k, "ERR")
BY DEF Held, Reading

LEMMA DbKept ==
  ASSUME LineInv, AskedInv, CallInv, cmd = "backup", [Steps]_vars PROVE DbBlocks' = DbBlocks
<1>1. UNCHANGED db
  <2>1. CASE IcStep
    BY <2>1, IcAsked
  <2>2. CASE ~IcStep
    BY <2>2, BackupSteps DEF SendByte, GetByte, RecvData, RecvSum, ReadBlock, GetInfo,
       ReadInfo, Disconnect, LineFault, vars, ic35
  <2> QED
    BY <2>1, <2>2
<1> QED
  BY <1>1 DEF DbBlocks

LEMMA BlocksStep ==
  ASSUME LineInv, AskedInv, CallInv, FileInv, BlocksInv, [Steps]_vars, ~unseen'
  PROVE  BlocksInv'
<1>0. /\ NBlocks \in Nat /\ Blocks = 0 .. NBlocks
      /\ 0 \in Blocks /\ \A k \in Blocks : k < NBlocks => k + 1 \in Blocks
  BY Facts
<1>1. CASE cmd' # "backup"
  BY <1>1 DEF BlocksInv
<1>2. CASE cmd # "backup" /\ cmd' = "backup"
  <2>1. Start("backup")
    BY <1>2, BackupStarts
  <2>2. file' = <<>> /\ blk' = 0 /\ pc' = "send byte" /\ call'.then = "recv data" /\ UNCHANGED db
    <3>1. /\ file' = <<>> /\ blk' = 0 /\ pc' = "send byte" /\ UNCHANGED db
          /\ call' = [cmd |-> "backup", rsp |-> "gotcmd", tries |-> 0, then |-> "recv data"]
      BY <2>1 DEF Start, ic35
    <3> QED
      BY <3>1
  <2>3. Where' = "recv data" /\ DbBlocks' = DbBlocks
    BY <2>2 DEF Where, DbBlocks
  <2>4. FirstBlocks(<<>>, 0)
    <3>1. 0 * BlkLen = 0 /\ Len(<<>>) = 0 /\ 0 .. 0 - 1 = {}
      BY Facts, EmptySeq
    <3> QED
      BY <3>1 DEF FirstBlocks
  <2>5. Held("recv data", <<>>, buf', 0, rval')
    BY <1>0, <2>4 DEF Held, Reading
  <2> QED
    BY <2>2, <2>3, <2>5, BlocksHold2
<1>3. CASE cmd = "backup" /\ cmd' = "backup"
  <2>0. Held(Where, file, buf, blk, rval) /\ DbBlocks' = DbBlocks
    BY <1>3, BlocksHold, DbKept
  <2>1. CASE SendByte \/ IcStep \/ LineFault \/ UNCHANGED vars
    BY <2>0, <2>1, QuietStep, BlocksHold2
  <2>2. CASE GetByte
    BY <2>0, <2>2, GetByteGoes, FailedHolds, BlocksHold2
  <2>3. CASE RecvData
    <3>1. Where = "recv data" /\ UNCHANGED <<blk, file>>
      BY <2>3 DEF RecvData, Where
    <3>2. Where' = "recv sum" \/ (Where' = "end" /\ rval' = "ERR")
      <4>1. Goto("recv sum") \/ Xmit("recv", "recv data", "got block")
        BY <2>3 DEF RecvData
      <4>2. Goto("recv sum") \/ Fail
        BY <4>1 DEF Xmit
      <4> QED
        BY <4>2 DEF Goto, Fail, Where
    <3>3. Held("recv sum", file, buf', blk, rval')
      BY <2>0, <3>1 DEF Held, Reading
    <3> QED
      BY <2>0, <3>1, <3>2, <3>3, FailedHolds, BlocksHold2
  <2>4. CASE RecvSum
    <3>1. Where = "recv sum" /\ UNCHANGED <<blk, buf, file>>
      BY <2>4 DEF RecvSum, Where
    <3>2. PICK r \in com_recv(2) :
             \/ Xmit("OK", "recv data", "got block") /\ r.got = chksum(buf)
             \/ Xmit("chksum", "recv data", "got block")
      BY <2>4, SumOfReceived
    <3>3. \/ Where' = "recv data"
          \/ Where' = "got block" /\ r.got = chksum(buf)
          \/ Where' = "end" /\ rval' = "ERR"
      <4>1. \/ Mcmdrsp("nak", "gotack", "recv data")
            \/ Mcmdrsp("ack", "gotack", "got block") /\ r.got = chksum(buf)
            \/ Fail
        BY <3>2 DEF Xmit
      <4>2. CASE Mcmdrsp("nak", "gotack", "recv data")
        <5>1. Where' = "recv data"
          BY <4>2 DEF Mcmdrsp, Where
        <5> QED
          BY <5>1
      <4>3. CASE Mcmdrsp("ack", "gotack", "got block") /\ r.got = chksum(buf)
        <5>1. Where' = "got block"
          BY <4>3 DEF Mcmdrsp, Where
        <5> QED
          BY <4>3, <5>1
      <4>4. CASE Fail
        BY <4>4 DEF Fail, Where
      <4> QED
        BY <4>1, <4>2, <4>3, <4>4
    <3>4. Held("recv data", file, buf, blk, rval')
      BY <2>0, <3>1 DEF Held, Reading
    <3>5. r.got = chksum(buf) => Held("got block", file, buf, blk, rval')
      BY <1>3, <2>0, <3>1, SumOfBlock DEF Held, Reading
    <3> QED
      BY <2>0, <3>1, <3>3, <3>4, <3>5, FailedHolds, BlocksHold2
  <2>5. CASE ReadBlock
    <3>1. Where = "got block" /\ UNCHANGED buf
      BY <2>5 DEF ReadBlock, Where
    <3>2. blk \in Blocks /\ FirstBlocks(file, blk) /\ buf \in DbBlocks
      BY <2>0, <3>1 DEF Held, Reading
    <3>3. \/ Where' = "end" /\ rval' = "ERR"
          \/ /\ file' = file \o buf
             /\ \/ blk < NBlocks /\ blk' = blk + 1 /\ Where' = "recv data"
                \/ ~(blk < NBlocks) /\ blk' = 0 /\ Where' = "info"
      BY <2>5 DEF ReadBlock, Written, Goto, Fail, Where
    <3>4. CASE file' = file \o buf /\ blk < NBlocks /\ blk' = blk + 1 /\ Where' = "recv data"
      <4>1. FirstBlocks(file', blk + 1) /\ blk + 1 \in Blocks
        BY <1>0, <3>2, <3>4, FirstKept
      <4>2. Held("recv data", file', buf', blk + 1, rval')
        BY <4>1 DEF Held, Reading
      <4> QED
        BY <2>0, <3>4, <4>2, BlocksHold2
    <3>5. CASE file' = file \o buf /\ ~(blk < NBlocks) /\ blk' = 0 /\ Where' = "info"
      <4>1. blk = NBlocks
        BY <1>0, <3>2, <3>5
      <4>2. AllBlocks(file')
        BY <3>2, <3>5, <4>1, FirstKept
      <4>3. Held("info", file', buf', 0, rval')
        BY <4>2 DEF Held, Reading
      <4> QED
        BY <2>0, <3>5, <4>3, BlocksHold2
    <3> QED
      BY <2>0, <3>3, <3>4, <3>5, FailedHolds, BlocksHold2
  <2>6. CASE GetInfo
    <3>1. Where = "info" /\ Where' = "get info" /\ UNCHANGED <<file, rval>>
      BY <2>6 DEF GetInfo, Mcmdrsp, local, Where
    <3>2. Held("get info", file', buf', blk', rval')
      BY <2>0, <3>1 DEF Held, Reading
    <3> QED
      BY <2>0, <3>1, <3>2, BlocksHold2
  <2>7. CASE ReadInfo
    <3>1. Where = "get info" /\ AllBlocks(file)
      <4>1. Where = "get info"
        BY <2>7 DEF ReadInfo, Where
      <4> QED
        BY <2>0, <4>1 DEF Held
    <3>2. PICK r \in com_recv(1) :
             IF r.got = <<>> THEN Fail /\ UNCHANGED <<blk, tries, file, faults>>
             ELSE Written(r.got, /\ blk' = blk + 1 /\ UNCHANGED tries
                                 /\ Goto(IF blk = 0 THEN "info" ELSE "end"))
      BY <2>7 DEF ReadInfo
    <3>3. \/ Where' = "end" /\ rval' = "ERR"
          \/ Where' \in {"info", "end"} /\ file' = file \o r.got
      BY <3>2 DEF Written, Goto, Fail, Where
    <3>4. r.got \in Seq(AnyByte)
      BY LineReceives
    <3>5. file' = file \o r.got => AllBlocks(file')
      BY <3>1, <3>4, AllKept
    <3>6. file' = file \o r.got =>
            Held("info", file', buf', blk', rval') /\ Held("end", file', buf', blk', rval')
      BY <3>5 DEF Held, Reading
    <3> QED
      BY <2>0, <3>3, <3>6, FailedHolds, BlocksHold2
  <2>8. CASE Disconnect
    BY <1>3, <2>8 DEF Disconnect
  <2> QED
    BY <1>3, <2>1, <2>2, <2>3, <2>4, <2>5, <2>6, <2>7, <2>8, BackupSteps
<1> QED
  BY <1>1, <1>2, <1>3

Inv == LineInv /\ AskedInv /\ CallInv /\ FileInv /\ RestoreInv /\ BlocksInv

LEMMA Inductive == Spec => [](~unseen => Inv)
<1>1. Init => Inv
  BY LineInit, CallInit, FileInit DEF Init, AskedInv, Inv
<1>2. ASSUME Inv, [Steps]_vars, ~unseen' PROVE Inv'
  BY <1>2, LineStep, AskedStep, CallStep, FileStep, RestoreStep, BlocksStep DEF Inv
<1>3. (~unseen => Inv) /\ [Next]_vars => (~unseen => Inv)'
  BY <1>2, NothingUnseen
<1> QED
  BY <1>1, <1>3, PTL DEF Spec

(* Unless a sum has agreed by chance, or fclose() lost what was buffered,  *)
(* a backup that reports success has at the place of each block a whole    *)
(* block of the IC35, whatever else the line, the clock and the disk did   *)
(* while readdatabase() of mgrtrans.c was at work: what one try leaves on  *)
(* the line does not pass for the next.                                    *)
THEOREM GenuineBlocks == Spec => []BackupGenuine
<1>1. (~unseen => Inv) => BackupGenuine
  BY DEF Inv, BlocksInv, BackupGenuine, Succeeded, Where, DbBlocks
<1> QED
  BY <1>1, Inductive, PTL
-----------------------------------------------------------------------------
(* The rest is about a line that may lose and garble as much as it likes,  *)
(* as long as the one-byte answers arrive, and arrive in time: commands,   *)
(* acknowledges of the program, blocks and checksums may suffer, fwrite    *)
(* may fail.                                                               *)
Answers == {Byte("gotcmd"), Byte("gotdata"), Byte("gotack")}

AnswersKept ==
  /\ UNCHANGED lates
  /\ LineFault /\ toPc # <<>> /\ Head(toPc) \in Answers =>
       toPc' # <<>> /\ Head(toPc') = Head(toPc)

(* The program and the IC35 are then always in step: at each place in the  *)
(* command the IC35 is where the program takes it to be, and s is all that *)
(* can be on the line.                                                     *)
Of(k)          == Data \cup Sums({db[k]})
Sending(k, s)  == mode = "send" /\ iblk = k /\ s \in Seq(Of(k)) /\ Len(s) <= BlkLen + 2
Idle(s)        == mode = "idle" /\ s = <<>>
Awaiting(k, s) == mode = "recv" /\ iblk = k /\ ibuf = <<>> /\ s = <<>>
Copied(n)      == \A k \in 0 .. n - 1 : Chunk(file, k) = db[k]
HasBlock       == buf = Chunk(file, blk) /\ Len(buf) = BlkLen

At(place, s) ==
  /\ place # "check sum"
  /\ place = "recv data" => Sending(blk, s)
  /\ place = "recv sum"  => Sending(blk, s) /\ Len(s) <= 2
  /\ place = "got block" => /\ buf = db[blk]
                            /\ IF blk < NBlocks THEN Sending(blk + 1, s) ELSE Idle(s)
  /\ place \in {"info", "restinit"} => Idle(s)
  /\ place = "get info"  => mode = "idle" /\ Len(s) <= 1
  /\ place = "restdata"  => mode = "rest" /\ s = <<>>
  /\ place = "read file" => Awaiting(blk, s) /\ Copied(blk)
  /\ place = "send data" => Awaiting(blk, s) /\ Copied(blk) /\ HasBlock
  /\ place = "put block" => /\ Copied(blk + 1)
                            /\ IF blk < NBlocks THEN Awaiting(blk + 1, s) ELSE Idle(s)

(* While it sends a block, the IC35 takes it, or has it and has answered.  *)
Checking ==
  /\ iblk = blk /\ Copied(blk) /\ HasBlock
  /\ \/ mode = "recv" /\ toPc = <<>> /\ Len(ibuf) + Len(toIc) <= BlkLen
     \/ mode = "ack" /\ toIc = <<>> /\ Len(toPc) <= 2 /\ toPc \in Seq(Data \cup Sums({ibuf}))

(* What Mcmdrsp() may be asking for, and the IC35 that has not heard it.   *)
Asks(c, r, t) == call.cmd = c /\ call.rsp = r /\ call.then = t
Asking ==
  \/ Asks("backup", "gotcmd", "recv data") /\ mode = "idle" /\ blk = 0
  \/ Asks("nak", "gotack", "recv data") /\ mode = "send" /\ iblk = blk
  \/ Asks("ack", "gotack", "got block") /\ mode = "send" /\ iblk = blk /\ buf = db[blk]
  \/ Asks("info", "gotcmd", "get info") /\ mode = "idle"
  \/ Asks("restinit", "gotcmd", "restdata") /\ mode = "idle"
  \/ Asks("restdata", "gotdata", "read file") /\ mode = "rest" /\ blk = 0
  \/ /\ Asks("nak", "gotack", "send data") /\ mode = "ack" /\ iblk = blk
     /\ Copied(blk) /\ HasBlock
  \/ /\ Asks("ack", "gotack", "put block") /\ mode = "ack" /\ iblk = blk
     /\ Copied(blk) /\ HasBlock /\ ibuf = buf

Unheard  == toPc = <<>> /\ toIc \in {<<>>, <<Byte(call.cmd)>>, <<Bad>>} /\ Asking
Answered == /\ toIc = <<>> /\ toPc # <<>> /\ call.rsp \in {"gotcmd", "gotdata", "gotack"}
            /\ Head(toPc) = Byte(call.rsp) /\ At(call.then, Tail(toPc))

InStep ==
  /\ lates \in Nat
  /\ pc = "send byte" => Unheard /\ toIc = <<>>
  /\ pc = "get byte"  => Unheard \/ Answered
  /\ pc = "check sum" => Checking
  /\ pc \notin {"send byte", "get byte", "check sum"} => toIc = <<>> /\ At(pc, toPc)

-----------------------------------------------------------------------------
LEMMA OneMore ==
  ASSUME NEW S, NEW x \in S, NEW t \in Seq(S)
  PROVE  /\ <<x>> \o t \in Seq(S) /\ Len(<<x>> \o t) = 1 + Len(t) /\ <<x>> \o t # <<>>
         /\ Head(<<x>> \o t) = x /\ Tail(<<x>> \o t) = t
<1>1. <<x>> \in Seq(S) /\ Len(<<x>>) = 1 /\ <<x>>[1] = x /\ Len(t) \in Nat
  BY LenProperties
<1> DEFINE s == <<x>> \o t
<1>2. /\ s \in Seq(S) /\ Len(s) = 1 + Len(t)
      /\ \A i \in 1 .. Len(<<x>>) + Len(t) :
           s[i] = IF i <= Len(<<x>>) THEN <<x>>[i] ELSE t[i - Len(<<x>>)]
  BY <1>1, ConcatProperties
<1>3. s[1] = x /\ \A i \in 1 .. Len(t) : s[i + 1] = t[i]
  <2>1. 1 \in 1 .. Len(<<x>>) + Len(t)
    BY <1>1
  <2>2. ASSUME NEW i \in 1 .. Len(t) PROVE s[i + 1] = t[i]
    <3>1. i + 1 \in 1 .. Len(<<x>>) + Len(t) /\ ~(i + 1 <= Len(<<x>>)) /\ (i + 1) - Len(<<x>>) = i
      BY <1>1
    <3> QED
      BY <1>2, <3>1
  <2> QED
    BY <1>1, <1>2, <2>1, <2>2
<1> HIDE DEF s
<1>4. s # <<>>
  BY <1>1, <1>2
<1>5. Head(s) = s[1] /\ Tail(s) \in Seq(S) /\ Len(Tail(s)) = Len(s) - 1
      /\ \A i \in 1 .. Len(Tail(s)) : Tail(s)[i] = s[i + 1]
  BY <1>2, <1>4, HeadTailProperties
<1>6. Tail(s) = t
  <2> DEFINE u == Tail(s)
  <2>1. u \in Seq(S) /\ Len(u) = Len(t) /\ \A i \in 1 .. Len(t) : u[i] = t[i]
    BY <1>1, <1>2, <1>3, <1>5
  <2> HIDE DEF u
  <2>2. u = t
    BY <2>1, SeqEqual
  <2> QED
    BY <2>2 DEF u
<1> QED
  BY <1>2, <1>3, <1>4, <1>5, <1>6 DEF s

LEMMA Parted ==
  ASSUME NEW S, NEW s \in Seq(S), s # <<>> PROVE s = <<Head(s)>> \o Tail(s)
<1> DEFINE h == Head(s)
           t == Tail(s)
<1>1. h \in S /\ t \in Seq(S) /\ Len(t) = Len(s) - 1 /\ h = s[1]
      /\ \A i \in 1 .. Len(t) : t[i] = s[i + 1]
  BY HeadTailProperties
<1>2. <<h>> \in Seq(S) /\ Len(<<h>>) = 1 /\ <<h>>[1] = h /\ Len(t) \in Nat /\ Len(s) \in Nat
  BY <1>1, LenProperties
<1> HIDE DEF h, t
<1> DEFINE u == <<h>> \o t
<1>3. /\ u \in Seq(S) /\ Len(u) = 1 + Len(t)
      /\ \A i \in 1 .. Len(<<h>>) + Len(t) :
           u[i] = IF i <= Len(<<h>>) THEN <<h>>[i] ELSE t[i - Len(<<h>>)]
  BY <1>1, <1>2, ConcatProperties
<1>4. ASSUME NEW i \in 1 .. Len(s) PROVE u[i] = s[i]
  <2>1. CASE i = 1
    BY <1>1, <1>2, <1>3, <2>1
  <2>2. CASE i # 1
    <3>1. i - 1 \in 1 .. Len(t) /\ ~(i <= Len(<<h>>)) /\ i - Len(<<h>>) = i - 1 /\ (i - 1) + 1 = i
      BY <1>1, <1>2, <2>2
    <3>2. i \in 1 .. Len(<<h>>) + Len(t)
      BY <1>1, <1>2
    <3> QED
      BY <1>1, <1>3, <3>1, <3>2
  <2> QED
    BY <2>1, <2>2
<1>5. Len(u) = Len(s)
  BY <1>1, <1>2, <1>3
<1> HIDE DEF u
<1>6. u = s
  BY <1>3, <1>4, <1>5, SeqEqual
<1> QED
  BY <1>6 DEF u, h, t

(* What com_recv(n) gives when nothing is late.                            *)
LEMMA Takes ==
  ASSUME NEW S, toPc \in Seq(S), NEW n \in Nat, NEW r \in com_recv(n), r.late = 0
  PROVE  /\ Len(toPc) < n => toIc = <<>>
         /\ r.got \in Seq(S)
         /\ SubSeq(toPc, Len(r.got) + 1, Len(toPc)) \in Seq(S)
         /\ Len(toPc) <= n => /\ r.got = toPc
                              /\ SubSeq(toPc, Len(r.got) + 1, Len(toPc)) = <<>>
         /\ Len(toPc) > n => /\ Len(r.got) = n
                             /\ Len(SubSeq(toPc, Len(r.got) + 1, Len(toPc))) = Len(toPc) - n
<1>1. /\ r.got = Part(toPc, 0, n)
      /\ Len(toPc) < n => toIc = <<>>
  BY DEF com_recv, Late
<1>2. r.got \in Seq(S) /\ SubSeq(toPc, Len(r.got) + 1, Len(toPc)) \in Seq(S)
  BY Received
<1>3. Len(toPc) \in Nat
  BY LenProperties
<1>4. ASSUME Len(toPc) <= n PROVE r.got = toPc /\ SubSeq(toPc, Len(r.got) + 1, Len(toPc)) = <<>>
  <2>1. r.got = SubSeq(toPc, 1, Len(toPc))
    <3>1. (IF 0 + n < Len(toPc) THEN 0 + n ELSE Len(toPc)) = Len(toPc) /\ 0 + 1 = 1
      BY <1>3, <1>4
    <3> QED
      BY <1>1, <3>1 DEF Part
  <2>2. r.got = toPc
    BY <2>1, SubSeqFull
  <2>3. SubSeq(toPc, Len(toPc) + 1, Len(toPc)) = <<>>
    BY <1>3, SubSeqEmpty
  <2> QED
    BY <2>2, <2>3
<1>5. ASSUME Len(toPc) > n
      PROVE  Len(r.got) = n /\ Len(SubSeq(toPc, Len(r.got) + 1, Len(toPc))) = Len(toPc) - n
  <2>1. 0 + n <= Len(toPc)
    BY <1>3, <1>5
  <2>2. Len(r.got) = n
    BY <1>1, <2>1, PartIn
  <2>3. \A i \in n + 1 .. Len(toPc) : toPc[i] \in S
    BY <1>3, ElementOfSeq
  <2>4. Len(SubSeq(toPc, n + 1, Len(toPc))) = Len(toPc) - (n + 1) + 1
    BY <1>3, <1>5, <2>3, SubSeqProperties
  <2> QED
    BY <1>3, <2>2, <2>4
<1> QED
  BY <1>1, <1>2, <1>4, <1>5

LEMMA TakesOne ==
  ASSUME NEW S, toPc \in Seq(S), toPc # <<>>, NEW r \in com_recv(1), r.late = 0
  PROVE  /\ r.got = <<Head(toPc)>>
         /\ SubSeq(toPc, Len(r.got) + 1, Len(toPc)) = Tail(toPc)
<1> DEFINE h == Head(toPc)
           t == Tail(toPc)
<1>1. h \in S /\ t \in Seq(S) /\ toPc = <<h>> \o t /\ Len(toPc) \in Nat /\ Len(toPc) > 0
      /\ Len(t) = Len(toPc) - 1 /\ h = toPc[1]
  BY HeadTailProperties, Parted, LenProperties, EmptySeq
<1>2. r.got = Part(toPc, 0, 1)
  BY DEF com_recv, Late
<1> HIDE DEF h, t
<1>3. /\ r.got \in Seq(S) /\ Len(r.got) = 1 /\ r.got[1] = toPc[1]
  <2>1. 0 + 1 <= Len(toPc) /\ 0 \in Nat /\ 1 \in Nat /\ 1 > 0
    BY <1>1
  <2> DEFINE p == Part(toPc, 0, 1)
  <2>2. p \in Seq(S) /\ Len(p) = 1 /\ \A i \in 1 .. Len(p) : p[i] = toPc[0 + i]
    <3>0. \A k, n \in Nat :
            /\ Part(toPc, k, n) \in Seq(S)
            /\ k + n <= Len(toPc) => Len(Part(toPc, k, n)) = n
            /\ \A i \in 1 .. Len(Part(toPc, k, n)) : Part(toPc, k, n)[i] = toPc[k + i]
      BY PartIn
    <3>1. /\ p \in Seq(S)
          /\ 0 + 1 <= Len(toPc) => Len(p) = 1
          /\ \A i \in 1 .. Len(p) : p[i] = toPc[0 + i]
      BY <2>1, <3>0, Zenon
    <3> HIDE DEF p
    <3> QED
      BY <2>1, <3>1
  <2> HIDE DEF p
  <2>3. p[1] = toPc[1]
    BY <2>2
  <2>4. r.got = p
    BY <1>2 DEF p
  <2> QED
    BY <2>2, <2>3, <2>4, Zenon
<1>4. r.got = <<h>>
  <2>1. \A g \in Seq(S) : Len(g) = 1 /\ g[1] = h => g = <<h>>
    <3> TAKE g \in Seq(S)
    <3> HAVE Len(g) = 1 /\ g[1] = h
    <3>1. <<h>> \in Seq(S) /\ Len(<<h>>) = 1 /\ <<h>>[1] = h
      BY <1>1
    <3>2. \A i \in 1 .. Len(g) : g[i] = <<h>>[i]
      BY <3>1
    <3> QED
      BY <3>1, <3>2, SeqEqual
  <2> QED
    BY <1>1, <1>3, <2>1
<1>5. SubSeq(toPc, Len(r.got) + 1, Len(toPc)) = t
  <2> DEFINE n == Len(r.got)
  <2>1. n = 1
    BY <1>3
  <2> HIDE DEF n
  <2>2. n + 1 = 2
    BY <2>1
  <2>3. Tail(toPc) = SubSeq(toPc, 2, Len(toPc))
    BY TailIsSubSeq
  <2> QED
    BY <2>2, <2>3 DEF t, n
<1> QED
  BY <1>4, <1>5 DEF h, t
LEMMA SpoiltLess ==
  ASSUME NEW S, NEW s \in Seq(S), NEW t \in Spoilt(s) PROVE s # <<>> /\ Len(t) <= Len(s)
<1>1. PICK i \in DOMAIN s : t = RemoveAt(s, i) \/ t = [s EXCEPT ![i] = Bad]
  BY DEF Spoilt
<1>0. Len(s) \in Nat /\ i \in 1 .. Len(s)
  BY LenProperties
<1>2. CASE t = RemoveAt(s, i)
  <2> DEFINE u == SubSeq(s, 1, i - 1)
             v == SubSeq(s, i + 1, Len(s))
  <2>1. \A j \in 1 .. i - 1 : s[j] \in S
    BY <1>0, ElementOfSeq
  <2>2. \A j \in i + 1 .. Len(s) : s[j] \in S
    BY <1>0, ElementOfSeq
  <2>3. u \in Seq(S) /\ Len(u) = i - 1
    BY <1>0, <2>1, SubSeqProperties
  <2>4. v \in Seq(S) /\ Len(v) = Len(s) - i
    BY <1>0, <2>2, SubSeqProperties
  <2>5. t = u \o v
    BY <1>2 DEF RemoveAt
  <2> HIDE DEF u, v
  <2>6. Len(u \o v) = Len(u) + Len(v)
    BY <2>3, <2>4, ConcatProperties
  <2> QED
    BY <1>0, <2>3, <2>4, <2>5, <2>6, EmptySeq
<1>3. CASE t = [s EXCEPT ![i] = Bad]
  <2>1. Len(t) = Len(s)
    BY <1>0, <1>3
  <2> QED
    BY <1>0, <2>1, EmptySeq
<1> QED
  BY <1>1, <1>2, <1>3

LEMMA SpoiltOne == ASSUME NEW c \in Data, NEW t \in Spoilt(<<c>>) PROVE t \in {<<>>, <<Bad>>}
<1>1. PICK i \in DOMAIN <<c>> : t = RemoveAt(<<c>>, i) \/ t = [<<c>> EXCEPT ![i] = Bad]
  BY DEF Spoilt
<1>2. i = 1
  OBVIOUS
<1>3. CASE t = RemoveAt(<<c>>, 1)
  <2>1. t = SubSeq(<<c>>, 1, 0) \o SubSeq(<<c>>, 2, 1)
    BY <1>3 DEF RemoveAt
  <2>2. SubSeq(<<c>>, 1, 0) = <<>> /\ SubSeq(<<c>>, 2, 1) = <<>>
    BY SubSeqEmpty
  <2> QED
    BY <2>1, <2>2
<1>4. CASE t = [<<c>> EXCEPT ![1] = Bad]
  <2>1. t \in Seq(Data) /\ Len(t) = 1 /\ t[1] = Bad
    BY <1>4, Facts
  <2>2. <<Bad>> \in Seq(Data) /\ Len(<<Bad>>) = 1 /\ <<Bad>>[1] = Bad
    BY Facts
  <2>3. \A j \in 1 .. Len(t) : t[j] = <<Bad>>[j]
    BY <2>1, <2>2
  <2>4. t = <<Bad>>
    BY <2>1, <2>2, <2>3, SeqEqual
  <2> QED
    BY <2>4
<1> QED
  BY <1>1, <1>2, <1>3, <1>4

LEMMA NoneSpoilt == Spoilt(<<>>) = {}
  BY DEF Spoilt

(* What may be on the line may also be less of it.                         *)
Within(t, s) == \A k \in Blocks : s \in Seq(Of(k)) => t \in Seq(Of(k))

LEMMA AtWorse ==
  ASSUME NEW place, NEW s \in Seq(AnyByte), NEW t \in Seq(AnyByte), At(place, s),
         Len(t) <= Len(s), Within(t, s),
         place \in Reading => blk \in Blocks
  PROVE  At(place, t)
<1>1. s = <<>> => t = <<>>
  BY LenProperties, EmptySeq
<1>2. Len(s) \in Nat /\ Len(t) \in Nat /\ BlkLen \in Nat
  BY LenProperties, Facts
<1>3. ASSUME NEW k \in Blocks, Sending(k, s) PROVE Sending(k, t)
  <2>1. s \in Seq(Of(k)) /\ mode = "send" /\ iblk = k /\ Len(s) <= BlkLen + 2
    BY <1>3 DEF Sending
  <2>2. t \in Seq(Of(k))
    BY <2>1, Zenon DEF Within
  <2>3. Len(t) <= BlkLen + 2
    BY <1>2, <2>1
  <2> QED
    BY <2>1, <2>2, <2>3, Zenon DEF Sending
<1>4. blk \in Blocks /\ blk < NBlocks => blk + 1 \in Blocks
  BY Facts
<1>5. (Idle(s) => Idle(t)) /\ \A k : Awaiting(k, s) => Awaiting(k, t)
  BY <1>1 DEF Idle, Awaiting
<1>6. (Len(s) <= 2 => Len(t) <= 2) /\ (Len(s) <= 1 => Len(t) <= 1)
  BY <1>2
<1> QED
  BY <1>1, <1>3, <1>4, <1>5, <1>6 DEF At, Reading

(* A step of the program alone leaves the IC35 where it is.                *)
LEMMA AtSame ==
  ASSUME UNCHANGED <<ic35, blk, buf, file>>, At(pc', toPc') PROVE At(pc, toPc)'
BY DEF At, Sending, Idle, Awaiting, Copied, HasBlock, Of, ic35

LEMMA AnsweredSame ==
  ASSUME UNCHANGED <<ic35, blk, buf, file, call>>, toIc' = <<>>, toPc' # <<>>,
         call.rsp \in {"gotcmd", "gotdata", "gotack"},
         Head(toPc') = Byte(call.rsp), At(call.then, Tail(toPc'))
  PROVE  Answered'
BY DEF Answered, At, Sending, Idle, Awaiting, Copied, HasBlock, Of, ic35

LEMMA AskingSame ==
  ASSUME UNCHANGED <<ic35, blk, buf, file>>, Asking,
         call'.cmd = call.cmd, call'.rsp = call.rsp, call'.then = call.then
  PROVE  Asking'
BY DEF Asking, Asks, Copied, HasBlock, ic35

(* The place that the program is at belongs to a backup or to a restore.   *)
LEMMA Places ==
  ASSUME Inv, Where \in Reading PROVE cmd = "backup" /\ blk \in Blocks
<1>1. cmd = "backup"
  BY DEF Inv, LineInv, CallInv, Restoring, Reading, Where
<1> QED
  BY <1>1 DEF Inv, BlocksInv

LEMMA FaultInStep ==
  ASSUME Inv, InStep, LineFault, AnswersKept PROVE InStep'
<1>0. UNCHANGED <<pc, call, ic35, blk, buf, file>> /\ UNCHANGED lates
  BY DEF LineFault, AnswersKept, local
<1>1. toIc \in Seq(Data) /\ toPc \in Seq(AnyByte) /\ toIc' \in Seq(Data) /\ toPc' \in Seq(AnyByte)
  <2>1. toIc \in Seq(Data) /\ toPc \in Seq(AnyByte)
    BY DEF Inv, LineInv
  <2> QED
    BY <2>1, SpoiltIn, Facts DEF LineFault
<1>2. toIc' # toIc => toIc' \in Spoilt(toIc) /\ toPc' = toPc
  BY DEF LineFault
<1>3. toPc' # toPc => toPc' \in Spoilt(toPc) /\ toIc' = toIc
  BY DEF LineFault
<1>4. toIc = <<>> => toIc' = <<>> /\ toPc' \in Spoilt(toPc)
  BY NoneSpoilt DEF LineFault
<1>5. toPc = <<>> => toPc' = <<>> /\ toIc' \in Spoilt(toIc)
  BY NoneSpoilt DEF LineFault
<1>6. toPc' \in Spoilt(toPc) => Within(toPc', toPc)
  <2> SUFFICES ASSUME toPc' \in Spoilt(toPc), NEW k \in Blocks, toPc \in Seq(Of(k))
               PROVE  toPc' \in Seq(Of(k))
    BY DEF Within
  <2>1. Bad \in Of(k)
    BY Facts DEF Of
  <2> QED
    BY <2>1, SpoiltIn
<1>7. toPc' \in Spoilt(toPc) => Len(toPc') <= Len(toPc)
  BY <1>1, SpoiltLess
<1>8. CASE pc = "send byte"
  BY <1>4, <1>8, NoneSpoilt DEF InStep, Unheard
<1>9. CASE pc = "get byte" /\ Unheard
  <2>1. toPc' = <<>> /\ toIc' \in Spoilt(toIc) /\ Asking
    BY <1>5, <1>9 DEF Unheard
  <2>2. Byte(call.cmd) \in Data /\ Bad \in Data
    BY Facts DEF Inv, CallInv, Calls
  <2>3. toIc \in {<<>>, <<Byte(call.cmd)>>, <<Bad>>}
    BY <1>9 DEF Unheard
  <2>4. toIc' \in {<<>>, <<Bad>>}
    BY <2>1, <2>2, <2>3, SpoiltOne, NoneSpoilt
  <2>5. Asking'
    BY <1>0, <2>1, AskingSame
  <2>6. Unheard'
    BY <2>1, <2>4, <2>5 DEF Unheard
  <2> QED
    BY <1>0, <1>9, <2>6 DEF InStep
<1>10. CASE pc = "get byte" /\ Answered
  <2>1. toIc' = <<>> /\ toPc' \in Spoilt(toPc) /\ toPc # <<>>
    BY <1>4, <1>10 DEF Answered
  <2>2. Head(toPc) \in Answers /\ Head(toPc) = Byte(call.rsp)
    BY <1>10 DEF Answered, Answers
  <2>3. toPc' # <<>> /\ Head(toPc') = Byte(call.rsp)
    BY <2>1, <2>2 DEF AnswersKept
  <2> DEFINE s == Tail(toPc)
             t == Tail(toPc')
  <2>4. s \in Seq(AnyByte) /\ t \in Seq(AnyByte) /\ Len(s) = Len(toPc) - 1 /\ Len(t) = Len(toPc') - 1
    BY <1>1, <2>1, <2>3, HeadTailProperties
  <2>5. Len(t) <= Len(s)
    BY <1>1, <1>7, <2>1, <2>4, LenProperties
  <2>6. Within(t, s)
    <3> SUFFICES ASSUME NEW k \in Blocks, s \in Seq(Of(k)) PROVE t \in Seq(Of(k))
      BY DEF Within
    <3>1. Head(toPc) \in Of(k)
      BY <2>2, Facts DEF Answers, Of, Tags
    <3>2. toPc \in Seq(Of(k))
      <4>1. toPc = <<Head(toPc)>> \o s
        BY <1>1, <2>1, Parted
      <4> HIDE DEF s
      <4> QED
        BY <3>1, <4>1, OneMore
    <3>3. toPc' \in Seq(Of(k))
      BY <1>6, <2>1, <3>2 DEF Within
    <3> QED
      BY <2>3, <3>3, HeadTailProperties
  <2>7. call.rsp \in {"gotcmd", "gotdata", "gotack"} /\ At(call.then, s)
    BY <1>10 DEF Answered
  <2>8. Where = call.then
    BY <1>10 DEF Where
  <2> HIDE DEF s, t
  <2>9. At(call.then, t)
    BY <2>4, <2>5, <2>6, <2>7, <2>8, AtWorse, Places
  <2>10. Answered'
    BY <1>0, <2>1, <2>3, <2>7, <2>9, AnsweredSame DEF t
  <2> QED
    BY <1>0, <1>10, <2>10 DEF InStep
<1>11. CASE pc = "check sum"
  <2>1. Checking
    BY <1>11 DEF InStep
  <2>2. CASE mode = "recv" /\ toPc = <<>> /\ Len(ibuf) + Len(toIc) <= BlkLen
    <3>1. Len(toIc') <= Len(toIc) /\ toPc' = <<>>
      BY <1>1, <1>5, <2>2, SpoiltLess
    <3>2. Len(ibuf) + Len(toIc') <= BlkLen
      <4>1. Len(ibuf) \in Nat /\ Len(toIc) \in Nat /\ Len(toIc') \in Nat /\ BlkLen \in Nat
        BY <1>1, LenProperties, Facts DEF Inv, LineInv
      <4> QED
        BY <2>2, <3>1, <4>1
    <3> QED
      BY <1>0, <1>11, <2>1, <2>2, <3>1, <3>2 DEF InStep, Checking, Copied, HasBlock, ic35
  <2>3. CASE mode = "ack" /\ toIc = <<>> /\ Len(toPc) <= 2 /\ toPc \in Seq(Data \cup Sums({ibuf}))
    <3>1. toIc' = <<>> /\ toPc' \in Spoilt(toPc)
      BY <1>4, <2>3
    <3>2. Bad \in Data \cup Sums({ibuf})
      BY Facts
    <3>3. toPc' \in Seq(Data \cup Sums({ibuf}))
      BY <2>3, <3>1, <3>2, SpoiltIn
    <3>4. Len(toPc') <= 2
      BY <1>1, <1>7, <2>3, <3>1, LenProperties
    <3> QED
      BY <1>0, <1>11, <2>1, <2>3, <3>1, <3>3, <3>4 DEF InStep, Checking, Copied, HasBlock, ic35
  <2> QED
    BY <2>1, <2>2, <2>3 DEF Checking
<1>12. CASE pc \notin {"send byte", "get byte", "check sum"}
  <2>1. toIc = <<>> /\ At(pc, toPc) /\ Where = pc
    BY <1>12 DEF InStep, Where
  <2>2. toIc' = <<>> /\ toPc' \in Spoilt(toPc)
    BY <1>4, <2>1
  <2>3. At(pc, toPc')
    BY <1>1, <1>6, <1>7, <2>1, <2>2, AtWorse, Places
  <2>4. At(pc, toPc)'
    BY <1>0, <2>3, AtSame
  <2> QED
    BY <1>0, <1>12, <2>2, <2>4 DEF InStep
<1> QED
  BY <1>8, <1>9, <1>10, <1>11, <1>12 DEF InStep
-----------------------------------------------------------------------------
(* What the IC35 answers.                                                  *)
LEMMA BlockSent ==
  ASSUME LineInv, NEW k \in Blocks, NEW c \in Tags, NEW a, a = <<Byte(c)>> \o Block(k)
  PROVE  /\ <<>> \o a = a /\ a # <<>> /\ Head(a) = Byte(c) /\ Tail(a) = Block(k)
         /\ Block(k) \in Seq(Of(k)) /\ Len(Block(k)) <= BlkLen + 2
<1> DEFINE S == Of(k)
<1>1. db[k] \in Seq(Data) /\ Len(db[k]) = BlkLen /\ BlkLen \in Nat
  BY WholeSeq, Facts DEF LineInv
<1>2. /\ db[k] \in Seq(S) /\ Byte(c) \in S
      /\ chksum(db[k]) \in Seq(S) /\ Len(chksum(db[k])) = 2
  <2>1. chksum(db[k]) \in Seq(Sums({db[k]}))
    BY ChksumIn
  <2>2. Len(chksum(db[k])) = 2
    BY DEF chksum
  <2>3. Byte(c) \in S
    BY Facts DEF Of
  <2>4. Data \subseteq S /\ Sums({db[k]}) \subseteq S
    BY DEF Of
  <2> HIDE DEF S
  <2> QED
    BY <1>1, <2>1, <2>2, <2>3, <2>4, SeqMonotonic
<1> HIDE DEF S
<1>3. Block(k) \in Seq(S) /\ Len(Block(k)) = BlkLen + 2
  <2>1. db[k] \o chksum(db[k]) \in Seq(S) /\ Len(db[k] \o chksum(db[k])) = Len(db[k]) + Len(chksum(db[k]))
    BY <1>2, ConcatProperties
  <2> QED
    BY <1>1, <1>2, <2>1 DEF Block
<1>4. a \in Seq(S) /\ a # <<>> /\ Head(a) = Byte(c) /\ Tail(a) = Block(k)
  BY <1>2, <1>3, OneMore
<1>5. <<>> \o a = a
  BY <1>4, ConcatEmptySeq
<1>6. Len(Block(k)) <= BlkLen + 2
  BY <1>1, <1>3
<1> QED
  BY <1>3, <1>4, <1>5, <1>6 DEF S

LEMMA ByteSent ==
  /\ \A x : <<>> \o <<x>> = <<x>> /\ <<x>> # <<>> /\ Head(<<x>>) = x /\ Tail(<<x>>) = <<>>
  /\ \A x, y : /\ <<>> \o <<x, y>> = <<x, y>> /\ <<x, y>> # <<>> /\ Head(<<x, y>>) = x
               /\ Len(Tail(<<x, y>>)) <= 1
<1>1. ASSUME NEW x PROVE <<>> \o <<x>> = <<x>> /\ <<x>> # <<>> /\ Head(<<x>>) = x /\ Tail(<<x>>) = <<>>
  <2>1. <<x>> \in Seq({x}) /\ Len(<<x>>) = 1 /\ <<x>> # <<>> /\ <<x>>[1] = x
    OBVIOUS
  <2>2. <<>> \o <<x>> = <<x>>
    BY <2>1, ConcatEmptySeq
  <2>3. Head(<<x>>) = x
    OBVIOUS
  <2>4. Tail(<<x>>) \in Seq({x}) /\ Len(Tail(<<x>>)) = 0
    BY <2>1, HeadTailProperties
  <2> QED
    BY <2>1, <2>2, <2>3, <2>4, EmptySeq
<1>2. ASSUME NEW x, NEW y
      PROVE  /\ <<>> \o <<x, y>> = <<x, y>> /\ <<x, y>> # <<>> /\ Head(<<x, y>>) = x
             /\ Len(Tail(<<x, y>>)) <= 1
  <2>1. <<x, y>> \in Seq({x, y}) /\ Len(<<x, y>>) = 2 /\ <<x, y>> # <<>>
    OBVIOUS
  <2>2. <<>> \o <<x, y>> = <<x, y>>
    BY <2>1, ConcatEmptySeq
  <2>3. Head(<<x, y>>) = x
    OBVIOUS
  <2>4. Len(Tail(<<x, y>>)) <= 1
    <3>1. Len(Tail(<<x, y>>)) = 1
      BY <2>1, HeadTailProperties
    <3> QED
      BY <3>1
  <2> QED
    BY <2>1, <2>2, <2>3, <2>4
<1> QED
  BY <1>1, <1>2

(* The IC35 ignores a garbled command.                                     *)
LEMMA BadIgnored ==
  ASSUME Inv, toPc = <<>>, Asking, UNCHANGED <<call, blk, buf, file>>,
         IcIdle(Bad) \/ IcRest(Bad) \/ IcSend(Bad) \/ IcRecv(Bad) \/ IcAck(Bad)
  PROVE  Asking' /\ toPc' = <<>> /\ UNCHANGED db
<1>1. <<>> \o <<>> = <<>>
  OBVIOUS
<1>2. Bad \notin {Byte(c) : c \in {"backup", "info", "restinit", "restdata", "ack", "nak"}}
  BY DEF Bad, Byte
<1>3. /\ UNCHANGED <<mode, db>> /\ toPc' = <<>> /\ mode \in {"idle", "rest", "send", "ack"}
      /\ mode = "send" => iblk' = iblk
      /\ mode = "ack" => iblk' = iblk /\ ibuf' = ibuf
  <2>1. mode \in {"idle", "rest", "send", "ack"}
    BY DEF Asking
  <2>2. CASE mode = "idle"
    <3>1. Becomes("idle", 0, <<>>) /\ UNCHANGED db
      BY <1>2, <2>2 DEF IcIdle, IcRest, IcSend, IcRecv, IcAck
    <3> QED
      BY <1>1, <2>2, <3>1 DEF Becomes
  <2>3. CASE mode = "rest"
    <3>1. Becomes("rest", 0, <<>>) /\ UNCHANGED db
      BY <1>2, <2>3 DEF IcIdle, IcRest, IcSend, IcRecv, IcAck
    <3> QED
      BY <1>1, <2>3, <3>1 DEF Becomes
  <2>4. CASE mode = "send"
    <3>1. Becomes("send", iblk, <<>>) /\ UNCHANGED db
      BY <1>2, <2>4 DEF IcIdle, IcRest, IcSend, IcRecv, IcAck
    <3> QED
      BY <1>1, <2>4, <3>1 DEF Becomes
  <2>5. CASE mode = "ack"
    <3>1. UNCHANGED <<ic35, toPc>>
      BY <1>2, <2>5 DEF IcIdle, IcRest, IcSend, IcRecv, IcAck
    <3> QED
      BY <2>5, <3>1 DEF ic35
  <2> QED
    BY <2>1, <2>2, <2>3, <2>4, <2>5
<1>4. Asking'
  BY <1>3 DEF Asking, Asks, Copied, HasBlock
<1> QED
  BY <1>3, <1>4
(* It answers a command that it has got, and is then where the program     *)
(* goes on.                                                                *)
Hears(b) == IcIdle(b) \/ IcRest(b) \/ IcSend(b) \/ IcRecv(b) \/ IcAck(b)
Stored   == HasBlock /\ iblk = blk /\ ibuf = buf /\ db' = [db EXCEPT ![blk] = buf]

LEMMA CommandHeard ==
  ASSUME Inv, toPc = <<>>, toIc' = <<>>, Asking, UNCHANGED <<call, blk, buf, file>>,
         Hears(Byte(call.cmd))
  PROVE  Answered' /\ (UNCHANGED db \/ Stored)
<1>0. /\ NBlocks \in Nat /\ Blocks = 0 .. NBlocks /\ iblk \in Blocks /\ 0 \in Blocks /\ LineInv
      /\ db \in [Blocks -> Whole]
      /\ {"gotcmd", "gotack", "gotdata"} \subseteq Tags
  BY Facts DEF Inv, LineInv, Tags
<1>1. ASSUME NEW m, NEW k, NEW a, Becomes(m, k, a), a # <<>>, <<>> \o a = a
      PROVE  toPc' = a /\ toPc' # <<>> /\ mode' = m /\ iblk' = k /\ ibuf' = <<>>
  BY <1>1 DEF Becomes
<1>2. CASE Asks("backup", "gotcmd", "recv data") /\ mode = "idle" /\ blk = 0
  <2> DEFINE a == <<Byte("gotcmd")>> \o Block(0)
  <2>1. Becomes("send", 0, a) /\ UNCHANGED db
    BY <1>2 DEF Hears, Asks, IcIdle, IcRest, IcSend, IcRecv, IcAck, Byte
  <2>2. /\ <<>> \o a = a /\ a # <<>> /\ Head(a) = Byte("gotcmd") /\ Tail(a) = Block(0)
        /\ Block(0) \in Seq(Of(0)) /\ Len(Block(0)) <= BlkLen + 2
    BY <1>0, BlockSent
  <2> HIDE DEF a
  <2>3. toPc' = a /\ mode' = "send" /\ iblk' = 0
    BY <1>1, <2>1, <2>2
  <2>4. Sending(blk, Tail(toPc))'
    BY <1>2, <2>1, <2>2, <2>3, Zenon DEF Sending, Of
  <2>5. At(call.then, Tail(toPc))'
    BY <1>2, <2>4 DEF At, Asks
  <2> QED
    BY <1>2, <2>1, <2>2, <2>3, <2>5 DEF Answered, Asks
<1>3. CASE Asks("nak", "gotack", "recv data") /\ mode = "send" /\ iblk = blk
  <2> DEFINE a == <<Byte("gotack")>> \o Block(blk)
  <2>1. Becomes("send", blk, a) /\ UNCHANGED db
    BY <1>3 DEF Hears, Asks, IcIdle, IcRest, IcSend, IcRecv, IcAck, Byte
  <2>2. /\ <<>> \o a = a /\ a # <<>> /\ Head(a) = Byte("gotack") /\ Tail(a) = Block(blk)
        /\ Block(blk) \in Seq(Of(blk)) /\ Len(Block(blk)) <= BlkLen + 2
    BY <1>0, <1>3, BlockSent
  <2> HIDE DEF a
  <2>3. toPc' = a /\ mode' = "send" /\ iblk' = blk
    BY <1>1, <2>1, <2>2
  <2>4. Sending(blk, Tail(toPc))'
    BY <1>3, <2>1, <2>2, <2>3, Zenon DEF Sending, Of
  <2>5. At(call.then, Tail(toPc))'
    BY <1>3, <2>4 DEF At, Asks
  <2> QED
    BY <1>3, <2>1, <2>2, <2>3, <2>5 DEF Answered, Asks
<1>4. CASE Asks("ack", "gotack", "got block") /\ mode = "send" /\ iblk = blk /\ buf = db[blk]
  <2>0. blk \in Blocks
    BY <1>0, <1>4, Zenon
  <2>1. CASE blk < NBlocks
    <3> DEFINE k == blk + 1
               a == <<Byte("gotack")>> \o Block(k)
    <3>1. Becomes("send", k, a) /\ UNCHANGED db
      <4>1. IcSend(Byte("ack"))
        BY <1>4 DEF Hears, Asks, IcIdle, IcRest, IcSend, IcRecv, IcAck
      <4> QED
        <5>0. iblk = blk
          BY <1>4, Zenon
        <5>1. iblk < NBlocks /\ ~(iblk = NBlocks)
          BY <2>0, <2>1, <5>0, Facts
        <5>2. Becomes("send", iblk + 1, <<Byte("gotack")>> \o Block(iblk + 1)) /\ UNCHANGED db
          BY <4>1, <5>1 DEF IcSend, Byte
        <5> QED
          BY <1>4, <5>2
    <3>2. k \in Blocks
      BY <2>0, <2>1, Facts
    <3> HIDE DEF k
    <3>3. /\ <<>> \o a = a /\ a # <<>> /\ Head(a) = Byte("gotack") /\ Tail(a) = Block(k)
          /\ Block(k) \in Seq(Of(k)) /\ Len(Block(k)) <= BlkLen + 2
      BY <1>0, <3>2, BlockSent
    <3> HIDE DEF a
    <3>4. toPc' = a /\ mode' = "send" /\ iblk' = k
      BY <1>1, <3>1, <3>3
    <3>5. Sending(blk + 1, Tail(toPc))'
      <4>1. iblk' = blk' + 1 /\ db'[blk' + 1] = db[k] /\ Tail(toPc') = Block(k)
        BY <3>1, <3>3, <3>4 DEF k
      <4> QED
        BY <3>3, <3>4, <4>1, Zenon DEF Sending, Of
    <3>6. At(call.then, Tail(toPc))'
      BY <1>4, <2>1, <3>1, <3>5, Zenon DEF At, Asks
    <3> QED
      BY <1>4, <3>1, <3>3, <3>4, <3>6 DEF Answered, Asks
  <2>2. CASE ~(blk < NBlocks)
    <3> DEFINE a == <<Byte("gotack")>>
    <3>1. blk = NBlocks
      BY <2>0, <2>2, Facts
    <3>2. Becomes("idle", 0, a) /\ UNCHANGED db
      BY <1>4, <2>2, <3>1 DEF Hears, Asks, IcIdle, IcRest, IcSend, IcRecv, IcAck, Byte
    <3>3. <<>> \o a = a /\ a # <<>> /\ Head(a) = Byte("gotack") /\ Tail(a) = <<>>
      BY ByteSent
    <3> HIDE DEF a
    <3>4. toPc' = a /\ mode' = "idle"
      BY <1>1, <3>2, <3>3
    <3>5. At(call.then, Tail(toPc))'
      BY <1>4, <2>2, <3>2, <3>3, <3>4 DEF At, Asks, Idle
    <3> QED
      BY <1>4, <3>2, <3>3, <3>4, <3>5 DEF Answered, Asks
  <2> QED
    BY <2>1, <2>2
<1>5. CASE Asks("info", "gotcmd", "get info") /\ mode = "idle"
  <2> DEFINE a == <<Byte("gotcmd"), Info("ic35")>>
  <2>1. Becomes("idle", 0, a) /\ UNCHANGED db
    BY <1>5 DEF Hears, Asks, IcIdle, IcRest, IcSend, IcRecv, IcAck, Byte
  <2>2. <<>> \o a = a /\ a # <<>> /\ Head(a) = Byte("gotcmd") /\ Len(Tail(a)) <= 1
    BY ByteSent
  <2> HIDE DEF a
  <2>3. toPc' = a /\ mode' = "idle"
    BY <1>1, <2>1, <2>2
  <2>4. At(call.then, Tail(toPc))'
    BY <1>5, <2>1, <2>2, <2>3, Zenon DEF At, Asks
  <2> QED
    BY <1>5, <2>1, <2>2, <2>3, <2>4 DEF Answered, Asks
<1>6. CASE Asks("restinit", "gotcmd", "restdata") /\ mode = "idle"
  <2> DEFINE a == <<Byte("gotcmd")>>
  <2>1. Becomes("rest", 0, a) /\ UNCHANGED db
    BY <1>6 DEF Hears, Asks, IcIdle, IcRest, IcSend, IcRecv, IcAck, Byte
  <2>2. <<>> \o a = a /\ a # <<>> /\ Head(a) = Byte("gotcmd") /\ Tail(a) = <<>>
    BY ByteSent
  <2> HIDE DEF a
  <2>3. toPc' = a /\ mode' = "rest"
    BY <1>1, <2>1, <2>2
  <2>4. At(call.then, Tail(toPc))'
    BY <1>6, <2>1, <2>2, <2>3 DEF At, Asks
  <2> QED
    BY <1>6, <2>1, <2>2, <2>3, <2>4 DEF Answered, Asks
<1>7. CASE Asks("restdata", "gotdata", "read file") /\ mode = "rest" /\ blk = 0
  <2> DEFINE a == <<Byte("gotdata")>>
  <2>1. Becomes("recv", 0, a) /\ UNCHANGED db
    BY <1>7 DEF Hears, Asks, IcIdle, IcRest, IcSend, IcRecv, IcAck, Byte
  <2>2. <<>> \o a = a /\ a # <<>> /\ Head(a) = Byte("gotdata") /\ Tail(a) = <<>>
    BY ByteSent
  <2> HIDE DEF a
  <2>3. toPc' = a /\ mode' = "recv" /\ iblk' = 0 /\ ibuf' = <<>>
    BY <1>1, <2>1, <2>2
  <2>4. 0 .. 0 - 1 = {}
    OBVIOUS
  <2>5. Awaiting(blk, Tail(toPc))' /\ Copied(blk)'
    BY <1>7, <2>2, <2>3, <2>4 DEF Awaiting, Copied
  <2>6. At(call.then, Tail(toPc))'
    BY <1>7, <2>5 DEF At, Asks
  <2> QED
    BY <1>7, <2>1, <2>2, <2>3, <2>6 DEF Answered, Asks
<1>8. CASE /\ Asks("nak", "gotack", "send data") /\ mode = "ack" /\ iblk = blk
           /\ Copied(blk) /\ HasBlock
  <2> DEFINE a == <<Byte("gotack")>>
  <2>1. Becomes("recv", blk, a) /\ UNCHANGED db
    BY <1>8 DEF Hears, Asks, IcIdle, IcRest, IcSend, IcRecv, IcAck, Byte
  <2>2. <<>> \o a = a /\ a # <<>> /\ Head(a) = Byte("gotack") /\ Tail(a) = <<>>
    BY ByteSent
  <2> HIDE DEF a
  <2>3. toPc' = a /\ mode' = "recv" /\ iblk' = blk /\ ibuf' = <<>>
    BY <1>1, <2>1, <2>2
  <2>4. Awaiting(blk, Tail(toPc))' /\ Copied(blk)' /\ HasBlock'
    BY <1>8, <2>1, <2>2, <2>3 DEF Awaiting, Copied, HasBlock
  <2>5. At(call.then, Tail(toPc))'
    BY <1>8, <2>4 DEF At, Asks
  <2> QED
    BY <1>8, <2>1, <2>2, <2>3, <2>5 DEF Answered, Asks
<1>9. CASE /\ Asks("ack", "gotack", "put block") /\ mode = "ack" /\ iblk = blk
           /\ Copied(blk) /\ HasBlock /\ ibuf = buf
  <2> DEFINE a == <<Byte("gotack")>>
  <2>0. <<>> \o a = a /\ a # <<>> /\ Head(a) = Byte("gotack") /\ Tail(a) = <<>>
    BY ByteSent
  <2> HIDE DEF a
  <2>1. /\ db' = [db EXCEPT ![blk] = buf]
        /\ IF blk < NBlocks THEN Becomes("recv", blk + 1, a) ELSE Becomes("idle", 0, a)
    BY <1>9 DEF Hears, Asks, IcIdle, IcRest, IcSend, IcRecv, IcAck, Byte, a
  <2>2. Copied(blk + 1)'
    <3>0. blk \in Blocks
      BY <1>0, <1>9, Zenon
    <3>1. ASSUME NEW k \in 0 .. (blk + 1) - 1 PROVE Chunk(file, k) = db'[k]
      <4>1. k \in Blocks /\ (k = blk \/ k \in 0 .. blk - 1)
        BY <3>0, Facts
      <4>2. CASE k = blk
        BY <1>0, <1>9, <2>1, <4>2 DEF HasBlock
      <4>3. CASE k # blk /\ k \in 0 .. blk - 1
        BY <1>0, <1>9, <2>1, <4>1, <4>3 DEF Copied
      <4> QED
        BY <4>1, <4>2, <4>3
    <3> QED
      BY <3>1 DEF Copied, Chunk
  <2>3. toPc' = a
    BY <1>1, <2>0, <2>1
  <2>4. IF blk < NBlocks THEN Awaiting(blk + 1, Tail(toPc))' ELSE Idle(Tail(toPc))'
    BY <1>1, <2>0, <2>1 DEF Awaiting, Idle
  <2>5. At(call.then, Tail(toPc))'
    BY <1>9, <2>2, <2>4 DEF At, Asks
  <2>6. Stored
    BY <1>9, <2>1 DEF Stored
  <2> QED
    BY <1>9, <2>0, <2>3, <2>5, <2>6 DEF Answered, Asks
<1> QED
  BY <1>2, <1>3, <1>4, <1>5, <1>6, <1>7, <1>8, <1>9 DEF Asking
LEMMA IcInStep ==
  ASSUME Inv, InStep, IcStep PROVE InStep' /\ (UNCHANGED db \/ Stored)
<1> DEFINE b == Head(toIc)
<1>0. /\ UNCHANGED <<pc, call, blk, buf, file, lates>> /\ Hears(b)
      /\ toIc # <<>> /\ toIc' = Tail(toIc) /\ toIc \in Seq(Data) /\ b \in Data
  BY HeadTailProperties DEF IcStep, local, counts, Hears, Inv, LineInv
<1>1. (pc = "get byte" /\ Unheard) \/ (pc = "check sum" /\ Checking)
  BY <1>0 DEF InStep, Unheard, Answered
<1>2. CASE pc = "get byte" /\ Unheard
  <2>1. toPc = <<>> /\ Asking /\ toIc \in {<<Byte(call.cmd)>>, <<Bad>>}
    BY <1>0, <1>2 DEF Unheard
  <2>2. toIc' = <<>> /\ b \in {Byte(call.cmd), Bad}
    BY <1>0, <2>1, ByteSent
  <2> HIDE DEF b
  <2>3. CASE b = Byte(call.cmd)
    <3>1. Answered' /\ (UNCHANGED db \/ Stored)
      BY <1>0, <2>1, <2>2, <2>3, CommandHeard
    <3> QED
      BY <1>0, <1>2, <3>1 DEF InStep
  <2>4. CASE b = Bad
    <3>1. Asking' /\ toPc' = <<>> /\ UNCHANGED db
      BY <1>0, <2>1, <2>4, BadIgnored DEF Hears
    <3>2. Unheard'
      BY <2>2, <3>1 DEF Unheard
    <3> QED
      BY <1>0, <1>2, <3>1, <3>2 DEF InStep
  <2> QED
    BY <2>2, <2>3, <2>4
<1>3. CASE pc = "check sum" /\ Checking
  <2>1. mode = "recv" /\ toPc = <<>> /\ Len(ibuf) + Len(toIc) <= BlkLen
    BY <1>0, <1>3 DEF Checking
  <2> HIDE DEF b
  <2>2. IcRecv(b)
    BY <1>0, <2>1 DEF Hears, IcIdle, IcRest, IcSend, IcAck
  <2>3. /\ ibuf' = Append(ibuf, b) /\ UNCHANGED <<iblk, db>> /\ ibuf' \in Seq(Data)
        /\ Len(ibuf') = Len(ibuf) + 1 /\ Len(toIc') = Len(toIc) - 1
        /\ Len(ibuf) \in Nat /\ Len(toIc) \in Nat /\ toIc' \in Seq(Data) /\ BlkLen \in Nat
    BY <1>0, <2>2, AppendProperties, HeadTailProperties, LenProperties, Facts DEF IcRecv, Inv, LineInv
  <2>4. CASE Len(ibuf') < BlkLen
    <3>1. mode' = "recv" /\ toPc' = <<>>
      BY <2>1, <2>2, <2>4 DEF IcRecv
    <3>2. Len(ibuf') + Len(toIc') <= BlkLen
      BY <2>1, <2>3
    <3> QED
      BY <1>0, <1>3, <2>3, <3>1, <3>2 DEF InStep, Checking, Copied, HasBlock
  <2>5. CASE ~(Len(ibuf') < BlkLen)
    <3>1. mode' = "ack" /\ toPc' = <<>> \o chksum(ibuf')
      BY <2>1, <2>2, <2>5 DEF IcRecv
    <3>2. toIc' = <<>>
      <4>1. Len(toIc') = 0
        BY <2>1, <2>3, <2>5, LenProperties
      <4> QED
        BY <2>3, <4>1, EmptySeq
    <3>3. toPc' = chksum(ibuf') /\ toPc' \in Seq(Sums({ibuf'})) /\ Len(toPc') = 2
      <4>1. chksum(ibuf') \in Seq(Sums({ibuf'}))
        BY ChksumIn
      <4>2. <<>> \o chksum(ibuf') = chksum(ibuf')
        BY <4>1, ConcatEmptySeq
      <4>3. Len(chksum(ibuf')) = 2
        BY DEF chksum
      <4> QED
        BY <3>1, <4>1, <4>2, <4>3
    <3>4. toPc' \in Seq(Data \cup Sums({ibuf'})) /\ Len(toPc') <= 2
      BY <3>3, SeqMonotonic
    <3> QED
      BY <1>0, <1>3, <2>3, <3>1, <3>2, <3>4 DEF InStep, Checking, Copied, HasBlock
  <2> QED
    BY <2>4, <2>5
<1> QED
  BY <1>1, <1>2, <1>3

-----------------------------------------------------------------------------
(* The program's steps.                                                    *)
LEMMA NoneLate ==
  ASSUME lates \in Nat, UNCHANGED lates, NEW n, NEW r \in com_recv(n), lates' = lates + r.late
  PROVE  r.late = 0
BY DEF com_recv, Late

LEMMA SendByteInStep ==
  ASSUME Inv, InStep, SendByte, AnswersKept PROVE InStep'
<1>1. /\ UNCHANGED <<ic35, blk, buf, file, call>> /\ UNCHANGED lates /\ pc = "send byte" /\ pc' = "get byte"
      /\ toIc' = toIc \o <<Byte(call.cmd)>> /\ UNCHANGED toPc
  BY DEF SendByte, Send, Goto, local, AnswersKept
<1>2. toIc = <<>> /\ toPc = <<>> /\ Asking
  BY <1>1 DEF InStep, Unheard
<1>3. toIc' = <<Byte(call'.cmd)>>
  BY <1>1, <1>2, ByteSent
<1>4. Asking'
  BY <1>1, <1>2, AskingSame
<1>5. Unheard'
  BY <1>1, <1>2, <1>3, <1>4 DEF Unheard
<1> QED
  BY <1>1, <1>5 DEF InStep

LEMMA GetByteInStep ==
  ASSUME Inv, InStep, GetByte, AnswersKept PROVE InStep'
<1>0. UNCHANGED <<ic35, blk, buf, file>> /\ UNCHANGED lates /\ pc = "get byte" /\ lates \in Nat
  BY DEF GetByte, local, AnswersKept, InStep
<1>1. PICK r \in com_recv(1) :
         Taken(r) /\ \E ok \in IsResponse(r.got) : IF ok THEN Goto(call.then) ELSE Again
  BY DEF GetByte
<1>2. r.late = 0 /\ UNCHANGED toIc /\ toPc' = SubSeq(toPc, Len(r.got) + 1, Len(toPc))
  <2>1. lates' = lates + r.late
    BY <1>1 DEF Taken
  <2> QED
    BY <1>0, <1>1, <2>1, NoneLate DEF Taken
<1>3. toPc \in Seq(AnyByte)
  BY DEF Inv, LineInv
<1>4. CASE Unheard
  <2>1. toPc = <<>> /\ Asking
    BY <1>4 DEF Unheard
  <2>2. toIc = <<>> /\ r.got = <<>> /\ toPc' = <<>>
    <3>1. Len(toPc) = 0 /\ Len(toPc) < 1 /\ Len(toPc) <= 1
      BY <2>1
    <3> QED
      BY <1>2, <1>3, <2>1, <3>1, Takes
  <2>3. IsResponse(r.got) = {FALSE}
    <3>1. Len(r.got) # 1 /\ (r.got = <<Byte(call.rsp)>>) = FALSE
      BY <2>2
    <3>2. IsResponse(r.got) = {r.got = <<Byte(call.rsp)>>}
      BY <3>1, Zenon DEF IsResponse
    <3> QED
      BY <3>1, <3>2, Zenon
  <2>4. Again
    BY <1>1, <2>3
  <2>5. CASE call.tries + 1 < MaxRetry
    <3>1. pc' = "send byte" /\ call' = [call EXCEPT !.tries = @ + 1] /\ call \in Calls
      BY <2>4, <2>5 DEF Again, Inv, CallInv
    <3>2. call'.cmd = call.cmd /\ call'.rsp = call.rsp /\ call'.then = call.then
      BY <3>1 DEF Calls
    <3>3. Asking'
      BY <1>0, <2>1, <3>2, AskingSame
    <3>4. Unheard' /\ toIc' = <<>>
      BY <1>2, <2>2, <3>3 DEF Unheard
    <3> QED
      BY <1>0, <3>1, <3>4 DEF InStep
  <2>6. CASE ~(call.tries + 1 < MaxRetry)
    <3>1. pc' = "end"
      BY <2>4, <2>6 DEF Again, Fail
    <3> QED
      BY <1>0, <1>2, <2>2, <3>1 DEF InStep, At
  <2> QED
    BY <2>5, <2>6
<1>5. CASE Answered
  <2>1. toIc = <<>> /\ toPc # <<>> /\ Head(toPc) = Byte(call.rsp) /\ At(call.then, Tail(toPc))
        /\ call.rsp \in {"gotcmd", "gotdata", "gotack"}
    BY <1>5 DEF Answered
  <2>2. r.got = <<Byte(call.rsp)>> /\ toPc' = Tail(toPc)
    BY <1>2, <1>3, <2>1, TakesOne
  <2>3. Len(r.got) = 1 /\ r.got[1] = Byte(call.rsp)
    BY <2>2
  <2>4. r.got[1] # Bad /\ r.got[1][1] \notin {"ic35", "file", "sum"}
    BY <2>1, <2>3 DEF Byte, Bad
  <2>5. IsResponse(r.got) = {TRUE}
    <3>1. IsResponse(r.got) = {r.got = <<Byte(call.rsp)>>}
      BY <2>4, Zenon DEF IsResponse
    <3> QED
      BY <2>2, <3>1, Zenon
  <2>6. pc' = call.then
    BY <1>1, <2>5 DEF Goto
  <2>7. At(pc, toPc)'
    BY <1>0, <2>1, <2>2, <2>6, AtSame
  <2>8. pc' \notin {"send byte", "get byte", "check sum"}
    BY <1>0, <2>1, <2>6, CallPlace DEF At, Inv
  <2> QED
    BY <1>0, <1>2, <2>1, <2>7, <2>8, Zenon DEF InStep
<1> QED
  BY <1>0, <1>4, <1>5 DEF InStep

(* A checksum on the line is of the block that is being sent.              *)
LEMMA SumOf ==
  ASSUME NEW d, NEW s \in Seq(Data \cup Sums({d})), NEW e, s = chksum(e) PROVE e = d
<1>1. s[1] = <<"sum", e, 1>> /\ Len(s) = 2
  BY DEF chksum
<1>2. s[1] \in Data \cup Sums({d})
  <2> DEFINE S == Data \cup Sums({d})
  <2>1. s \in Seq(S)
    OBVIOUS
  <2> HIDE DEF S
  <2>2. s[1] \in S
    BY <1>1, <2>1, ElementOfSeq
  <2> QED
    BY <2>2 DEF S
<1>3. <<"sum", e, 1>> \notin Data
  BY DEF Data, Tags
<1> QED
  BY <1>1, <1>2, <1>3 DEF Sums

LEMMA RecvDataInStep ==
  ASSUME Inv, InStep, RecvData, AnswersKept PROVE InStep'
<1>0. UNCHANGED <<ic35, blk, file>> /\ UNCHANGED lates /\ pc = "recv data" /\ lates \in Nat
  BY DEF RecvData, AnswersKept, InStep
<1>1. toIc = <<>> /\ Sending(blk, toPc)
  BY <1>0 DEF InStep, At
<1>2. PICK r \in com_recv(BlkLen) :
         Taken(r) /\ (pc' = "recv sum" \/ pc' = "end")
  BY DEF RecvData, Goto, Xmit, Fail
<1>3. r.late = 0 /\ UNCHANGED toIc /\ toPc' = SubSeq(toPc, Len(r.got) + 1, Len(toPc))
  <2>1. lates' = lates + r.late
    BY <1>2 DEF Taken
  <2> QED
    BY <1>0, <1>2, <2>1, NoneLate DEF Taken
<1>4. toPc' \in Seq(Of(blk)) /\ Len(toPc') <= 2
  <2>0. BlkLen \in Nat
    BY Facts
  <2>1. toPc \in Seq(Of(blk))
    BY <1>1 DEF Sending
  <2>2. Len(toPc) \in Nat /\ Len(toPc) <= BlkLen + 2
    BY <1>1, <2>1, LenProperties DEF Sending
  <2>3. toPc' \in Seq(Of(blk))
    BY <1>3, <2>0, <2>1, Takes
  <2>4. CASE Len(toPc) <= BlkLen
    <3>1. toPc' = <<>>
      BY <1>3, <2>0, <2>1, <2>4, Takes
    <3>2. Len(toPc') = 0
      BY <3>1
    <3> QED
      BY <2>3, <3>2
  <2>5. CASE Len(toPc) > BlkLen
    <3>1. Len(toPc') = Len(toPc) - BlkLen
      BY <1>3, <2>0, <2>1, <2>5, Takes
    <3>2. Len(toPc') <= 2
      BY <2>0, <2>2, <3>1
    <3> QED
      BY <2>3, <3>2
  <2> QED
    BY <2>0, <2>2, <2>4, <2>5
<1>5. Sending(blk, toPc)'
  <2>1. Len(toPc') <= BlkLen + 2
    BY <1>4, LenProperties, Facts
  <2>2. mode' = "send" /\ iblk' = blk' /\ db' = db /\ blk' = blk
    BY <1>0, <1>1, Zenon DEF Sending, ic35
  <2> QED
    BY <1>4, <2>1, <2>2, Zenon DEF Sending, Of
<1>6. pc' = "recv sum" => At(pc, toPc)'
  <2> SUFFICES ASSUME pc' = "recv sum" PROVE At(pc, toPc)'
    OBVIOUS
  <2> QED
    BY <1>4, <1>5, Zenon DEF At
<1>7. pc' = "end" => At(pc, toPc)'
  BY DEF At
<1> QED
  BY <1>0, <1>1, <1>2, <1>3, <1>6, <1>7 DEF InStep

LEMMA RecvSumInStep ==
  ASSUME Inv, InStep, RecvSum, AnswersKept, ~unseen' PROVE InStep'
<1>0. UNCHANGED <<ic35, blk, buf, file>> /\ UNCHANGED lates /\ pc = "recv sum" /\ lates \in Nat
  BY DEF RecvSum, AnswersKept, InStep
<1>1. toIc = <<>> /\ Sending(blk, toPc) /\ Len(toPc) <= 2
  BY <1>0 DEF InStep, At
<1>2. PICK r \in com_recv(2) :
         /\ Taken(r)
         /\ \/ Xmit("OK", "recv data", "got block") /\ r.got = chksum(buf)
            \/ Xmit("chksum", "recv data", "got block")
  BY SumOfReceived
<1>3. r.late = 0 /\ UNCHANGED toIc /\ toPc' = SubSeq(toPc, Len(r.got) + 1, Len(toPc))
  <2>1. lates' = lates + r.late
    BY <1>2 DEF Taken
  <2> QED
    BY <1>0, <1>2, <2>1, NoneLate DEF Taken
<1>4. toPc \in Seq(Of(blk)) /\ mode = "send" /\ iblk = blk
  BY <1>1 DEF Sending
<1>5. r.got = toPc /\ toPc' = <<>>
  BY <1>1, <1>3, <1>4, Takes
<1>6. UNCHANGED <<mode, iblk, db>>
  BY <1>0 DEF ic35
<1>7. CASE Mcmdrsp("ack", "gotack", "got block") /\ r.got = chksum(buf)
  <2>1. buf = db[blk]
    BY <1>4, <1>5, <1>7, SumOf DEF Of
  <2>2. pc' = "send byte" /\ call'.cmd = "ack" /\ call'.rsp = "gotack" /\ call'.then = "got block"
    BY <1>7 DEF Mcmdrsp
  <2>3. Asking'
    BY <1>0, <1>4, <1>6, <2>1, <2>2 DEF Asking, Asks
  <2>4. Unheard' /\ toIc' = <<>>
    BY <1>1, <1>3, <1>5, <2>3 DEF Unheard
  <2> QED
    BY <1>0, <2>2, <2>4 DEF InStep
<1>8. CASE Mcmdrsp("nak", "gotack", "recv data")
  <2>1. pc' = "send byte" /\ call'.cmd = "nak" /\ call'.rsp = "gotack" /\ call'.then = "recv data"
    BY <1>8 DEF Mcmdrsp
  <2>2. Asking'
    BY <1>0, <1>4, <1>6, <2>1 DEF Asking, Asks
  <2>3. Unheard' /\ toIc' = <<>>
    BY <1>1, <1>3, <1>5, <2>2 DEF Unheard
  <2> QED
    BY <1>0, <2>1, <2>3 DEF InStep
<1>9. CASE Fail
  <2>1. pc' = "end" /\ toIc' = <<>>
    BY <1>1, <1>3, <1>9 DEF Fail
  <2> QED
    BY <1>0, <2>1 DEF InStep, At
<1> QED
  BY <1>2, <1>7, <1>8, <1>9 DEF Xmit

LEMMA ReadBlockInStep ==
  ASSUME Inv, InStep, ReadBlock, AnswersKept PROVE InStep'
<1>0. UNCHANGED <<ic35, toIc, toPc>> /\ UNCHANGED lates /\ pc = "got block" /\ lates \in Nat
  BY DEF ReadBlock, AnswersKept, InStep
<1>1. toIc = <<>> /\ IF blk < NBlocks THEN Sending(blk + 1, toPc) ELSE Idle(toPc)
  BY <1>0 DEF InStep, At
<1>2. \/ blk < NBlocks /\ blk' = blk + 1 /\ pc' = "recv data"
      \/ ~(blk < NBlocks) /\ pc' = "info"
      \/ pc' = "end"
  BY DEF ReadBlock, Written, Goto, Fail
<1>3. UNCHANGED <<mode, iblk, ibuf, db>>
  BY <1>0 DEF ic35
<1>4. CASE blk < NBlocks /\ blk' = blk + 1 /\ pc' = "recv data"
  <2>1. Sending(blk + 1, toPc)
    BY <1>1, <1>4
  <2>2. Sending(blk, toPc)'
    BY <1>0, <1>3, <1>4, <2>1, Zenon DEF Sending, Of
  <2>3. At(pc, toPc)'
    BY <1>4, <2>2, Zenon DEF At
  <2> QED
    BY <1>0, <1>1, <1>4, <2>3 DEF InStep
<1>5. CASE ~(blk < NBlocks) /\ pc' = "info"
  <2>1. Idle(toPc)'
    BY <1>0, <1>1, <1>3, <1>5 DEF Idle
  <2>2. At(pc, toPc)'
    BY <1>5, <2>1, Zenon DEF At
  <2> QED
    BY <1>0, <1>1, <1>5, <2>2 DEF InStep
<1>6. CASE pc' = "end"
  BY <1>0, <1>1, <1>6 DEF InStep, At
<1> QED
  BY <1>2, <1>4, <1>5, <1>6

LEMMA GetInfoInStep ==
  ASSUME Inv, InStep, GetInfo, AnswersKept PROVE InStep'
<1>0. UNCHANGED <<ic35, toIc, toPc>> /\ UNCHANGED lates /\ pc = "info" /\ lates \in Nat
  BY DEF GetInfo, AnswersKept, InStep
<1>1. toIc = <<>> /\ toPc = <<>> /\ mode = "idle"
  BY <1>0 DEF InStep, At, Idle
<1>2. pc' = "send byte" /\ call'.cmd = "info" /\ call'.rsp = "gotcmd" /\ call'.then = "get info"
  BY DEF GetInfo, Mcmdrsp
<1>3. Asking'
  BY <1>0, <1>1, <1>2 DEF Asking, Asks, ic35
<1>4. Unheard' /\ toIc' = <<>>
  BY <1>0, <1>1, <1>3 DEF Unheard
<1> QED
  BY <1>0, <1>2, <1>4 DEF InStep

LEMMA InfoInStep ==
  ASSUME Inv, InStep, ReadInfo \/ CompareInfo, AnswersKept PROVE InStep'
<1>0. UNCHANGED <<ic35, toIc>> /\ UNCHANGED lates /\ pc = "get info" /\ lates \in Nat
  BY DEF ReadInfo, CompareInfo, Taken, AnswersKept, InStep
<1>1. toIc = <<>> /\ mode = "idle" /\ Len(toPc) <= 1
  BY <1>0 DEF InStep, At
<1>2. PICK r \in com_recv(1) :
         lates' = lates + r.late /\ toPc' = SubSeq(toPc, Len(r.got) + 1, Len(toPc))
  BY DEF ReadInfo, CompareInfo, Taken
<1>3. r.late = 0
  BY <1>0, <1>2, NoneLate
<1>4. toPc \in Seq(AnyByte)
  BY DEF Inv, LineInv
<1>5. toPc' = <<>>
  BY <1>1, <1>2, <1>3, <1>4, Takes
<1>6. pc' \in {"info", "restinit", "end"}
  BY DEF ReadInfo, CompareInfo, Written, Goto, Fail
<1>7. Idle(toPc)'
  BY <1>0, <1>1, <1>5 DEF Idle, ic35
<1>8. At(pc, toPc)'
  BY <1>6, <1>7, Zenon DEF At
<1> QED
  BY <1>0, <1>1, <1>6, <1>8 DEF InStep

LEMMA RestInStep ==
  ASSUME Inv, InStep, RestInit \/ RestData, AnswersKept PROVE InStep'
<1>0. UNCHANGED <<ic35, toIc, toPc, blk, buf, file>> /\ UNCHANGED lates /\ lates \in Nat
      /\ pc \in {"restinit", "restdata"}
  BY DEF RestInit, RestData, AnswersKept, InStep, local
<1>1. CASE RestInit
  <2>1. toIc = <<>> /\ toPc = <<>> /\ mode = "idle"
    BY <1>1 DEF InStep, At, Idle, RestInit
  <2>2. pc' = "send byte" /\ call'.cmd = "restinit" /\ call'.rsp = "gotcmd" /\ call'.then = "restdata"
    BY <1>1 DEF RestInit, Mcmdrsp
  <2>3. Asking'
    BY <1>0, <2>1, <2>2 DEF Asking, Asks, ic35
  <2>4. Unheard' /\ toIc' = <<>>
    BY <1>0, <2>1, <2>3 DEF Unheard
  <2> QED
    BY <1>0, <2>2, <2>4 DEF InStep
<1>2. CASE RestData
  <2>1. toIc = <<>> /\ toPc = <<>> /\ mode = "rest"
    BY <1>2 DEF InStep, At, RestData
  <2>2. pc' = "send byte" /\ call'.cmd = "restdata" /\ call'.rsp = "gotdata" /\ call'.then = "read file"
    BY <1>2 DEF RestData, Mcmdrsp
  <2>3. blk = 0
    <3>1. pc = "restdata" /\ Where = "restdata"
      BY <1>2 DEF RestData, Where
    <3>2. cmd = "restore"
      BY <3>1 DEF Inv, LineInv, CallInv, Reading
    <3> QED
      BY <3>1, <3>2 DEF Inv, RestoreInv, Counted
  <2>4. Asking'
    BY <1>0, <2>1, <2>2, <2>3 DEF Asking, Asks, ic35
  <2>5. Unheard' /\ toIc' = <<>>
    BY <1>0, <2>1, <2>4 DEF Unheard
  <2> QED
    BY <1>0, <2>2, <2>5 DEF InStep
<1> QED
  BY <1>1, <1>2

LEMMA ReadFileInStep ==
  ASSUME Inv, InStep, ReadFile, AnswersKept PROVE InStep'
<1>0. UNCHANGED <<ic35, toIc, toPc, blk, file>> /\ UNCHANGED lates /\ pc = "read file" /\ lates \in Nat
  BY DEF ReadFile, AnswersKept, InStep
<1>1. toIc = <<>> /\ Awaiting(blk, toPc) /\ Copied(blk)
  BY <1>0 DEF InStep, At
<1>2. buf' = Chunk(file, blk) /\ (IF Len(buf') < BlkLen THEN pc' = "end" ELSE pc' = "send data")
  BY DEF ReadFile, Goto, Fail, Chunk
<1>3. CASE Len(buf') < BlkLen
  <2>1. pc' = "end"
    BY <1>2, <1>3
  <2> QED
    BY <1>0, <1>1, <2>1 DEF InStep, At
<1>4. CASE ~(Len(buf') < BlkLen)
  <2>1. pc' = "send data"
    BY <1>2, <1>4
  <2>2. Len(buf') <= BlkLen /\ Len(buf') \in Nat /\ BlkLen \in Nat
    <3>1. file \in Seq(AnyByte) /\ blk * BlkLen \in Nat /\ BlkLen \in Nat
      BY Facts DEF Inv, FileInv
    <3>2. buf' \in Seq(AnyByte) /\ Len(buf') <= BlkLen
      BY <1>2, <3>1, PartIn DEF Chunk
    <3> QED
      BY <3>1, <3>2, LenProperties
  <2>3. Len(buf') = BlkLen
    BY <1>4, <2>2
  <2>4. HasBlock'
    BY <1>0, <1>2, <2>3 DEF HasBlock
  <2>5. Awaiting(blk, toPc)' /\ Copied(blk)'
    BY <1>0, <1>1 DEF Awaiting, Copied, ic35
  <2>6. At(pc, toPc)'
    BY <2>1, <2>4, <2>5, Zenon DEF At
  <2> QED
    BY <1>0, <1>1, <2>1, <2>6 DEF InStep
<1> QED
  BY <1>3, <1>4

LEMMA SendDataInStep ==
  ASSUME Inv, InStep, SendData, AnswersKept PROVE InStep'
<1>0. /\ UNCHANGED <<ic35, toPc, blk, buf, file>> /\ UNCHANGED lates /\ lates \in Nat
      /\ pc = "send data" /\ pc' = "check sum" /\ toIc' = toIc \o buf
  BY DEF SendData, Send, Goto, AnswersKept, InStep, local
<1>1. toIc = <<>> /\ Awaiting(blk, toPc) /\ Copied(blk) /\ HasBlock
  BY <1>0 DEF InStep, At
<1>2. toIc' = buf
  <2>1. buf \in Seq(AnyByte)
    BY DEF Inv, FileInv
  <2> QED
    BY <1>0, <1>1, <2>1, ConcatEmptySeq
<1>3. Len(ibuf') + Len(toIc') <= BlkLen
  <2>1. Len(ibuf') = 0 /\ Len(toIc') = BlkLen
    BY <1>0, <1>1, <1>2 DEF Awaiting, HasBlock, ic35
  <2> QED
    BY <2>1, Facts
<1>4. Checking'
  BY <1>0, <1>1, <1>3 DEF Checking, Awaiting, Copied, HasBlock, ic35
<1> QED
  BY <1>0, <1>4 DEF InStep

LEMMA CheckSumInStep ==
  ASSUME Inv, InStep, CheckSum, AnswersKept, ~unseen' PROVE InStep'
<1>0. UNCHANGED <<ic35, blk, buf, file>> /\ UNCHANGED lates /\ pc = "check sum" /\ lates \in Nat
  BY DEF CheckSum, AnswersKept, InStep
<1>1. Checking
  BY <1>0 DEF InStep
<1>2. PICK r \in com_recv(2) :
         /\ Taken(r)
         /\ \/ Xmit("OK", "send data", "put block") /\ r.got = chksum(buf)
            \/ Xmit("chksum", "send data", "put block") /\ Len(r.got) = 2
            \/ Xmit("recv", "send data", "put block")
  BY SumOfSent
<1>3. r.late = 0 /\ UNCHANGED toIc /\ toPc' = SubSeq(toPc, Len(r.got) + 1, Len(toPc))
  <2>1. lates' = lates + r.late
    BY <1>2 DEF Taken
  <2> QED
    BY <1>0, <1>2, <2>1, NoneLate DEF Taken
<1>4. toPc \in Seq(AnyByte)
  BY DEF Inv, LineInv
<1>5. \/ Mcmdrsp("ack", "gotack", "put block") /\ r.got = chksum(buf)
      \/ Mcmdrsp("nak", "gotack", "send data") /\ Len(r.got) = 2
      \/ Fail
  <2>1. CASE Xmit("OK", "send data", "put block") /\ r.got = chksum(buf)
    BY <2>1 DEF Xmit
  <2>2. CASE Xmit("chksum", "send data", "put block") /\ Len(r.got) = 2
    BY <2>2 DEF Xmit
  <2>3. CASE Xmit("recv", "send data", "put block")
    BY <2>3 DEF Xmit
  <2> QED
    BY <1>2, <2>1, <2>2, <2>3
<1>6. toIc' = <<>>
  <2>1. CASE mode = "recv" /\ toPc = <<>> /\ Len(ibuf) + Len(toIc) <= BlkLen
    <3>1. Len(toPc) = 0 /\ Len(toPc) < 2
      BY <2>1
    <3> QED
      BY <1>3, <1>4, <3>1, Takes
  <2>2. CASE toIc = <<>>
    BY <1>3, <2>2
  <2> QED
    BY <1>1, <2>1, <2>2 DEF Checking
<1>7. CASE Fail
  BY <1>0, <1>6, <1>7 DEF InStep, At, Fail
<1>8. CASE Len(r.got) = 2 /\ (\/ Mcmdrsp("ack", "gotack", "put block") /\ r.got = chksum(buf)
                              \/ Mcmdrsp("nak", "gotack", "send data"))
  <2>1. mode = "ack" /\ Len(toPc) <= 2 /\ toPc \in Seq(Data \cup Sums({ibuf}))
    <3>1. CASE mode = "recv" /\ toPc = <<>> /\ Len(ibuf) + Len(toIc) <= BlkLen
      <4>1. Len(toPc) = 0 /\ Len(toPc) <= 2
        BY <3>1
      <4>2. r.got = toPc
        BY <1>3, <1>4, <4>1, Takes
      <4>3. Len(r.got) # 2
        BY <4>1, <4>2
      <4> QED
        BY <1>8, <4>3, Zenon
    <3> QED
      BY <1>1, <3>1 DEF Checking
  <2>2. r.got = toPc /\ toPc' = <<>>
    BY <1>3, <1>4, <2>1, Takes
  <2>3. iblk = blk /\ Copied(blk) /\ HasBlock
    BY <1>1 DEF Checking
  <2>4. Copied(blk)' /\ HasBlock' /\ mode' = "ack" /\ iblk' = blk' /\ ibuf' = ibuf /\ buf' = buf
    BY <1>0, <2>1, <2>3 DEF Copied, HasBlock, ic35
  <2>5. CASE Mcmdrsp("ack", "gotack", "put block") /\ r.got = chksum(buf)
    <3>1. buf = ibuf
      BY <2>1, <2>2, <2>5, SumOf
    <3>2. pc' = "send byte" /\ call'.cmd = "ack" /\ call'.rsp = "gotack" /\ call'.then = "put block"
      BY <2>5 DEF Mcmdrsp
    <3>3. Asking'
      BY <2>4, <3>1, <3>2, Zenon DEF Asking, Asks
    <3>4. Unheard'
      BY <1>6, <2>2, <3>3 DEF Unheard
    <3> QED
      BY <1>0, <1>6, <3>2, <3>4 DEF InStep
  <2>6. CASE Mcmdrsp("nak", "gotack", "send data")
    <3>1. pc' = "send byte" /\ call'.cmd = "nak" /\ call'.rsp = "gotack" /\ call'.then = "send data"
      BY <2>6 DEF Mcmdrsp
    <3>2. Asking'
      BY <2>4, <3>1, Zenon DEF Asking, Asks
    <3>3. Unheard'
      BY <1>6, <2>2, <3>2 DEF Unheard
    <3> QED
      BY <1>0, <1>6, <3>1, <3>3 DEF InStep
  <2> QED
    BY <1>8, <2>5, <2>6
<1>9. r.got = chksum(buf) => Len(r.got) = 2
  BY DEF chksum
<1> QED
  BY <1>5, <1>7, <1>8, <1>9

LEMMA WriteBlockInStep ==
  ASSUME Inv, InStep, WriteBlock, AnswersKept PROVE InStep'
<1>0. UNCHANGED <<ic35, toIc, toPc, buf, file>> /\ UNCHANGED lates /\ pc = "put block" /\ lates \in Nat
  BY DEF WriteBlock, AnswersKept, InStep
<1>1. toIc = <<>> /\ Copied(blk + 1) /\ IF blk < NBlocks THEN Awaiting(blk + 1, toPc) ELSE Idle(toPc)
  BY <1>0 DEF InStep, At
<1>2. CASE blk < NBlocks
  <2>1. blk' = blk + 1 /\ pc' = "read file" /\ Awaiting(blk + 1, toPc)
    BY <1>1, <1>2 DEF WriteBlock, Goto
  <2>2. Awaiting(blk, toPc)' /\ Copied(blk)'
    BY <1>0, <1>1, <2>1 DEF Awaiting, Copied, ic35
  <2>3. At(pc, toPc)'
    BY <2>1, <2>2, Zenon DEF At
  <2> QED
    BY <1>0, <1>1, <2>1, <2>3 DEF InStep
<1>3. CASE ~(blk < NBlocks)
  <2>1. pc' = "end"
    BY <1>3 DEF WriteBlock, Goto
  <2> QED
    BY <1>0, <1>1, <2>1 DEF InStep, At
<1> QED
  BY <1>2, <1>3

LEMMA StartInStep ==
  ASSUME Inv, InStep, NEW c \in {"backup", "restore"}, Start(c), AnswersKept PROVE InStep'
<1>0. UNCHANGED <<ic35, toIc, toPc>> /\ UNCHANGED lates /\ lates \in Nat /\ pc = "idle" /\ blk' = 0
  BY DEF Start, AnswersKept, InStep, counts
<1>1. toIc = <<>> /\ toPc = <<>> /\ mode = "idle"
  BY <1>0 DEF Inv, LineInv
<1>2. CASE c = "backup"
  <2>1. pc' = "send byte" /\ call'.cmd = "backup" /\ call'.rsp = "gotcmd" /\ call'.then = "recv data"
    <3>1. /\ pc' = "send byte"
          /\ call' = [cmd |-> "backup", rsp |-> "gotcmd", tries |-> 0, then |-> "recv data"]
      BY <1>2, Zenon DEF Start
    <3> QED
      BY <3>1
  <2>2. Asking'
    BY <1>0, <1>1, <2>1 DEF Asking, Asks, ic35
  <2>3. Unheard'
    BY <1>0, <1>1, <2>2 DEF Unheard
  <2> QED
    BY <1>0, <1>1, <2>1, <2>3 DEF InStep
<1>3. CASE c = "restore"
  <2>1. pc' = "info"
    BY <1>3 DEF Start
  <2>2. Idle(toPc)'
    BY <1>0, <1>1 DEF Idle, ic35
  <2>3. At(pc, toPc)'
    BY <2>1, <2>2, Zenon DEF At
  <2> QED
    BY <1>0, <1>1, <2>1, <2>3 DEF InStep
<1> QED
  BY <1>2, <1>3

LEMMA InStepInit == Init => InStep
  BY DEF Init, InStep, At

LEMMA InStepKept ==
  ASSUME Inv, InStep, [Steps]_vars, [AnswersKept]_vars, ~unseen'
  PROVE  InStep' /\ (UNCHANGED db \/ (IcStep /\ Stored))
<1>1. CASE UNCHANGED vars
  <2>1. /\ pc' = pc /\ call' = call /\ lates' = lates /\ toIc' = toIc /\ toPc' = toPc
        /\ mode' = mode /\ iblk' = iblk /\ ibuf' = ibuf /\ db' = db
        /\ blk' = blk /\ buf' = buf /\ file' = file
    BY <1>1 DEF vars
  <2>2. UNCHANGED <<ic35, blk, buf, file>>
    BY <2>1 DEF ic35
  <2>3. Unheard => Unheard'
    BY <2>1, <2>2, AskingSame DEF Unheard
  <2>4. Answered => Answered'
    BY <2>1, <2>2, AnsweredSame DEF Answered
  <2>5. Checking => Checking'
    BY <2>1 DEF Checking, Copied, HasBlock
  <2>6. At(pc, toPc) => At(pc, toPc)'
    <3>1. At(pc, toPc) => At(pc', toPc')
      BY <2>1
    <3> QED
      BY <2>2, <3>1, AtSame
  <2>7. InStep'
    BY <2>1, <2>3, <2>4, <2>5, <2>6 DEF InStep
  <2> QED
    BY <2>1, <2>7
<1>2. CASE ~UNCHANGED vars
  <2>0. Steps /\ AnswersKept
    BY <1>2
  <2>1. CASE Program
    <3>1. CASE Disconnect
      BY <2>0, <3>1 DEF InStep, At, Disconnect, AnswersKept
    <3>2. InStep'
      BY <2>0, <2>1, <3>1, SendByteInStep, GetByteInStep, RecvDataInStep, RecvSumInStep,
         SendDataInStep, CheckSumInStep, ReadBlockInStep, GetInfoInStep, InfoInStep,
         RestInStep, ReadFileInStep, WriteBlockInStep DEF Program, LinkNext
    <3>3. UNCHANGED db
      BY <2>1 DEF Program, LinkNext, SendByte, GetByte, RecvData, RecvSum, SendData, CheckSum,
         ReadBlock, GetInfo, ReadInfo, CompareInfo, RestInit, RestData, ReadFile, WriteBlock,
         Disconnect, ic35
    <3> QED
      BY <3>2, <3>3
  <2>2. CASE IcStep
    BY <2>2, IcInStep
  <2>3. CASE LineFault
    <3>1. UNCHANGED db
      BY <2>3 DEF LineFault, ic35
    <3> QED
      BY <2>0, <2>3, <3>1, FaultInStep
  <2>4. ASSUME NEW c \in {"backup", "restore"}, Start(c) PROVE InStep' /\ UNCHANGED db
    <3>1. UNCHANGED db
      BY <2>4 DEF Start, ic35
    <3> QED
      BY <2>0, <2>4, <3>1, StartInStep
  <2> QED
    BY <2>0, <2>1, <2>2, <2>3, <2>4 DEF Steps
<1> QED
  BY <1>1, <1>2
-----------------------------------------------------------------------------
(* What has been copied when the command has got so far.                   *)
Saved(place, f, k, rc) ==
  /\ place \in Reading => \A j \in 0 .. k - 1 : Chunk(f, j) = db[j]
  /\ place \in {"info", "get info"} \/ (place = "end" /\ rc = "OK") =>
       \A j \in Blocks : Chunk(f, j) = db[j]

SavedInv ==
  /\ cmd = "backup" => Saved(Where, file, blk, rval)
  /\ cmd = "restore" /\ pc = "end" /\ rval = "OK" => \A j \in Blocks : db[j] = Chunk(file, j)

(* Every block there is, in the IC35 or in the file, is whole.             *)
Images == {Contents(o, j) : o \in {"ic35", "file"}, j \in Blocks}
WholeInv ==
  /\ \A k \in Blocks : db[k] \in Images
  /\ \A k \in Blocks : Len(Chunk(file, k)) = BlkLen => Chunk(file, k) \in Images

(* Writing at the end of the file.                                         *)
LEMMA ChunkFull ==
  ASSUME NEW f \in Seq(AnyByte), NEW k \in Blocks, Len(Chunk(f, k)) = BlkLen
  PROVE  k * BlkLen + BlkLen <= Len(f)
<1>1. k * BlkLen \in Nat /\ BlkLen \in Nat /\ BlkLen > 0
  BY SizeOf, Facts
<1> QED
  BY <1>1, PartIn DEF Chunk

LEMMA ChunksAppended ==
  ASSUME NEW f \in Seq(AnyByte), NEW y \in Seq(AnyByte), NEW n \in Blocks,
         Len(f) = n * BlkLen, Len(y) <= BlkLen
  PROVE  /\ \A k \in 0 .. n - 1 : Chunk(f \o y, k) = Chunk(f, k)
         /\ Len(y) = BlkLen => Chunk(f \o y, n) = y
         /\ \A k \in Blocks : Len(Chunk(f \o y, k)) = BlkLen =>
              k \in 0 .. n - 1 \/ (k = n /\ Len(y) = BlkLen)
<1>0. /\ Blocks = 0 .. NBlocks /\ NBlocks \in Nat /\ BlkLen \in Nat /\ BlkLen > 1 /\ n \in Nat
      /\ Len(y) \in Nat /\ n * BlkLen \in Nat
  BY SizeOf, Facts, LenProperties
<1>1. ASSUME NEW k \in 0 .. n - 1 PROVE Chunk(f \o y, k) = Chunk(f, k)
  <2>1. k \in Blocks /\ k \in Nat /\ k < n
    BY <1>0
  <2>2. k * BlkLen + BlkLen <= Len(f)
    BY <1>0, <2>1, Times
  <2> QED
    BY <2>1, <2>2, ChunkKept
<1>2. Len(y) = BlkLen => Chunk(f \o y, n) = y
  BY ChunkAdded
<1>3. f \o y \in Seq(AnyByte) /\ Len(f \o y) = n * BlkLen + Len(y)
  BY ConcatProperties
<1>4. ASSUME NEW k \in Blocks, Len(Chunk(f \o y, k)) = BlkLen
      PROVE  k \in 0 .. n - 1 \/ (k = n /\ Len(y) = BlkLen)
  <2>1. k * BlkLen + BlkLen <= n * BlkLen + Len(y) /\ k \in Nat /\ k * BlkLen \in Nat
    <3> DEFINE g == f \o y
    <3>1. g \in Seq(AnyByte) /\ Len(Chunk(g, k)) = BlkLen /\ Len(g) = n * BlkLen + Len(y)
      BY <1>3, <1>4
    <3> HIDE DEF g
    <3>2. k * BlkLen + BlkLen <= Len(g)
      BY <3>1, ChunkFull
    <3>3. k \in Nat /\ k * BlkLen \in Nat
      BY <1>0, SizeOf
    <3> QED
      BY <3>1, <3>2, <3>3
  <2>2. CASE n < k
    <3>1. n * BlkLen + BlkLen <= k * BlkLen
      BY <1>0, <2>1, <2>2, Times
    <3> QED
      BY <1>0, <2>1, <3>1
  <2>3. CASE k = n
    BY <1>0, <2>1, <2>3
  <2>4. CASE k < n
    BY <1>0, <2>1, <2>4
  <2> QED
    BY <1>0, <2>1, <2>2, <2>3, <2>4
<1> QED
  BY <1>1, <1>2, <1>4

LEMMA ChunksStay ==
  ASSUME NEW f \in Seq(AnyByte), NEW y \in Seq(AnyByte), Len(f) >= Size, NEW k \in Blocks
  PROVE  Chunk(f \o y, k) = Chunk(f, k)
<1>1. k * BlkLen \in Nat /\ k * BlkLen + BlkLen <= Size /\ BlkLen \in Nat /\ Size \in Nat /\ Len(f) \in Nat
  BY SizeOf, Facts, LenProperties
<1>2. k * BlkLen + BlkLen <= Len(f)
  BY <1>1
<1> QED
  BY <1>2, ChunkKept

LEMMA BlockWritten ==
  ASSUME Inv, InStep, ReadBlock
  PROVE  /\ blk \in Blocks /\ Len(file) = blk * BlkLen /\ file \in Seq(AnyByte)
         /\ buf = db[blk] /\ buf \in Seq(AnyByte) /\ Len(buf) = BlkLen /\ cmd = "backup"
         /\ \E y \in Seq(AnyByte) :
              file' = file \o y /\ Len(y) <= BlkLen /\ (Len(y) = BlkLen => y = buf)
<1>1. pc = "got block" /\ Where = "got block"
  BY DEF ReadBlock, Where
<1>2. cmd = "backup" /\ blk \in Blocks
  BY <1>1, Places DEF Reading
<1>3. Len(file) = blk * BlkLen /\ file \in Seq(AnyByte)
  BY <1>1, <1>2 DEF Inv, BlocksInv, FileInv, Reading
<1>4. buf = db[blk]
  BY <1>1 DEF InStep, At
<1>5. buf \in Seq(AnyByte) /\ Len(buf) = BlkLen
  BY <1>2, <1>4, BlockSeq DEF Inv, DbBlocks
<1>6. \/ file' = file \o buf
      \/ \E n \in {0, Len(buf) - 1} : file' = file \o SubSeq(buf, 1, n)
  BY DEF ReadBlock, Written
<1>7. ASSUME NEW n \in {0, Len(buf) - 1}
      PROVE  SubSeq(buf, 1, n) \in Seq(AnyByte) /\ Len(SubSeq(buf, 1, n)) < BlkLen
  <2>1. n \in Int /\ n < BlkLen /\ n <= Len(buf) /\ n >= 0 /\ BlkLen \in Nat
    BY <1>5, Facts
  <2>2. \A i \in 1 .. n : buf[i] \in AnyByte
    BY <1>5, <2>1, ElementOfSeq
  <2>3. Len(SubSeq(buf, 1, n)) = IF 1 <= n THEN n - 1 + 1 ELSE 0
    BY <2>1, <2>2, SubSeqProperties
  <2> QED
    BY <1>5, <2>1, <2>3, CutWritten
<1>8. \E y \in Seq(AnyByte) : file' = file \o y /\ Len(y) <= BlkLen /\ (Len(y) = BlkLen => y = buf)
  <2>1. CASE file' = file \o buf
    <3>1. Len(buf) <= BlkLen
      BY <1>5, Facts
    <3> QED
      BY <1>5, <2>1, <3>1
  <2>2. CASE \E n \in {0, Len(buf) - 1} : file' = file \o SubSeq(buf, 1, n)
    <3>1. PICK n \in {0, Len(buf) - 1} : file' = file \o SubSeq(buf, 1, n)
      BY <2>2
    <3> DEFINE z == SubSeq(buf, 1, n)
    <3>2. z \in Seq(AnyByte) /\ Len(z) < BlkLen /\ file' = file \o z
      BY <1>7, <3>1
    <3> HIDE DEF z
    <3>3. Len(z) <= BlkLen /\ Len(z) # BlkLen
      BY <3>2, LenProperties, Facts
    <3> QED
      BY <3>2, <3>3
  <2> QED
    BY <1>6, <2>1, <2>2
<1> QED
  BY <1>2, <1>3, <1>4, <1>5, <1>8
-----------------------------------------------------------------------------
LEMMA SavedFailed == \A f, k : Saved("end", f, k, "ERR")
BY DEF Saved, Reading

LEMMA SavedSame ==
  ASSUME UNCHANGED db, Saved(Where', file', blk', rval') PROVE (cmd = "backup" => Saved(Where, file, blk, rval))'
BY DEF Saved

LEMMA BackupSaved ==
  ASSUME Inv, InStep, SavedInv, [Steps]_vars, [AnswersKept]_vars, ~unseen', cmd' = "backup"
  PROVE  (cmd = "backup" => Saved(Where, file, blk, rval))'
<1>0. NBlocks \in Nat /\ Blocks = 0 .. NBlocks
  BY Facts
<1>1. CASE cmd # "backup"
  <2>1. Start("backup")
    BY <1>1, BackupStarts DEF Inv
  <2>2. file' = <<>> /\ blk' = 0 /\ pc' = "send byte" /\ call'.then = "recv data" /\ UNCHANGED db
    <3>1. /\ file' = <<>> /\ blk' = 0 /\ pc' = "send byte" /\ UNCHANGED db
          /\ call' = [cmd |-> "backup", rsp |-> "gotcmd", tries |-> 0, then |-> "recv data"]
      BY <2>1 DEF Start, ic35
    <3> QED
      BY <3>1
  <2>3. Where' = "recv data"
    BY <2>2 DEF Where
  <2>4. Saved("recv data", file', 0, rval')
    <3>1. 0 .. 0 - 1 = {}
      OBVIOUS
    <3> QED
      BY <3>1 DEF Saved
  <2> QED
    BY <2>2, <2>3, <2>4, SavedSame
<1>2. CASE cmd = "backup"
  <2>0. Saved(Where, file, blk, rval) /\ UNCHANGED db
    <3>1. ~Stored \/ UNCHANGED db
      <4>1. CASE IcStep
        BY <1>2, <4>1, IcAsked DEF Inv
      <4>2. CASE ~IcStep
        BY <4>2, InStepKept
      <4> QED
        BY <4>1, <4>2
    <3> QED
      BY <1>2, <3>1, InStepKept DEF SavedInv
  <2>1. CASE SendByte \/ IcStep \/ LineFault \/ UNCHANGED vars
    BY <2>0, <2>1, QuietStep, SavedSame
  <2>2. CASE GetByte
    BY <2>0, <2>2, GetByteGoes, SavedFailed, SavedSame DEF Inv
  <2>3. CASE RecvData
    <3>1. Where = "recv data" /\ UNCHANGED <<blk, file>>
      BY <2>3 DEF RecvData, Where
    <3>2. Where' = "recv sum" \/ (Where' = "end" /\ rval' = "ERR")
      <4>1. Goto("recv sum") \/ Xmit("recv", "recv data", "got block")
        BY <2>3 DEF RecvData
      <4>2. Goto("recv sum") \/ Fail
        BY <4>1 DEF Xmit
      <4> QED
        BY <4>2 DEF Goto, Fail, Where
    <3>3. Saved("recv sum", file, blk, rval')
      BY <2>0, <3>1 DEF Saved, Reading
    <3> QED
      BY <2>0, <3>1, <3>2, <3>3, SavedFailed, SavedSame
  <2>4. CASE RecvSum
    <3>1. Where = "recv sum" /\ UNCHANGED <<blk, file>>
      BY <2>4 DEF RecvSum, Where
    <3>2. \E rc \in {"OK", "chksum"} : Xmit(rc, "recv data", "got block")
      BY <2>4 DEF RecvSum
    <3>3. \/ Mcmdrsp("nak", "gotack", "recv data")
          \/ Mcmdrsp("ack", "gotack", "got block")
          \/ Fail
      BY <3>2 DEF Xmit
    <3>4. Where' \in {"recv data", "got block"} \/ (Where' = "end" /\ rval' = "ERR")
      <4>1. CASE Mcmdrsp("nak", "gotack", "recv data")
        <5>1. Where' = "recv data"
          BY <4>1 DEF Mcmdrsp, Where
        <5> QED
          BY <5>1
      <4>2. CASE Mcmdrsp("ack", "gotack", "got block")
        <5>1. Where' = "got block"
          BY <4>2 DEF Mcmdrsp, Where
        <5> QED
          BY <5>1
      <4>3. CASE Fail
        BY <4>3 DEF Fail, Where
      <4> QED
        BY <3>3, <4>1, <4>2, <4>3
    <3>5. Saved("recv data", file, blk, rval') /\ Saved("got block", file, blk, rval')
      BY <2>0, <3>1 DEF Saved, Reading
    <3> QED
      BY <2>0, <3>1, <3>4, <3>5, SavedFailed, SavedSame
  <2>5. CASE ReadBlock
    <3>1. /\ blk \in Blocks /\ Len(file) = blk * BlkLen /\ file \in Seq(AnyByte)
          /\ buf = db[blk] /\ buf \in Seq(AnyByte) /\ Len(buf) = BlkLen
      BY <2>5, BlockWritten
    <3>2. Where = "got block"
      BY <2>5 DEF ReadBlock, Where
    <3>3. \/ Where' = "end" /\ rval' = "ERR"
          \/ /\ file' = file \o buf
             /\ \/ blk < NBlocks /\ blk' = blk + 1 /\ Where' = "recv data"
                \/ ~(blk < NBlocks) /\ blk' = 0 /\ Where' = "info"
      BY <2>5 DEF ReadBlock, Written, Goto, Fail, Where
    <3>4. Len(buf) <= BlkLen
      BY <3>1, Facts
    <3>5. /\ \A j \in 0 .. blk - 1 : Chunk(file \o buf, j) = Chunk(file, j)
          /\ Chunk(file \o buf, blk) = buf
      BY <3>1, <3>4, ChunksAppended
    <3>6. \A j \in 0 .. blk - 1 : Chunk(file, j) = db[j]
      BY <2>0, <3>2 DEF Saved, Reading
    <3>7. \A j \in 0 .. blk : Chunk(file \o buf, j) = db[j]
      <4>1. \A j \in 0 .. blk : j = blk \/ j \in 0 .. blk - 1
        BY <1>0, <3>1
      <4> QED
        BY <3>1, <3>5, <3>6, <4>1
    <3>8. CASE file' = file \o buf /\ blk < NBlocks /\ blk' = blk + 1 /\ Where' = "recv data"
      <4>1. (blk + 1) - 1 = blk
        BY <1>0, <3>1
      <4>2. Saved("recv data", file \o buf, blk + 1, rval')
        BY <3>7, <4>1 DEF Saved
      <4> QED
        BY <2>0, <3>8, <4>2, SavedSame
    <3>9. CASE file' = file \o buf /\ ~(blk < NBlocks) /\ blk' = 0 /\ Where' = "info"
      <4>1. 0 .. blk = Blocks
        BY <1>0, <3>1, <3>9
      <4>2. Saved("info", file \o buf, 0, rval')
        BY <3>7, <4>1 DEF Saved, Reading
      <4> QED
        BY <2>0, <3>9, <4>2, SavedSame
    <3> QED
      BY <2>0, <3>3, <3>8, <3>9, SavedFailed, SavedSame
  <2>6. CASE GetInfo
    <3>1. Where = "info" /\ Where' = "get info" /\ UNCHANGED <<file, blk, rval>>
      BY <2>6 DEF GetInfo, Mcmdrsp, local, Where
    <3>2. Saved("get info", file, blk, rval)
      BY <2>0, <3>1 DEF Saved, Reading
    <3> QED
      BY <2>0, <3>1, <3>2, SavedSame
  <2>7. CASE ReadInfo
    <3>1. Where = "get info"
      BY <2>7 DEF ReadInfo, Where
    <3>2. Len(file) >= Size /\ file \in Seq(AnyByte)
      BY <1>2, <3>1 DEF Inv, BlocksInv, FileInv
    <3>3. PICK r \in com_recv(1) :
             IF r.got = <<>> THEN Fail /\ UNCHANGED <<blk, tries, file, faults>>
             ELSE Written(r.got, /\ blk' = blk + 1 /\ UNCHANGED tries
                                 /\ Goto(IF blk = 0 THEN "info" ELSE "end"))
      BY <2>7 DEF ReadInfo
    <3>4. \/ Where' = "end" /\ rval' = "ERR"
          \/ Where' \in {"info", "end"} /\ file' = file \o r.got
      BY <3>3 DEF Written, Goto, Fail, Where
    <3>5. r.got \in Seq(AnyByte)
      BY LineReceives DEF Inv
    <3>6. \A j \in Blocks : Chunk(file \o r.got, j) = Chunk(file, j)
      BY <3>2, <3>5, ChunksStay
    <3>7. \A j \in Blocks : Chunk(file \o r.got, j) = db[j]
      BY <2>0, <3>1, <3>6 DEF Saved
    <3>8. /\ Saved("info", file \o r.got, blk', rval')
          /\ Saved("end", file \o r.got, blk', rval')
      BY <3>7 DEF Saved, Reading
    <3> QED
      BY <2>0, <3>4, <3>8, SavedFailed, SavedSame
  <2>8. CASE Disconnect
    BY <2>8 DEF Disconnect
  <2> QED
    BY <1>2, <2>1, <2>2, <2>3, <2>4, <2>5, <2>6, <2>7, <2>8, BackupSteps DEF Inv
<1> QED
  BY <1>1, <1>2

(* A restore only gets to its end without an error after the last block.   *)
LEMMA RestoreEnds ==
  ASSUME Inv, [Steps]_vars, cmd' = "restore", pc' = "end", rval' = "OK"
  PROVE  /\ cmd = "restore" /\ UNCHANGED file
         /\ \/ pc = "end" /\ rval = "OK" /\ (IcStep \/ UNCHANGED db)
            \/ WriteBlock /\ ~(blk < NBlocks)
<1>1. ~(\E c \in {"backup", "restore"} : Start(c))
  BY DEF Start
<1>2. ~(SendByte \/ RecvData \/ RecvSum \/ SendData \/ CheckSum \/ GetInfo \/ RestInit
        \/ RestData \/ ReadFile \/ CompareInfo \/ Disconnect)
  <2>1. ~Fail
    BY DEF Fail
  <2>2. \A rc, a, b : ~Xmit(rc, a, b)
    BY <2>1 DEF Xmit, Mcmdrsp
  <2>3. ~(RecvData \/ RecvSum \/ CheckSum)
    BY <2>2 DEF RecvData, RecvSum, CheckSum, Goto
  <2> QED
    BY <2>1, <2>3 DEF SendByte, SendData, GetInfo, RestInit, RestData, ReadFile, CompareInfo,
       Disconnect, Goto, Mcmdrsp
<1>3. ~GetByte
  <2>1. SUFFICES ASSUME GetByte PROVE FALSE
    OBVIOUS
  <2>2. pc = "get byte" /\ UNCHANGED cmd /\ (Goto(call.then) \/ Again)
    BY <2>1 DEF GetByte, local
  <2>3. ~Again
    BY DEF Again, Fail
  <2>4. call.then = "end"
    BY <2>2, <2>3 DEF Goto
  <2> QED
    BY <2>4 DEF Inv, CallInv, Calls, Reading, Restoring
<1>4. ~ReadBlock /\ ~ReadInfo
  <2>1. ReadBlock => FALSE
    <3> SUFFICES ASSUME ReadBlock PROVE FALSE
      OBVIOUS
    <3>1. Where \in Reading /\ UNCHANGED cmd
      BY DEF ReadBlock, Where, Reading
    <3> QED
      BY <3>1, Places
  <2> QED
    BY <2>1 DEF ReadInfo
<1>5. CASE WriteBlock
  BY <1>5 DEF WriteBlock, Goto
<1>6. CASE IcStep \/ LineFault \/ UNCHANGED vars
  BY <1>6 DEF IcStep, LineFault, vars, local, ic35
<1> QED
  BY <1>1, <1>2, <1>3, <1>4, <1>5, <1>6 DEF Steps, Program, LinkNext

LEMMA SavedStep ==
  ASSUME Inv, InStep, SavedInv, [Steps]_vars, [AnswersKept]_vars, ~unseen' PROVE SavedInv'
<1>1. (cmd = "backup" => Saved(Where, file, blk, rval))'
  BY BackupSaved
<1>2. ASSUME cmd' = "restore", pc' = "end", rval' = "OK"
      PROVE  \A j \in Blocks : db'[j] = Chunk(file', j)
  <2>1. CASE pc = "end" /\ rval = "OK" /\ (IcStep \/ UNCHANGED db)
    <3>1. ~IcStep
      BY <2>1 DEF InStep, IcStep
    <3> QED
      BY <1>2, <2>1, <3>1, RestoreEnds DEF SavedInv
  <2>2. CASE WriteBlock /\ ~(blk < NBlocks)
    <3>1. pc = "put block" /\ UNCHANGED <<db, file>>
      BY <2>2 DEF WriteBlock, ic35
    <3>2. Copied(blk + 1)
      BY <3>1 DEF InStep, At
    <3>3. blk \in Blocks
      <4>1. cmd = "restore"
        BY <1>2, RestoreEnds
      <4> QED
        BY <3>1, <4>1 DEF Inv, RestoreInv, Counted, Where, Restoring
    <3>4. Blocks = 0 .. (blk + 1) - 1
      BY <2>2, <3>3, Facts
    <3> QED
      BY <3>1, <3>2, <3>4 DEF Copied
  <2> QED
    BY <1>2, <2>1, <2>2, RestoreEnds
<1> QED
  BY <1>1, <1>2 DEF SavedInv
-----------------------------------------------------------------------------
(* The backup of another IC35 that is there at first has its blocks whole. *)
LEMMA Place ==
  ASSUME NEW k \in Nat, NEW r \in 0 .. BlkLen - 1
  PROVE  (k * BlkLen + r) \div BlkLen = k /\ (k * BlkLen + r) % BlkLen = r
<1>1. BlkLen \in Nat /\ BlkLen > 1 /\ r \in Nat /\ r < BlkLen
  BY Facts
<1>2. (k * BlkLen + r) \div BlkLen = k
  BY <1>1, Z3
<1>3. (k * BlkLen + r) % BlkLen = r
  BY <1>1, Z3
<1> QED
  BY <1>2, <1>3

LEMMA WholeInit == Init => WholeInv
<1> SUFFICES ASSUME Init PROVE WholeInv
  OBVIOUS
<1>1. ASSUME NEW k \in Blocks PROVE db[k] \in Images
  BY DEF Init, Images
<1>2. ASSUME NEW k \in Blocks, Len(Chunk(file, k)) = BlkLen PROVE Chunk(file, k) \in Images
  <2> DEFINE h == [i \in 1 .. Size |-> Contents("file", (i - 1) \div BlkLen)[((i - 1) % BlkLen) + 1]]
             t == <<Info("file"), Info("file")>>
             c == Chunk(file, k)
             m == k * BlkLen
  <2>1. /\ k \in Nat /\ m \in Nat /\ m + BlkLen <= Size /\ Size \in Nat
        /\ BlkLen \in Nat /\ BlkLen > 1
    BY SizeOf, Facts
  <2>2. file = h \o t
    BY DEF Init, Image, Size
  <2>3. file \in Seq(AnyByte)
    BY FileInit DEF FileInv
  <2>4. c \in Seq(AnyByte) /\ Len(c) = BlkLen /\ \A i \in 1 .. BlkLen : c[i] = file[m + i]
    <3> HIDE DEF m
    <3>1. /\ Part(file, m, BlkLen) \in Seq(AnyByte)
          /\ \A i \in 1 .. Len(Part(file, m, BlkLen)) : Part(file, m, BlkLen)[i] = file[m + i]
      BY <2>1, <2>3, PartIn
    <3>2. c = Part(file, m, BlkLen)
      BY DEF Chunk, m
    <3> HIDE DEF c
    <3>3. Len(c) = BlkLen
      BY <1>2 DEF c
    <3> QED
      BY <3>1, <3>2, <3>3
  <2>5. Len(h) = Size
    BY <2>1
  <2>6. ASSUME NEW i \in 1 .. BlkLen PROVE c[i] = <<"file", k, i>>
    <3>1. m + i \in 1 .. Size
      BY <2>1
    <3>2. file[m + i] = h[m + i]
      <4>2. \A j \in 1 .. Len(h) : (h \o t)[j] = h[j]
        <5> DEFINE S == {h[j] : j \in 1 .. Size} \cup {Info("file")}
        <5>1. \A j \in 1 .. Size : h[j] \in S
          OBVIOUS
        <5>2. h \in [1 .. Size -> S] /\ Info("file") \in S
          <6>1. Info("file") \in S
            OBVIOUS
          <6>2. \A x : h \in [1 .. Size -> x] <=> \A j \in 1 .. Size : h[j] \in x
            <7> HIDE DEF S
            <7> QED
              OBVIOUS
          <6> HIDE DEF h, S
          <6> QED
            BY <5>1, <6>1, <6>2
        <5>3. t \in Seq(S)
          BY <5>2, OneByte
        <5> HIDE DEF h, t, S
        <5>4. h \in Seq(S)
          BY <2>1, <5>2, SeqDef
        <5>5. Len(h) \in Nat /\ Len(t) \in Nat
          BY <5>3, <5>4, LenProperties
        <5> QED
          BY <5>3, <5>4, <5>5, ConcatProperties
      <4> HIDE DEF h, t
      <4> QED
        BY <2>2, <2>5, <3>1, <4>2
    <3>3. h[m + i] = Contents("file", (m + (i - 1)) \div BlkLen)[((m + (i - 1)) % BlkLen) + 1]
      <4>1. (m + i) - 1 = m + (i - 1)
        BY <2>1
      <4> QED
        BY <3>1, <4>1
    <3>4. (m + (i - 1)) \div BlkLen = k /\ (m + (i - 1)) % BlkLen = i - 1
      <4>1. i - 1 \in 0 .. BlkLen - 1
        BY <2>1
      <4> QED
        BY <2>1, <4>1, Place
    <3>5. (i - 1) + 1 = i
      OBVIOUS
    <3>6. Contents("file", k)[i] = <<"file", k, i>>
      BY DEF Contents
    <3> HIDE DEF h, m, c
    <3>7. h[m + i] = Contents("file", k)[i]
      BY <3>3, <3>4, <3>5
    <3> QED
      BY <2>4, <3>2, <3>6, <3>7
  <2> HIDE DEF c
  <2>7. c = Contents("file", k)
    <3>1. c = [i \in 1 .. BlkLen |-> c[i]]
      BY <2>4
    <3> QED
      BY <2>6, <3>1 DEF Contents
  <2> QED
    BY <2>7 DEF c, Images
<1> QED
  BY <1>1, <1>2 DEF WholeInv

LEMMA WholeStep ==
  ASSUME Inv, InStep, WholeInv, [Steps]_vars, [AnswersKept]_vars, ~unseen' PROVE WholeInv'
<1>1. ASSUME NEW k \in Blocks PROVE db'[k] \in Images
  <2>1. CASE UNCHANGED db
    BY <2>1 DEF WholeInv
  <2>2. CASE Stored
    <3>1. db' = [db EXCEPT ![blk] = buf] /\ buf = Chunk(file, blk) /\ Len(buf) = BlkLen
      BY <2>2 DEF Stored, HasBlock
    <3>2. k = blk => db'[k] = Chunk(file, k) /\ Len(Chunk(file, k)) = BlkLen
      BY <3>1 DEF Inv, LineInv
    <3>3. k # blk => db'[k] = db[k]
      BY <3>1 DEF Inv, LineInv
    <3> QED
      BY <3>2, <3>3 DEF WholeInv
  <2> QED
    BY <2>1, <2>2, InStepKept
<1>2. ASSUME NEW k \in Blocks, Len(Chunk(file', k)) = BlkLen PROVE Chunk(file', k) \in Images
  <2>0. file \in Seq(AnyByte)
    BY DEF Inv, FileInv
  <2>1. CASE UNCHANGED file
    BY <1>2, <2>1 DEF WholeInv
  <2>2. CASE Start("backup")
    <3>1. file' = <<>> /\ <<>> \in Seq(AnyByte) /\ Len(<<>>) = 0
      BY <2>2, EmptySeq DEF Start
    <3>2. k * BlkLen + BlkLen <= 0
      BY <1>2, <3>1, ChunkFull
    <3>3. k * BlkLen \in Nat /\ BlkLen \in Nat /\ BlkLen > 1
      BY SizeOf, Facts
    <3> QED
      BY <3>2, <3>3
  <2>3. CASE ReadBlock
    <3>1. /\ blk \in Blocks /\ Len(file) = blk * BlkLen /\ buf = db[blk]
          /\ \E y \in Seq(AnyByte) :
               file' = file \o y /\ Len(y) <= BlkLen /\ (Len(y) = BlkLen => y = buf)
      BY <2>3, BlockWritten
    <3>2. PICK y \in Seq(AnyByte) :
            file' = file \o y /\ Len(y) <= BlkLen /\ (Len(y) = BlkLen => y = buf)
      BY <3>1
    <3>3. k \in 0 .. blk - 1 \/ (k = blk /\ Len(y) = BlkLen)
      BY <1>2, <2>0, <3>1, <3>2, ChunksAppended
    <3>4. CASE k \in 0 .. blk - 1
      <4>1. Chunk(file', k) = Chunk(file, k)
        BY <2>0, <3>1, <3>2, <3>4, ChunksAppended
      <4> QED
        BY <1>2, <4>1 DEF WholeInv
    <3>5. CASE k = blk /\ Len(y) = BlkLen
      <4>1. Chunk(file', k) = db[k]
        BY <2>0, <3>1, <3>2, <3>5, ChunksAppended
      <4> QED
        BY <4>1 DEF WholeInv
    <3> QED
      BY <3>3, <3>4, <3>5
  <2>4. CASE ReadInfo
    <3>1. Where = "get info" /\ cmd = "backup"
      BY <2>4 DEF ReadInfo, Where
    <3>2. Len(file) >= Size
      BY <3>1 DEF Inv, BlocksInv
    <3>3. \E y \in Seq(AnyByte) : file' = file \o y
      <4>1. PICK r \in com_recv(1) :
               IF r.got = <<>> THEN Fail /\ UNCHANGED <<blk, tries, file, faults>>
               ELSE Written(r.got, /\ blk' = blk + 1 /\ UNCHANGED tries
                                   /\ Goto(IF blk = 0 THEN "info" ELSE "end"))
        BY <2>4 DEF ReadInfo
      <4>2. r.got \in Seq(AnyByte)
        BY LineReceives DEF Inv
      <4>3. \/ UNCHANGED file
            \/ file' = file \o r.got
            \/ \E n \in {0, Len(r.got) - 1} : file' = file \o SubSeq(r.got, 1, n)
        BY <4>1 DEF Written
      <4>4. CASE UNCHANGED file
        <5>1. file' = file \o <<>> /\ <<>> \in Seq(AnyByte)
          BY <2>0, <4>4, ConcatEmptySeq, EmptySeq
        <5> QED
          BY <5>1
      <4>5. CASE \E n \in {0, Len(r.got) - 1} : file' = file \o SubSeq(r.got, 1, n)
        BY <4>2, <4>5, CutWritten
      <4> QED
        BY <4>2, <4>3, <4>4, <4>5
    <3>4. Chunk(file', k) = Chunk(file, k)
      BY <2>0, <3>2, <3>3, ChunksStay
    <3> QED
      BY <1>2, <3>4 DEF WholeInv
  <2>5. UNCHANGED file \/ Start("backup") \/ ReadBlock \/ ReadInfo
    <3>1. ASSUME NEW c \in {"backup", "restore"}, Start(c)
          PROVE  UNCHANGED file \/ Start("backup")
      BY <3>1 DEF Start
    <3>2. Program \/ IcStep \/ LineFault \/ UNCHANGED vars => UNCHANGED file \/ ReadBlock \/ ReadInfo
      BY DEF Program, LinkNext, SendByte, GetByte, RecvData, RecvSum, SendData, CheckSum,
         GetInfo, CompareInfo, RestInit, RestData, ReadFile, WriteBlock,
         Disconnect, IcStep, LineFault, vars, local
    <3> QED
      BY <3>1, <3>2 DEF Steps
  <2> QED
    BY <2>1, <2>2, <2>3, <2>4, <2>5
<1> QED
  BY <1>1, <1>2 DEF WholeInv, Images
-----------------------------------------------------------------------------
KeptInv == InStep /\ SavedInv /\ WholeInv

LEMMA KeptInductive == Spec /\ [][AnswersKept]_vars => [](~unseen => KeptInv)
<1>1. Init => KeptInv
  BY InStepInit, WholeInit DEF Init, SavedInv, KeptInv
<1>2. ASSUME Inv, KeptInv, [Steps]_vars, [AnswersKept]_vars, ~unseen' PROVE KeptInv'
  BY <1>2, InStepKept, SavedStep, WholeStep DEF KeptInv
<1>3. (~unseen => Inv) /\ (~unseen => KeptInv) /\ [Next]_vars /\ [AnswersKept]_vars
        => (~unseen => KeptInv)'
  BY <1>2, NothingUnseen
<1> QED
  BY <1>1, <1>3, Inductive, PTL DEF Spec

(* Whatever else the line loses or garbles, and however many times: while  *)
(* the answers arrive, no sum agrees by chance with data it was not made   *)
(* of, and fclose() loses nothing, a backup that readdatabase() reports as *)
(* done holds every block of the IC35 at its place.                        *)
THEOREM WholeBackup == Spec /\ [][AnswersKept]_vars => []BackupWhole
<1>1. (~unseen => KeptInv) => BackupWhole
  BY DEF KeptInv, SavedInv, Saved, BackupWhole, Succeeded, Where
<1> QED
  BY <1>1, KeptInductive, PTL

(* A restore that writedatabase() reports as done has then put every block *)
(* of the file at its place in the IC35, under the same conditions.        *)
THEOREM WholeRestore == Spec /\ [][AnswersKept]_vars => []RestoreWhole
<1>1. (~unseen => KeptInv) => RestoreWhole
  BY DEF KeptInv, SavedInv, RestoreWhole, Succeeded
<1> QED
  BY <1>1, KeptInductive, PTL

(* And no block of the IC35 is cut or mixed until a sum agrees by chance,  *)
(* not even when writedatabase() restores what a failed backup has left in *)
(* the file.                                                               *)
THEOREM WholeBlocks == Spec /\ [][AnswersKept]_vars => []BlocksWhole
<1>1. (~unseen => KeptInv) => BlocksWhole
  BY DEF KeptInv, WholeInv, Images, BlocksWhole
<1> QED
  BY <1>1, KeptInductive, PTL
=============================================================================
