--------------------------- MODULE SyncTransProofs ---------------------------
(***************************************************************************)
(* The transactions of syntrans.c implement what their callers rely on     *)
(* (TransContract), for every number and size of records, blocks, tries    *)
(* and transactions, whatever PDU is lost or garbled, until an answer      *)
(* comes after its time-out.                                               *)
(*                                                                         *)
(* As long as nothing was late the line is empty between two PDUs          *)
(* (QuietInv), so the response read is the one the IC35 holds; and that    *)
(* was made by the command just sent, for the program goes on to ask for   *)
(* a response only when the select of that command was acknowledged        *)
(* (RspInv).  There is one exception: _read_frec does not look at whether  *)
(* its command for the next block was sent.  It may then read the response *)
(* to the block before once more, if the exit of that one was lost too;    *)
(* with only one PDU lost in the session it can not (ReadInv).             *)
(*                                                                         *)
(* What is late breaks all of that; what remains is which step a           *)
(* transaction may make on the IC35, and that it makes it once.            *)
(***************************************************************************)
EXTENDS SyncTrans, SequenceTheorems, FiniteSetTheorems, WellFoundedInduction, TLAPS

Sending == {"init", "select", "request", "exit"}
Done    == {"request", "exit"}
Changes == Contract!Changes
Readers == {"read_id_frec", "read_frec", "read_mod_frec"}
Writers == {"write_frec", "update_frec"}
Bytes   == UNION {ToSet(r) : r \in Records}
Stored  == {NoRec} \cup [data : Records \cup {<<>>}, chg : {"clean", "mod", "del"}]

(* The commands a transaction is made of.                                  *)
CmdsOf(op) ==
  CASE op = "connect"       -> {"ident", "getpower", "password", "getdtime", "disconn"}
    [] op = "disconnect"    -> {"disconn"}
    [] op = "read_id_frec"  -> {"fgetirec", "fgetmore"}
    [] op = "read_frec"     -> {"fgetrec", "fgetmore"}
    [] op = "read_mod_frec" -> {"fgetmrec", "fgetmore"}
    [] op = "write_frec"    -> {"fputrec", "fputmore"}
    [] op = "update_frec"   -> {"fupdrec", "fputmore"}
    [] op = "delete_frec"   -> {"fdelrec"}
    [] op = "commit_frec"   -> {"fclrchg"}
    [] op = "WriteSysInfo"  -> {"setdtime"}
    [] op \in DOMAIN Single -> {Single[op]}
    [] OTHER                -> {}

(* Whatever happens: the fields of what is kept, and the command that      *)
(* belongs to the transaction and to the block it is at.                   *)
IsCmd(c) == c = [id |-> c.id, rid |-> c.rid, data |-> c.data, last |-> c.last]
Shape ==
  /\ losts \in Nat /\ lates \in Nat
  /\ ic = [mode |-> ic.mode, rsp |-> ic.rsp, out |-> ic.out, wr |-> ic.wr]
  /\ IsCmd(ic.wr)
  /\ loc = [step |-> loc.step, tries |-> loc.tries, ptr |-> loc.ptr, rid |-> loc.rid,
            chg |-> loc.chg, data |-> loc.data]
  /\ ic.mode \in {"off", "started", "welcomed", "on", "leaving"}

CmdInv ==
  /\ pc \in Sending \cup {"idle", "GOT_NONE", "GOT_WELCOME", "com_exit"}
  /\ pc = "idle" <=> call.op = "none"
  /\ pc \in {"GOT_NONE", "GOT_WELCOME"} => call.op = "connect"
  /\ pc = "com_exit" => call.op \in {"connect", "disconnect"} /\ cmd.id # "fgetmore"
  /\ pc \in {"idle", "GOT_NONE", "GOT_WELCOME"} => cmd = NoCmd
  /\ pc \in Sending =>
       /\ cmd.id \in CmdsOf(call.op)
       /\ call.op \in {"read_id_frec", "read_frec", "delete_frec", "commit_frec"}
            /\ cmd.id # "fgetmore" => cmd.rid = call.id
       /\ call.op = "WriteSysInfo" => cmd.data = call.data
       /\ call.op \in Readers /\ cmd.id # "fgetmore" => loc.data = <<>>
       /\ call.op \in Writers =>
            /\ call.data \in Records /\ loc.ptr \in 0 .. Len(call.data) - 1
            /\ cmd = WriteCmd(call, loc.ptr)
       /\ call.op \in {"delete_frec", "commit_frec", "update_frec"} => call.id \in Ids
       /\ call.op = "read_frec" => call.id \in 0 .. Cardinality(Contract!Exists(dev)) - 1
       /\ call.op = "connect" /\ cmd.id # "disconn" =>
            loc.step \in 1 .. 4 /\ cmd.id = Steps[loc.step]

(* The IC35 makes its step for a transaction when it executes the command, *)
(* and the last block of a write.                                          *)
DidInv ==
  /\ pc \in {"GOT_NONE", "GOT_WELCOME", "init", "select", "com_exit"} => did = NoWork
  /\ pc \in Done /\ did # NoWork => call.op \in Changes /\ (call.op \in Writers => cmd.last)

(* With no answer late: nothing is on the line between two PDUs, and the   *)
(* IC35 is connected when the program thinks so.                           *)
DevInv == dev \in [Ids -> Stored]

QuietInv ==
  /\ line = <<>>
  /\ pc = "GOT_WELCOME" => ic.mode \in {"welcomed", "on"}

ModeInv ==
  /\ pc = "idle" /\ open => ic.mode = "on"
  /\ call.op \notin {"none", "connect", "disconnect"} => ic.mode = "on" /\ open
  /\ call.op = "connect" /\ cmd.id # "disconn" /\ pc \in Done => ic.mode = "on"

(* The response to the command just executed, the blocks received of the   *)
(* record being written, and the data left of the one being read.          *)
FirstBlock(i) == Rsp("rec", Len(dev[i].data) <= ReadLen,
                      [Contract!Found(i) EXCEPT !.data = Cut(@, ReadLen)])
Wanted(i) ==
  CASE call.op = "read_id_frec"  -> i = call.id /\ i \in Contract!Exists(dev)
    [] call.op = "read_frec"     -> i = Contract!Nth(Contract!Exists(dev), call.id)
    [] OTHER                     -> i \in Contract!Changed(dev)
Absent(r) == call.op = "read_id_frec" /\ call.id \notin Contract!Exists(dev)
              /\ r = Rsp("rec", TRUE, Contract!NonExist)
Partial(n) == [id |-> WriteId(call, 0), rid |-> call.id, data |-> SubSeq(call.data, 1, n), last |-> FALSE]

Firsts == {"fgetirec", "fgetrec", "fgetmrec"}
RightRsp(r) ==
  /\ cmd.id = "getdtime" => r = Rsp("info", TRUE, info)
  /\ cmd.id = "fgetlen"  => r = Rsp("len", TRUE, Cardinality(Contract!Exists(dev)))
  /\ cmd.id = "fgetmlen" => r = Rsp("len", TRUE, Cardinality(Contract!Changed(dev)))
  /\ cmd.id \in Firsts =>
       \/ Absent(r)
       \/ \E i \in Ids : /\ Wanted(i) /\ r = FirstBlock(i)
                         /\ ic.out = Rest(dev[i].data, ReadLen)
  /\ call.op \in Writers /\ cmd.last => did.done /\ r = Rsp("id", TRUE, did.rid)
  /\ call.op \in Writers /\ ~ cmd.last => r = Rsp("cont", FALSE, 0)
  /\ call.op \in Changes \ Writers => did.done

RspInv ==
  cmd.id \notin {"fgetmore", "disconn"} =>
    /\ pc = "request" => RightRsp(ic.rsp)
    /\ pc = "exit" => rsp = NoRsp \/ RightRsp(rsp)

WrInv ==
  call.op \in Writers =>
    /\ pc \in {"init", "select"} /\ loc.ptr > 0 => ic.wr = Partial(loc.ptr)
    /\ pc \in Done /\ ~ cmd.last => ic.wr = Partial(loc.ptr + Len(cmd.data))

More(r) ==
  \/ r = NoRsp
  \/ \E d \in Seq(Bytes) : /\ r = Rsp("more", ic.out = <<>>, [data |-> d])
                           /\ dev[loc.rid].data = (loc.data \o d) \o ic.out
ReadInv ==
  losts <= 1 /\ cmd.id = "fgetmore" =>
    /\ loc.rid \in Ids /\ Wanted(loc.rid) /\ loc.chg = dev[loc.rid].chg
    /\ loc.data \in Seq(Bytes) /\ ic.out \in Seq(Bytes)
    /\ pc \in {"init", "select"} => /\ dev[loc.rid].data = loc.data \o ic.out
                                    /\ ic.rsp = NoRsp \/ losts = 1
    /\ pc = "request" => More(ic.rsp)
    /\ pc = "exit" => More(rsp)

InTimeInv == lates = 0 =>
  DevInv /\ QuietInv /\ ModeInv /\ RspInv /\ WrInv /\ ReadInv

(* With nothing lost either: the IC35 leaves before the line is closed.    *)
OffInv == losts + lates = 0 =>
  /\ ~ open => ic.mode # "on" /\ pc \in {"idle", "com_exit"}
  /\ pc = "com_exit" => ic.mode # "on"
  /\ cmd.id = "disconn" /\ pc \in Done => ic.mode # "on"

Inv == Shape /\ CmdInv /\ DidInv /\ InTimeInv /\ OffInv

(* What a step does to what callers see; InTime: no answer was late, and   *)
(* not more than one PDU lost if more blocks of a record are being read.   *)
cvars == <<dev, info, call, did, ret>>
InTime == lates' = 0 /\ (cmd.id = "fgetmore" => losts' <= 1)

(* Every step in time is one that TransContract allows.                    *)
RightInTime == [][InTime => Contract!Next]_cvars
Ends == call.op # "none" /\ call'.op = "none" /\ UNCHANGED <<dev, info, did>>

(* The IC35 changes only by the step of the transaction that is being      *)
(* done, and once, but by a block that continues a write and an answer     *)
(* that was late.                                                          *)
NoStrayStep == [][(lates' = 0 \/ cmd.id # "fputmore") => Contract!Call \/ Contract!Step \/ Ends]_cvars

Promise ==
  /\ lates' = 0 \/ cmd.id # "fputmore" =>
       Contract!Call \/ Contract!Step \/ Ends \/ UNCHANGED cvars
  /\ InTime => Contract!Next \/ UNCHANGED cvars

-----------------------------------------------------------------------------
(* What is received of a PDU sent, with the line empty before.             *)
LEMMA Sent ==
  ASSUME losts \in Nat, NEW a, NEW s \in L1send(a)
  PROVE  /\ s.lost \in {0, 1} /\ losts + s.lost \in Nat
         /\ \/ s.now = line \o a /\ s.lost = 0 /\ s.arrived
            \/ s.now = line /\ s.lost = 1 /\ ~ s.arrived
            \/ a # <<>> /\ s.now \in {line, line \o Spoilt(a)} /\ s.lost = 1 /\ s.arrived
<1>1. \/ s \in [now : {line \o a}, lost : {0}, arrived : {TRUE}]
      \/ s \in [now : {line}, lost : {1}, arrived : {FALSE}]
      \/ a # <<>> /\ s \in [now : {line, line \o Spoilt(a)}, lost : {1}, arrived : {TRUE}]
  <2>1. CASE losts = MaxLost
    BY <2>1 DEF L1send
  <2>2. CASE losts # MaxLost /\ a = <<>>
    BY <2>2 DEF L1send
  <2>3. CASE losts # MaxLost /\ a # <<>>
    BY <2>3 DEF L1send
  <2> QED
    BY <2>1, <2>2, <2>3
<1>2. \/ s.now = line \o a /\ s.lost = 0 /\ s.arrived
      \/ s.now = line /\ s.lost = 1 /\ ~ s.arrived
      \/ a # <<>> /\ s.now \in {line, line \o Spoilt(a)} /\ s.lost = 1 /\ s.arrived
  BY <1>1
<1>3. s.lost \in {0, 1}
  BY <1>2
<1> QED
  BY <1>2, <1>3

LEMMA Heard ==
  ASSUME lates \in Nat, NEW s, NEW there, NEW nothing, NEW r \in L1recv(s, there, nothing)
  PROVE  /\ lates + r.late \in Nat
         /\ lates + r.late = 0 => lates = 0 /\ r.got \in there /\ r.rest = r.got.rest
BY DEF L1recv

LEMMA Transferred ==
  ASSUME losts \in Nat, lates \in Nat, NEW a, NEW s \in L1send(a), NEW there, NEW nothing,
         NEW r \in L1recv(s, there, nothing), Transfer(s, r)
  PROVE  /\ line' = r.rest /\ losts' \in Nat /\ lates' \in Nat
         /\ lates' = 0 => lates = 0 /\ lates + r.late = 0
         /\ losts' <= 1 => losts <= 1
         /\ losts' + lates' = 0 => losts + lates = 0 /\ s.lost = 0 /\ lates + r.late = 0
         /\ losts' = losts + s.lost
<1>1. line' = r.rest /\ losts' = losts + s.lost /\ lates' = lates + r.late
  BY DEF Transfer
<1>2. s.lost \in {0, 1} /\ losts + s.lost \in Nat
  BY Sent
<1>3. lates + r.late \in Nat /\ (lates + r.late = 0 => lates = 0)
  BY Heard
<1> HIDE DEF Transfer
<1>4. losts' <= 1 => losts <= 1
  BY <1>1, <1>2
<1>5. losts' + lates' = 0 => losts' = 0 /\ lates' = 0
  BY <1>1, <1>2, <1>3
<1>6. losts' = 0 => losts = 0 /\ s.lost = 0
  BY <1>1, <1>2
<1> QED
  BY <1>1, <1>2, <1>3, <1>4, <1>5, <1>6

LEMMA NothingThere ==
  /\ \A g \in Recv1(<<>>) : g.rid = "none" /\ g.rest = <<>>
  /\ \A g \in RecvPdu(<<>>) : g.rsp = NoRsp /\ g.rest = <<>>
<1>1. ASSUME NEW g \in Recv1(<<>>) PROVE g.rid = "none" /\ g.rest = <<>>
  <2>1. g \in [rid : {"none"}, rest : {<<>>}]
    BY DEF Recv1
  <2> QED
    BY <2>1
<1>2. ASSUME NEW g \in RecvPdu(<<>>) PROVE g.rsp = NoRsp /\ g.rest = <<>>
  <2>1. g \in [rsp : {NoRsp}, rest : {<<>>}]
    BY DEF RecvPdu
  <2> QED
    BY <2>1
<1> QED
  BY <1>1, <1>2

LEMMA OneUnit ==
  ASSUME NEW b, b \notin {"bytes", "body"}
  PROVE  \A g \in Recv1(<<Unit(b)>>) : g.rid = b /\ g.rest = <<>>
<1> DEFINE l == <<Unit(b)>>
<1>1. l # <<>> /\ Head(l).b = b /\ Tail(l) = <<>>
  BY DEF Unit
<1>2. Loose(Tail(l)) = <<>>
  BY <1>1 DEF Loose
<1> HIDE DEF l
<1>3. ASSUME NEW g \in Recv1(l) PROVE g.rid = b /\ g.rest = <<>>
  <2>1. g \in [rid : {Head(l).b}, rest : {Loose(Tail(l))}]
    BY <1>1 DEF Recv1
  <2> QED
    BY <1>1, <1>2, <2>1
<1> QED
  BY <1>3 DEF l

LEMMA OneAck ==
  ASSUME losts \in Nat, lates \in Nat, line = <<>>,
         NEW b, b \in {"L1ACK0", "L1ACK1"}, NEW a, a = <<>> \/ a = Ack(b),
         NEW s \in L1send(a), NEW r \in L1recv(s, Recv1(s.now), Recv1(<<>>)),
         lates + r.late = 0
  PROVE  /\ r.rest = <<>>
         /\ r.got.rid = b => a # <<>> /\ s.arrived
         /\ s.lost = 0 /\ a # <<>> => r.got.rid = b
<1>1. r.got \in Recv1(s.now) /\ r.rest = r.got.rest
  BY Heard
<1>2. CASE s.now = <<>>
  <2>1. r.got.rid = "none" /\ r.rest = <<>>
    BY <1>1, <1>2, NothingThere
  <2>2. s.lost = 0 => a = <<>>
    <3>1. CASE a = Ack(b)
      <4>1. <<>> \o a # <<>>
        BY <3>1 DEF Ack
      <4> QED
        BY <1>2, <4>1, Sent
    <3> QED
      BY <3>1
  <2> QED
    BY <2>1, <2>2
<1>3. CASE s.now = Ack(b) /\ a = Ack(b) /\ s.arrived
  <2>1. r.got.rid = b /\ r.rest = <<>>
    BY <1>1, <1>3, OneUnit DEF Ack
  <2> QED
    BY <1>3, <2>1 DEF Ack
<1>4. CASE s.now = Spoilt(Ack(b)) /\ s.lost = 1
  <2>1. Spoilt(Ack(b)) = <<Unit("other")>>
    BY DEF Spoilt, Ack, Unit
  <2>2. r.got.rid = "other" /\ r.rest = <<>>
    BY <1>1, <1>4, <2>1, OneUnit
  <2> QED
    BY <1>4, <2>2
<1>5. \/ s.now = <<>>
      \/ s.now = Ack(b) /\ a = Ack(b) /\ s.arrived
      \/ s.now = Spoilt(Ack(b)) /\ s.lost = 1
  <2>1. <<>> \o Ack(b) = Ack(b) /\ <<>> \o Spoilt(Ack(b)) = Spoilt(Ack(b)) /\ <<>> \o <<>> = <<>>
    BY DEF Ack, Spoilt, Unit
  <2>2. Ack(b) # <<>>
    BY DEF Ack
  <2> QED
    BY <2>1, <2>2, Sent
<1> QED
  BY <1>2, <1>3, <1>4, <1>5

LEMMA OneAnswer ==
  ASSUME losts \in Nat, lates \in Nat, line = <<>>, NEW x, NEW a, a = <<>> \/ a = Data(x),
         NEW s \in L1send(a), NEW r \in L1recv(s, RecvPdu(s.now), RecvPdu(<<>>)),
         lates + r.late = 0
  PROVE  r.rest = <<>> /\ (r.got.rsp = NoRsp \/ (r.got.rsp = x /\ a # <<>>))
<1>1. r.got \in RecvPdu(s.now) /\ r.rest = r.got.rest
  BY Heard
<1>2. CASE s.now = <<>>
  BY <1>1, <1>2, NothingThere
<1>3. ASSUME NEW y, s.now = Data(y) PROVE r.got.rsp = y /\ r.rest = <<>>
  <2> DEFINE l == Data(y)
  <2>1. l # <<>> /\ Head(l).b = "L1DATA" /\ l[2].rsp = y /\ SubSeq(l, 3, Len(l)) = <<>>
    BY DEF Data, Unit
  <2> HIDE DEF l
  <2>2. RecvPdu(l) = [rsp : {y}, rest : {<<>>}]
    BY <2>1 DEF RecvPdu
  <2> QED
    BY <1>1, <1>3, <2>2 DEF l
<1>4. Spoilt(Data(x)) = Data(NoRsp)
  BY DEF Spoilt, Data, Unit
<1>5. s.now = <<>> \/ (s.now = Data(x) /\ a = Data(x)) \/ s.now = Data(NoRsp)
  <2>1. /\ <<>> \o Data(x) = Data(x) /\ <<>> \o Data(NoRsp) = Data(NoRsp) /\ <<>> \o <<>> = <<>>
        /\ Data(x) # <<>>
    BY DEF Data, Unit
  <2> QED
    BY <1>4, <2>1, Sent
<1>6. Data(x) # <<>>
  BY DEF Data
<1> QED
  BY <1>2, <1>3, <1>5, <1>6

LEMMA TextWhole ==
  ASSUME NEW S, NEW l \in Seq(S), NEW text \in Seq(S), Len(l) <= Len(text),
         NEW g \in RecvText(l, text)
  PROVE  g.rest = <<>> /\ (g.ok => l = text) /\ (l = text => g.ok)
<1>1. Len(l) \in Nat /\ Len(text) \in Nat
  BY LenProperties
<1> DEFINE n == IF Len(l) < Len(text) THEN Len(l) ELSE Len(text)
<1>2. n = Len(l)
  BY <1>1
<1> HIDE DEF n
<1>3. g = [ok |-> SubSeq(l, 1, n) = text, rest |-> SubSeq(l, n + 1, Len(l))]
  BY DEF RecvText, n
<1>4. SubSeq(l, 1, Len(l)) = l /\ SubSeq(l, Len(l) + 1, Len(l)) = <<>>
  BY <1>1, SubSeqFull, SubSeqEmpty
<1> QED
  BY <1>2, <1>3, <1>4

LEMMA TextsDiffer == Spoilt(Ready) # WELCOME
<1>1. Spoilt(Ready) = <<Unit("other")>>
  BY DEF Spoilt, Ready, Unit
<1>2. Len(<<Unit("other")>>) = 1 /\ Len(WELCOME) = 2
  BY DEF WELCOME
<1>3. <<Unit("other")>> # WELCOME
  BY DEF WELCOME
<1> QED
  BY <1>1, <1>3

LEMMA OneText ==
  ASSUME losts \in Nat, lates \in Nat, line = <<>>,
         NEW text, text \in {WELCOME, Ready}, NEW a, a \in {WELCOME, Ready, <<>>},
         a = WELCOME => text = WELCOME,
         NEW s \in L1send(a), NEW r \in L1recv(s, RecvText(s.now, text), RecvText(<<>>, text)),
         lates + r.late = 0
  PROVE  r.rest = <<>> /\ (r.got.ok => a = text /\ s.arrived)
<1> DEFINE S == {Unit("W"), Unit("E"), Unit("ready"), Unit("other")}
<1>1. /\ WELCOME \in Seq(S) /\ Ready \in Seq(S) /\ <<>> \in Seq(S)
      /\ Len(WELCOME) = 2 /\ Len(Ready) = 1 /\ Len(<<>>) = 0
      /\ WELCOME # <<>> /\ Ready # <<>>
  BY DEF WELCOME, Ready
<1>2. Spoilt(WELCOME) = <<Unit("W"), Unit("other")>> /\ Spoilt(Ready) = <<Unit("other")>>
  BY DEF Spoilt, WELCOME, Ready, Unit
<1>3. /\ Spoilt(WELCOME) \in Seq(S) /\ Spoilt(Ready) \in Seq(S)
      /\ Len(Spoilt(WELCOME)) = 2 /\ Len(Spoilt(Ready)) = 1
      /\ Spoilt(WELCOME) # WELCOME /\ Spoilt(Ready) # Ready
  <2>1. Unit("other") # Unit("E") /\ Unit("other") # Unit("ready")
    BY DEF Unit
  <2>2. \A x : x \in S => <<x>> \in Seq(S)
    OBVIOUS
  <2>3. \A x, y : x \in S /\ y \in S => <<x, y>> \in Seq(S)
    OBVIOUS
  <2>4. {Unit("W"), Unit("E"), Unit("ready"), Unit("other")} \subseteq S
    OBVIOUS
  <2> HIDE DEF S
  <2>5. Spoilt(WELCOME) \in Seq(S) /\ Spoilt(Ready) \in Seq(S)
    BY <1>2, <2>2, <2>3, <2>4
  <2>6. Len(Spoilt(WELCOME)) = 2 /\ Len(Spoilt(Ready)) = 1
    BY <1>2
  <2>7. Spoilt(WELCOME) # WELCOME /\ Spoilt(Ready) # Ready
    BY <1>2, <2>1 DEF WELCOME, Ready
  <2> QED
    BY <2>5, <2>6, <2>7
<1> HIDE DEF S
<1>10. text \in Seq(S) /\ text # <<>> /\ Len(text) \in {1, 2} /\ (Len(text) = 1 => text = Ready)
  <2>1. CASE text = WELCOME
    BY <1>1, <2>1
  <2>2. CASE text = Ready
    BY <1>1, <2>2
  <2> QED
    BY <2>1, <2>2
<1>4. \A x : x \in Seq(S) => <<>> \o x = x
  BY ConcatEmptySeq
<1>5. r.got \in RecvText(s.now, text) /\ r.rest = r.got.rest
  BY Heard
<1>6. \/ s.now = a /\ s.arrived
      \/ s.now = <<>>
      \/ a # <<>> /\ s.now = Spoilt(a)
  BY <1>1, <1>3, <1>4, Sent
<1>7. CASE s.now = a /\ s.arrived
  <2>1. a \in Seq(S) /\ Len(a) <= Len(text)
    <3>1. CASE a = WELCOME
      BY <1>1, <3>1
    <3>2. CASE a = Ready
      BY <1>1, <1>10, <3>2
    <3>3. CASE a = <<>>
      BY <1>1, <1>10, <3>3
    <3> QED
      BY <3>1, <3>2, <3>3
  <2>2. r.got \in RecvText(a, text)
    BY <1>5, <1>7
  <2>3. r.got.rest = <<>> /\ (r.got.ok => a = text)
    BY <1>10, <2>1, <2>2, TextWhole
  <2> QED
    BY <1>5, <1>7, <2>3
<1>8. CASE s.now = <<>>
  <2>1. Len(<<>>) <= Len(text) /\ <<>> # text
    BY <1>1, <1>10
  <2>2. r.got \in RecvText(<<>>, text)
    BY <1>5, <1>8
  <2>3. r.got.rest = <<>> /\ (r.got.ok => <<>> = text)
    <3> DEFINE e == <<>>
    <3>1. e \in Seq(S) /\ Len(e) <= Len(text) /\ r.got \in RecvText(e, text)
      BY <1>1, <2>1, <2>2
    <3> HIDE DEF e
    <3>2. r.got.rest = <<>> /\ (r.got.ok => e = text)
      BY <1>10, <3>1, TextWhole
    <3> QED
      BY <3>2 DEF e
  <2> QED
    BY <1>5, <2>1, <2>3
<1>9. CASE a # <<>> /\ s.now = Spoilt(a)
  <2>1. Spoilt(a) \in Seq(S) /\ Len(Spoilt(a)) <= Len(text) /\ Spoilt(a) # text
    <3>1. CASE a = WELCOME
      BY <1>1, <1>3, <3>1
    <3>2. CASE a = Ready /\ text = Ready
      BY <1>1, <1>3, <3>2
    <3>3. CASE a = Ready /\ text = WELCOME
      <4>1. Len(Spoilt(Ready)) = 1 /\ Len(WELCOME) = 2 /\ Spoilt(Ready) \in Seq(S)
        BY <1>1, <1>3
      <4>2. Spoilt(Ready) # WELCOME
        BY TextsDiffer
      <4> QED
        BY <3>3, <4>1, <4>2
    <3> QED
      BY <1>9, <3>1, <3>2, <3>3
  <2>2. r.got \in RecvText(Spoilt(a), text)
    BY <1>5, <1>9
  <2>3. r.got.rest = <<>> /\ (r.got.ok => Spoilt(a) = text)
    BY <1>10, <2>1, <2>2, TextWhole
  <2> QED
    BY <1>5, <2>1, <2>3
<1> QED
  BY <1>6, <1>7, <1>8, <1>9

-----------------------------------------------------------------------------
(* Which command the IC35 executes.                                        *)
LEMMA IcDoes ==
  ASSUME NEW c, IcExecutes(c)
  PROVE  /\ c.id = "ident"    => Unchanged(Rsp("ident", TRUE, 0))
         /\ c.id = "getpower" => Unchanged(Rsp("state", TRUE, "powerOK"))
         /\ c.id = "password" => Unchanged(Rsp("state", TRUE, c.data[1]))
         /\ c.id = "category" => Unchanged(Rsp("state", TRUE, 0))
         /\ c.id = "getdtime" => Unchanged(Rsp("info", TRUE, info))
         /\ c.id = "fopen"    => Unchanged(Rsp("fd", TRUE, 0))
         /\ c.id = "fclose"   => Unchanged(Rsp("done", TRUE, 0))
         /\ c.id = "fgetlen"  => Unchanged(Rsp("len", TRUE, Cardinality(Contract!Exists(dev))))
         /\ c.id = "fgetmlen" => Unchanged(Rsp("len", TRUE, Cardinality(Contract!Changed(dev))))
         /\ c.id = "fgetirec" => IF c.rid \in Contract!Exists(dev) THEN SendsRecord(c.rid)
                                 ELSE Unchanged(Rsp("rec", TRUE, Contract!NonExist))
         /\ c.id = "fgetrec"  => SendsRecord(Contract!Nth(Contract!Exists(dev), c.rid))
         /\ c.id = "fgetmrec" => \E i \in Contract!Changed(dev) : SendsRecord(i)
         /\ c.id = "fgetmore" => SendsMore
         /\ c.id \in {"fputrec", "fupdrec"} => Gets(c)
         /\ c.id = "fputmore" => IF ic.wr = NoCmd THEN Unchanged(NoRsp)
                                 ELSE Gets([ic.wr EXCEPT !.data = @ \o c.data, !.last = c.last])
         /\ c.id = "fdelrec"  => /\ Contract!Takes("delete_frec", c.rid, <<>>)
                                 /\ Answers(Rsp("done", TRUE, 0)) /\ UNCHANGED info
         /\ c.id = "fclrchg"  => /\ Contract!Takes("commit_frec", c.rid, <<>>)
                                 /\ Answers(Rsp("done", TRUE, 0)) /\ UNCHANGED info
         /\ c.id = "setdtime" => /\ info' = c.data[1] /\ did' = [done |-> TRUE, rid |-> 0]
                                 /\ Answers(Rsp("done", TRUE, 0)) /\ UNCHANGED dev
         /\ c.id = "disconn"  => /\ ic' = [ic EXCEPT !.rsp = Rsp("done", TRUE, 0), !.mode = "leaving"]
                                 /\ UNCHANGED devvars
BY DEF IcExecutes

LEMMA IcShape ==
  ASSUME Shape
  PROVE  /\ \A r : Answers(r) => ic' = [mode |-> ic.mode, rsp |-> r, out |-> <<>>, wr |-> NoCmd]
         /\ \A x, o, r : ic' = [ic EXCEPT !.wr = x, !.out = o, !.rsp = r] =>
              ic' = [mode |-> ic.mode, rsp |-> r, out |-> o, wr |-> x]
         /\ \A o, r : ic' = [ic EXCEPT !.out = o, !.rsp = r] =>
              ic' = [mode |-> ic.mode, rsp |-> r, out |-> o, wr |-> ic.wr]
         /\ \A x, r : ic' = [ic EXCEPT !.wr = x, !.rsp = r] =>
              ic' = [mode |-> ic.mode, rsp |-> r, out |-> ic.out, wr |-> x]
         /\ \A r, m : ic' = [ic EXCEPT !.rsp = r, !.mode = m] =>
              ic' = [mode |-> m, rsp |-> r, out |-> ic.out, wr |-> ic.wr]
         /\ \A r : ic' = [ic EXCEPT !.rsp = r] =>
              ic' = [mode |-> ic.mode, rsp |-> r, out |-> ic.out, wr |-> ic.wr]
         /\ \A m : ic' = [ic EXCEPT !.mode = m] =>
              ic' = [mode |-> m, rsp |-> ic.rsp, out |-> ic.out, wr |-> ic.wr]
<1> DEFINE Made(m, r, o, x) == [mode |-> m, rsp |-> r, out |-> o, wr |-> x]
<1>1. ic = Made(ic.mode, ic.rsp, ic.out, ic.wr)
  BY DEF Shape
<1>2. PICK m0, r0, o0, x0 : ic = Made(m0, r0, o0, x0)
  BY <1>1
<1>3. ic.mode = m0 /\ ic.rsp = r0 /\ ic.out = o0 /\ ic.wr = x0
  BY <1>2
<1> QED
  BY <1>2, <1>3 DEF Answers

-----------------------------------------------------------------------------
Simples == {"ReadSysInfo", "category", "open_file", "close_file", "get_flen", "get_mod_flen"}

LEMMA SingleCmds ==
  /\ DOMAIN Single = Simples
  /\ \A op \in Simples : Single[op] \in
       {"getdtime", "category", "fopen", "fclose", "fgetlen", "fgetmlen"}
<1>1. DOMAIN Single = Simples
  BY DEF Single, Simples
<1>2. ASSUME NEW op \in Simples
      PROVE  Single[op] \in {"getdtime", "category", "fopen", "fclose", "fgetlen", "fgetmlen"}
  BY DEF Single, Simples
<1> QED
  BY <1>1, <1>2

LEMMA CmdsAre ==
  /\ CmdsOf("connect") = {"ident", "getpower", "password", "getdtime", "disconn"}
  /\ CmdsOf("disconnect") = {"disconn"}
  /\ CmdsOf("read_id_frec") = {"fgetirec", "fgetmore"}
  /\ CmdsOf("read_frec") = {"fgetrec", "fgetmore"}
  /\ CmdsOf("read_mod_frec") = {"fgetmrec", "fgetmore"}
  /\ CmdsOf("write_frec") = {"fputrec", "fputmore"}
  /\ CmdsOf("update_frec") = {"fupdrec", "fputmore"}
  /\ CmdsOf("delete_frec") = {"fdelrec"}
  /\ CmdsOf("commit_frec") = {"fclrchg"}
  /\ CmdsOf("WriteSysInfo") = {"setdtime"}
  /\ \A op \in Simples : CmdsOf(op) = {Single[op]}
BY SingleCmds DEF CmdsOf, Simples

LEMMA ChangesAre ==
  Changes = {"write_frec", "update_frec", "delete_frec", "commit_frec", "WriteSysInfo"}
BY DEF Changes, Contract!Changes

(* A transaction has returned.                                             *)
LEMMA AtIdle ==
  ASSUME pc' = "idle", call' = NoCall, cmd' = NoCmd
  PROVE  CmdInv' /\ DidInv' /\ RspInv' /\ WrInv' /\ ReadInv'
<1>1. call'.op = "none" /\ cmd'.id = "none"
  BY DEF NoCall, Contract!NoCall, NoCmd
<1>2. CmdInv'
  BY <1>1 DEF CmdInv, Sending
<1>3. DidInv'
  BY DEF DidInv, Done
<1>4. RspInv'
  BY DEF RspInv
<1>5. WrInv' /\ ReadInv'
  BY <1>1 DEF WrInv, ReadInv, Writers
<1> QED
  BY <1>2, <1>3, <1>4, <1>5

(* connect() sends the command to disconnect.                              *)
LEMMA AtDisconn ==
  ASSUME pc' = "init", call'.op \in {"connect", "disconnect"}, cmd'.id = "disconn", did' = NoWork
  PROVE  CmdInv' /\ DidInv' /\ RspInv' /\ WrInv' /\ ReadInv'
<1>1. CmdInv'
  BY CmdsAre DEF CmdInv, Sending, Readers, Writers
<1>2. DidInv'
  BY DEF DidInv, Done
<1>3. RspInv' /\ WrInv' /\ ReadInv'
  BY DEF RspInv, WrInv, ReadInv, Writers
<1> QED
  BY <1>1, <1>2, <1>3

LEMMA NoneCalled ==
  ASSUME Inv, pc = "idle" PROVE call.op = "none" /\ (lates = 0 /\ open => ic.mode = "on")
BY DEF Inv, CmdInv, InTimeInv, ModeInv

(* A transaction has been called.                                          *)
LEMMA Begun ==
  ASSUME Inv, NEW op, NEW id, NEW data, NEW c, Does(op, id, data, c), CmdInv',
         op # "none", c.id # "fgetmore"
  PROVE  Inv' /\ Promise
<1>1. /\ pc = "idle" /\ pc' = "init" /\ call' = [op |-> op, id |-> id, data |-> data]
      /\ call'.op = op /\ cmd'.id = c.id /\ did' = NoWork /\ loc' = NoLoc /\ open /\ open'
      /\ UNCHANGED <<losts, lates, line, ic, dev, info, ret, rsp>>
  BY DEF Does, Calls, Sends
<1>2. Shape'
  BY <1>1 DEF Inv, Shape, NoLoc
<1>3. DidInv'
  BY <1>1 DEF DidInv, Done
<1>4. ASSUME lates' = 0 PROVE DevInv' /\ QuietInv' /\ ModeInv' /\ RspInv' /\ WrInv' /\ ReadInv'
  <2>1. DevInv /\ QuietInv /\ ic.mode = "on"
    BY <1>1, <1>4, NoneCalled DEF Inv, InTimeInv
  <2>2. DevInv' /\ QuietInv' /\ ModeInv'
    BY <1>1, <2>1 DEF DevInv, QuietInv, ModeInv, Done
  <2>3. RspInv' /\ WrInv'
    BY <1>1 DEF RspInv, WrInv, Done, NoLoc
  <2>4. ReadInv'
    BY <1>1 DEF ReadInv
  <2> QED
    BY <2>2, <2>3, <2>4
<1>5. OffInv'
  BY <1>1 DEF OffInv, Done
<1>6. Contract!Call
  BY <1>1, NoneCalled DEF Contract!Call, NoWork
<1> QED
  BY <1>2, <1>3, <1>4, <1>5, <1>6 DEF Inv, InTimeInv, Promise, Contract!Next

LEMMA BeginDisconnect == ASSUME Inv, disconnect PROVE Inv' /\ Promise
<1>1. Does("disconnect", 0, <<>>, Command("disconn", 0, <<>>))
  BY DEF disconnect
<1>2. pc' = "init" /\ call'.op = "disconnect" /\ cmd'.id = "disconn" /\ did' = NoWork
  BY <1>1 DEF Does, Calls, Sends, Command
<1>3. CmdInv'
  BY <1>2, AtDisconn
<1> QED
  BY <1>1, <1>3, Begun DEF Command

LEMMA BeginSimple == ASSUME Inv, Simple PROVE Inv' /\ Promise
<1>1. ASSUME NEW op \in Simples, Does(op, 0, <<>>, Command(Single[op], 0, <<>>))
      PROVE  Inv' /\ Promise
  <2>1. pc' = "init" /\ call'.op = op /\ cmd'.id = Single[op]
    BY <1>1 DEF Does, Calls, Sends, Command
  <2>2. cmd'.id \in CmdsOf(op) /\ op \notin Readers \cup Writers \cup Changes
    BY <2>1, CmdsAre, ChangesAre DEF Simples, Readers, Writers
  <2>3. CmdInv'
    BY <2>1, <2>2 DEF CmdInv, Sending, Simples, Readers, Writers
  <2>4. op # "none" /\ Command(Single[op], 0, <<>>).id # "fgetmore"
    BY SingleCmds DEF Simples, Command
  <2> QED
    BY <1>1, <2>3, <2>4, Begun
<1>2. ASSUME NEW i \in Infos, Does("WriteSysInfo", 0, <<i>>, Command("setdtime", 0, <<i>>))
      PROVE  Inv' /\ Promise
  <2>1. pc' = "init" /\ call'.op = "WriteSysInfo" /\ cmd'.id = "setdtime" /\ cmd'.data = call'.data
    BY <1>2 DEF Does, Calls, Sends, Command
  <2>2. CmdInv'
    BY <2>1, CmdsAre DEF CmdInv, Sending, Readers, Writers
  <2> QED
    BY <1>2, <2>2, Begun DEF Command
<1> QED
  BY <1>1, <1>2, SingleCmds DEF Simple

LEMMA BeginReads == ASSUME Inv, Reads PROVE Inv' /\ Promise
<1>1. ASSUME NEW i \in Ids, Does("read_id_frec", i, <<>>, Command("fgetirec", i, <<>>))
      PROVE  Inv' /\ Promise
  <2>1. /\ pc' = "init" /\ call'.op = "read_id_frec" /\ cmd'.id = "fgetirec"
        /\ call'.id = i /\ cmd'.rid = i /\ loc'.data = <<>>
    BY <1>1 DEF Does, Calls, Sends, Command, NoLoc
  <2>2. CmdInv'
    BY <2>1, CmdsAre DEF CmdInv, Sending, Readers, Writers
  <2> QED
    BY <1>1, <2>2, Begun DEF Command
<1>2. ASSUME NEW n \in 0 .. Cardinality(Contract!Exists(dev)) - 1,
             Does("read_frec", n, <<>>, Command("fgetrec", n, <<>>))
      PROVE  Inv' /\ Promise
  <2>1. /\ pc' = "init" /\ call'.op = "read_frec" /\ cmd'.id = "fgetrec"
        /\ call'.id = n /\ cmd'.rid = n /\ loc'.data = <<>> /\ UNCHANGED dev
    BY <1>2 DEF Does, Calls, Sends, Command, NoLoc
  <2>2. CmdInv'
    BY <2>1, CmdsAre DEF CmdInv, Sending, Readers, Writers, Contract!Exists
  <2> QED
    BY <1>2, <2>2, Begun DEF Command
<1>3. ASSUME Does("read_mod_frec", 0, <<>>, Command("fgetmrec", 0, <<>>)) PROVE Inv' /\ Promise
  <2>1. /\ pc' = "init" /\ call'.op = "read_mod_frec" /\ cmd'.id = "fgetmrec" /\ loc'.data = <<>>
    BY <1>3 DEF Does, Calls, Sends, Command, NoLoc
  <2>2. CmdInv'
    BY <2>1, CmdsAre DEF CmdInv, Sending, Readers, Writers
  <2> QED
    BY <1>3, <2>2, Begun DEF Command
<1> QED
  BY <1>1, <1>2, <1>3 DEF Reads

LEMMA FirstCmd ==
  ASSUME NEW c, c.op \in Writers PROVE WriteCmd(c, 0).id \in {"fputrec", "fupdrec"} /\
         (c.op = "write_frec" => WriteCmd(c, 0).id = "fputrec") /\
         (c.op = "update_frec" => WriteCmd(c, 0).id = "fupdrec")
BY DEF WriteCmd, WriteId, Writers

LEMMA BeginWrites == ASSUME Inv, Writes PROVE Inv' /\ Promise
<1>1. ASSUME NEW op \in Writers, NEW i, op = "update_frec" => i \in Ids, NEW d \in Records,
             NEW c, c = [op |-> op, id |-> i, data |-> d], Does(op, i, d, WriteCmd(c, 0))
      PROVE  Inv' /\ Promise
  <2>0. pc' = "init" /\ call' = [op |-> op, id |-> i, data |-> d] /\ loc' = NoLoc
    BY <1>1 DEF Does, Calls, Sends
  <2>1. pc' = "init" /\ call' = c /\ loc'.ptr = 0 /\ c.op = op /\ c.data = d /\ c.id = i
    BY <1>1, <2>0 DEF NoLoc
  <2>2. cmd' = WriteCmd(call', 0)
    <3>1. cmd' = [id |-> WriteCmd(c, 0).id, rid |-> WriteCmd(c, 0).rid,
                  data |-> WriteCmd(c, 0).data, last |-> WriteCmd(c, 0).last]
      BY <1>1 DEF Does, Sends
    <3>2. cmd' = WriteCmd(c, 0)
      BY <3>1 DEF WriteCmd
    <3> QED
      BY <2>1, <3>2
  <2>3. Len(d) \in Nat /\ Len(d) >= 1
    BY <1>1, TransAssumption
  <2>4. cmd'.id \in CmdsOf(op)
    BY <2>1, <2>2, CmdsAre, FirstCmd DEF Writers
  <2>5. CmdInv'
    BY <1>1, <2>1, <2>2, <2>3, <2>4 DEF CmdInv, Sending, Readers, Writers
  <2>6. op # "none" /\ WriteCmd(c, 0).id # "fgetmore"
    BY <2>1, FirstCmd DEF Writers
  <2> QED
    BY <1>1, <2>5, <2>6, Begun
<1>2. ASSUME NEW op \in {"delete_frec", "commit_frec"}, NEW id, NEW i \in Ids,
             id = (IF op = "delete_frec" THEN "fdelrec" ELSE "fclrchg"),
             Does(op, i, <<>>, Command(id, i, <<>>))
      PROVE  Inv' /\ Promise
  <2>1. pc' = "init" /\ call'.op = op /\ call'.id = i /\ cmd'.id = id /\ cmd'.rid = i
    BY <1>2 DEF Does, Calls, Sends, Command
  <2>2. CmdInv'
    BY <1>2, <2>1, CmdsAre DEF CmdInv, Sending, Readers, Writers
  <2>3. op # "none" /\ Command(id, i, <<>>).id # "fgetmore"
    BY <1>2 DEF Command
  <2> QED
    BY <1>2, <2>2, <2>3, Begun
<1>3. CASE /\ \E i \in Ids : dev[i] = NoRec
           /\ \E d \in Records : LET c == [op |-> "write_frec", id |-> 0, data |-> d] IN
                Does("write_frec", 0, d, WriteCmd(c, 0))
  BY <1>1, <1>3 DEF Writers
<1>4. CASE \E i \in Contract!Exists(dev), d \in Records :
             LET c == [op |-> "update_frec", id |-> i, data |-> d] IN
                Does("update_frec", i, d, WriteCmd(c, 0))
  BY <1>1, <1>4 DEF Writers, Contract!Exists, Ids
<1>5. CASE \E i \in Contract!Exists(dev) :
             Does("delete_frec", i, <<>>, Command("fdelrec", i, <<>>))
  BY <1>2, <1>5 DEF Contract!Exists, Ids
<1>6. CASE \E i \in Contract!Changed(dev) :
             Does("commit_frec", i, <<>>, Command("fclrchg", i, <<>>))
  BY <1>2, <1>6 DEF Contract!Changed, Ids
<1> QED
  BY <1>3, <1>4, <1>5, <1>6 DEF Writes

LEMMA BeginConnect == ASSUME Inv, connect PROVE Inv' /\ Promise
<1>1. /\ pc = "idle" /\ call'.op = "connect" /\ did' = NoWork /\ loc' = NoLoc /\ ic' = NoIc
      /\ UNCHANGED <<losts, lates, line, dev, info, ret, rsp, cmd>>
      /\ (open' = TRUE /\ pc' = "GOT_NONE") \/ (open' = FALSE /\ pc' = "com_exit")
  BY DEF connect, Calls
<1>7. cmd = NoCmd /\ cmd.id # "fgetmore"
  BY <1>1 DEF Inv, CmdInv, NoCmd
<1>2. Shape'
  BY <1>1 DEF Inv, Shape, NoLoc, NoIc, NoCmd, IsCmd
<1>3. CmdInv' /\ DidInv'
  BY <1>1, <1>7 DEF CmdInv, DidInv, Sending, Done
<1>4. ASSUME lates' = 0 PROVE DevInv' /\ QuietInv' /\ ModeInv' /\ RspInv' /\ WrInv' /\ ReadInv'
  <2>2. DevInv' /\ QuietInv' /\ ModeInv'
    BY <1>1, <1>4 DEF Inv, InTimeInv, DevInv, QuietInv, ModeInv, Done
  <2>3. RspInv' /\ WrInv'
    BY <1>1 DEF RspInv, WrInv, Writers
  <2>4. ReadInv'
    BY <1>1, <1>7 DEF ReadInv
  <2> QED
    BY <2>2, <2>3, <2>4
<1>5. OffInv'
  BY <1>1 DEF OffInv, Done, NoIc
<1>6. Contract!Call
  BY <1>1, NoneCalled DEF Contract!Call, NoWork
<1> QED
  BY <1>2, <1>3, <1>4, <1>5, <1>6 DEF Inv, InTimeInv, Promise, Contract!Next

-----------------------------------------------------------------------------
(* A step that leaves the transaction where it is.                         *)
LEMMA StillCalled ==
  ASSUME UNCHANGED cvars PROVE Promise
BY DEF Promise

LEMMA UserStep == ASSUME Inv, UserStarts PROVE Inv' /\ Promise
<1>1. /\ pc \in {"GOT_NONE", "GOT_WELCOME"} /\ ic.mode = "off"
      /\ UNCHANGED <<line, losts, lates, call, pc, cmd, rsp, loc, ret, open, dev, info, did>>
      /\ ic' = [mode |-> "started", rsp |-> ic.rsp, out |-> ic.out, wr |-> ic.wr]
  BY IcShape DEF UserStarts, devvars, Inv
<1>2. Shape' /\ CmdInv' /\ DidInv' /\ OffInv'
  <2>1. Shape'
    BY <1>1 DEF Inv, Shape
  <2>2. CmdInv'
    BY <1>1 DEF Inv, CmdInv, Contract!Exists
  <2>3. DidInv' /\ OffInv'
    BY <1>1 DEF Inv, DidInv, OffInv, Done
  <2> QED
    BY <2>1, <2>2, <2>3
<1>3. ASSUME lates' = 0 PROVE DevInv' /\ QuietInv' /\ ModeInv' /\ RspInv' /\ WrInv' /\ ReadInv'
  <2>1. call.op = "connect" /\ cmd.id = "none" /\ DevInv /\ QuietInv /\ ModeInv
    BY <1>1, <1>3 DEF Inv, CmdInv, InTimeInv, NoCmd
  <2>2. DevInv' /\ QuietInv' /\ ModeInv'
    BY <1>1, <2>1 DEF DevInv, QuietInv, ModeInv
  <2>3. RspInv' /\ WrInv' /\ ReadInv'
    BY <1>1, <2>1 DEF RspInv, WrInv, ReadInv, Writers
  <2> QED
    BY <2>2, <2>3
<1>4. UNCHANGED cvars
  BY <1>1 DEF cvars
<1> QED
  BY <1>2, <1>3, <1>4, StillCalled DEF Inv, InTimeInv

LEMMA TryStep == ASSUME Inv, TryWelcome PROVE Inv' /\ Promise
<1>1. PICK s \in L1send(ByteAnswer), signal \in BOOLEAN :
        \E r \in L1recv(s, RecvText(s.now, IF pc = "GOT_NONE" THEN WELCOME ELSE Ready),
                           RecvText(<<>>, IF pc = "GOT_NONE" THEN WELCOME ELSE Ready)) :
          /\ Transfer(s, r)
          /\ IF s.arrived THEN IcHearsByte ELSE UNCHANGED ic
          /\ AfterTry(r.got.ok, signal)
  BY DEF TryWelcome
<1>2. PICK r \in L1recv(s, RecvText(s.now, IF pc = "GOT_NONE" THEN WELCOME ELSE Ready),
                           RecvText(<<>>, IF pc = "GOT_NONE" THEN WELCOME ELSE Ready)) :
          /\ Transfer(s, r)
          /\ IF s.arrived THEN IcHearsByte ELSE UNCHANGED ic
          /\ AfterTry(r.got.ok, signal)
  BY <1>1
<1>3. /\ pc \in {"GOT_NONE", "GOT_WELCOME"} /\ call.op = "connect" /\ cmd = NoCmd /\ did = NoWork
      /\ losts \in Nat /\ lates \in Nat
      /\ UNCHANGED <<call, rsp, ret, open, dev, info, did>>
  BY DEF TryWelcome, devvars, Inv, CmdInv, DidInv, Shape
<1>4. /\ line' = r.rest /\ losts' = losts + s.lost /\ lates' = lates + r.late
      /\ losts' \in Nat /\ lates' \in Nat
  BY <1>2, <1>3, Sent, Heard DEF Transfer
<1>5. /\ ic' = [mode |-> ic'.mode, rsp |-> ic.rsp, out |-> ic.out, wr |-> ic.wr]
      /\ ic'.mode \in {"off", "started", "welcomed", "on", "leaving"}
      /\ ic.mode = "started" /\ s.arrived => ic'.mode = "welcomed"
      /\ ic.mode \in {"welcomed", "on"} => ic'.mode \in {"welcomed", "on"}
  <2>1. CASE s.arrived
    <3> DEFINE m == CASE ic.mode = "started" -> "welcomed" [] ic.mode = "welcomed" -> "on"
                      [] OTHER -> ic.mode
    <3>1. ic' = [ic EXCEPT !.mode = m]
      BY <1>2, <2>1 DEF IcHearsByte
    <3>2. /\ m \in {"off", "started", "welcomed", "on", "leaving"}
          /\ ic.mode = "started" => m = "welcomed"
          /\ ic.mode \in {"welcomed", "on"} => m \in {"welcomed", "on"}
      BY DEF Inv, Shape
    <3> HIDE DEF m
    <3>3. ic' = [mode |-> m, rsp |-> ic.rsp, out |-> ic.out, wr |-> ic.wr]
      BY <3>1, IcShape DEF Inv
    <3> QED
      BY <3>2, <3>3
  <2>2. CASE ~ s.arrived
    BY <1>2, <2>2 DEF Inv, Shape
  <2> QED
    BY <2>1, <2>2
<1>6. \/ pc' = "init" /\ cmd'.id = "disconn" /\ loc' = NoLoc
      \/ pc' = "init" /\ cmd'.id = "ident" /\ loc' = NoLoc
      \/ /\ cmd' = cmd /\ loc' = [loc EXCEPT !.tries = @ + 1]
         /\ pc' = IF r.got.ok THEN "GOT_WELCOME" ELSE pc
  BY <1>2 DEF AfterTry, Sends, Command, Steps
<1>7. Shape'
  <2>1. loc' = [step |-> loc'.step, tries |-> loc'.tries, ptr |-> loc'.ptr, rid |-> loc'.rid,
                chg |-> loc'.chg, data |-> loc'.data]
    <3>1. CASE loc' = NoLoc
      BY <3>1 DEF NoLoc
    <3>2. CASE loc' = [loc EXCEPT !.tries = @ + 1]
      <4> DEFINE n == loc.tries + 1
      <4>1. loc' = [loc EXCEPT !.tries = n]
        BY <3>2
      <4> HIDE DEF n
      <4> QED
        BY <4>1 DEF Inv, Shape
    <3> QED
      BY <1>6, <3>1, <3>2
  <2>2. IsCmd(ic'.wr)
    BY <1>5 DEF Inv, Shape
  <2> QED
    BY <1>4, <1>5, <2>1, <2>2 DEF Shape
<1>8. CmdInv' /\ DidInv'
  <2>1. cmd'.id = "ident" /\ loc' = NoLoc => loc'.step = 1 /\ cmd'.id = Steps[1]
    BY DEF NoLoc, Steps
  <2>2. CmdInv'
    BY <1>3, <1>6, <2>1, CmdsAre DEF CmdInv, Sending, Readers, Writers
  <2> QED
    BY <1>3, <1>6, <2>2 DEF DidInv, Done
<1>9. ASSUME lates' = 0 PROVE DevInv' /\ QuietInv' /\ ModeInv' /\ RspInv' /\ WrInv' /\ ReadInv'
  <2>1. lates = 0 /\ lates + r.late = 0 /\ DevInv /\ QuietInv
    BY <1>3, <1>4, <1>9, Heard DEF Inv, InTimeInv
  <2>2. r.rest = <<>> /\ (r.got.ok => s.arrived /\
          ByteAnswer = (IF pc = "GOT_NONE" THEN WELCOME ELSE Ready))
    <3> DEFINE text == IF pc = "GOT_NONE" THEN WELCOME ELSE Ready
               a == ByteAnswer
    <3>1. text \in {WELCOME, Ready} /\ a \in {WELCOME, Ready, <<>>} /\ line = <<>>
      BY <2>1 DEF ByteAnswer, QuietInv
    <3>2. a = WELCOME => text = WELCOME
      <4>1. ASSUME pc # "GOT_NONE" PROVE a \in {Ready, <<>>}
        BY <1>3, <2>1, <4>1 DEF QuietInv, ByteAnswer
      <4>2. Ready # WELCOME /\ <<>> # WELCOME
        BY DEF Ready, WELCOME
      <4> QED
        BY <4>1, <4>2
    <3>3. s \in L1send(a) /\ r \in L1recv(s, RecvText(s.now, text), RecvText(<<>>, text))
      BY <1>1, <1>2
    <3> HIDE DEF text, a
    <3>4. r.rest = <<>> /\ (r.got.ok => a = text /\ s.arrived)
      BY <1>3, <2>1, <3>1, <3>2, <3>3, OneText
    <3> QED
      BY <3>4 DEF a, text
  <2>3. QuietInv'
    <3>1. ASSUME pc' = "GOT_WELCOME" PROVE ic'.mode \in {"welcomed", "on"}
      <4>1. CASE pc = "GOT_WELCOME"
        BY <1>5, <2>1, <4>1 DEF QuietInv
      <4>2. CASE pc = "GOT_NONE"
        <5>1. r.got.ok
          BY <1>6, <3>1, <4>2
        <5>2. ic.mode = "started"
          <6>1. ByteAnswer = WELCOME
            BY <2>2, <4>2, <5>1
          <6>2. WELCOME # Ready /\ WELCOME # <<>>
            BY DEF WELCOME, Ready
          <6> QED
            BY <6>1, <6>2 DEF ByteAnswer
        <5> QED
          BY <1>5, <2>2, <5>1, <5>2
      <4> QED
        BY <1>3, <4>1, <4>2
    <3> QED
      BY <1>4, <2>2, <3>1 DEF QuietInv
  <2>4. DevInv' /\ ModeInv'
    BY <1>3, <1>6, <2>1 DEF DevInv, ModeInv, Done
  <2>5. RspInv' /\ WrInv' /\ ReadInv'
    <3>1. call'.op = "connect" /\ pc' \notin {"request", "exit"} /\ cmd'.id # "fgetmore"
      BY <1>3, <1>6 DEF NoCmd
    <3> QED
      BY <3>1 DEF RspInv, WrInv, ReadInv, Writers
  <2> QED
    BY <2>3, <2>4, <2>5
<1>10. OffInv'
  <2>1. ASSUME losts' + lates' = 0 PROVE open /\ pc' \notin Done \cup {"com_exit"}
    <3>1. losts + lates = 0
      BY <1>2, <1>3, <2>1, Transferred
    <3> QED
      BY <1>3, <1>6, <3>1 DEF Inv, OffInv, Done
  <2> QED
    BY <1>3, <2>1 DEF OffInv
<1>11. UNCHANGED cvars
  BY <1>3 DEF cvars
<1> QED
  BY <1>7, <1>8, <1>9, <1>10, <1>11, StillCalled DEF Inv, InTimeInv

-----------------------------------------------------------------------------
MakesStep ==
  /\ ~ did.done
  /\ \/ /\ UNCHANGED info
        /\ IF call.op = "write_frec" THEN \E i \in Ids : Contract!Takes(call.op, i, call.data)
                                     ELSE Contract!Takes(call.op, call.id, call.data)
     \/ /\ call.op = "WriteSysInfo" /\ info' = call.data[1]
        /\ did' = [done |-> TRUE, rid |-> 0] /\ UNCHANGED dev

LEMMA Promises ==
  ASSUME Inv, pc \in Sending,
         UNCHANGED devvars \/ (cmd.id = "fputmore" /\ lates' # 0) \/ MakesStep,
         UNCHANGED <<call, ret>> \/ (call'.op = "none" /\ ~ ret'.ok)
  PROVE  Promise
<1>1. call.op # "none"
  BY DEF Inv, CmdInv, Sending
<1>2. CASE UNCHANGED devvars
  <2>1. UNCHANGED <<dev, info, did>>
    BY <1>2 DEF devvars
  <2>2. CASE UNCHANGED <<call, ret>>
    BY <2>1, <2>2, StillCalled DEF cvars
  <2>3. CASE call'.op = "none" /\ ~ ret'.ok
    BY <1>1, <2>1, <2>3 DEF Promise, Ends, Contract!Next, Contract!Return
  <2> QED
    BY <2>2, <2>3
<1>3. CASE cmd.id = "fputmore" /\ lates' # 0
  BY <1>3 DEF Promise, InTime
<1>4. CASE MakesStep
  <2>1. Contract!Step
    BY <1>1, <1>4 DEF MakesStep, Contract!Step, Ids
  <2> QED
    BY <2>1 DEF Promise, Contract!Next
<1> QED
  BY <1>2, <1>3, <1>4

LEMMA FailsAs ==
  ASSUME Fails
  PROVE  \/ /\ call.op = "connect" /\ pc' = "init" /\ cmd'.id = "disconn" /\ loc' = NoLoc
            /\ UNCHANGED <<call, ret>>
         \/ /\ call.op # "connect" /\ pc' = "idle" /\ call' = NoCall /\ cmd' = NoCmd
            /\ loc' = NoLoc /\ ret' = ERR
BY DEF Fails, Sends, Command, Returns

LEMMA FailsPromise ==
  ASSUME Inv, pc \in Sending, Fails,
         UNCHANGED devvars \/ (cmd.id = "fputmore" /\ lates' # 0) \/ MakesStep
  PROVE  Promise
<1>1. UNCHANGED <<call, ret>> \/ (call'.op = "none" /\ ~ ret'.ok)
  BY FailsAs DEF ERR, Contract!ERR, NoCall, Contract!NoCall
<1> QED
  BY <1>1, Promises

LEMMA FailsKeeps ==
  ASSUME Inv, pc \in Sending, Fails, call.op # "disconnect", UNCHANGED open,
         losts' \in Nat, lates' \in Nat,
         ic' = [mode |-> ic'.mode, rsp |-> ic'.rsp, out |-> ic'.out, wr |-> ic'.wr],
         IsCmd(ic'.wr),
         ic'.mode \in {"off", "started", "welcomed", "on", "leaving"},
         lates' = 0 => lates = 0 /\ DevInv' /\ line' = <<>> /\ ic'.mode = ic.mode,
         losts' + lates' = 0 => losts + lates = 0,
         call.op = "connect" => did' = NoWork
  PROVE  Inv'
<1>1. Shape'
  BY FailsAs DEF Shape, NoLoc
<1>2. losts' + lates' = 0 => open
  BY DEF Inv, OffInv, Sending
<1>3. OffInv'
  BY <1>2, FailsAs DEF OffInv, Done
<1>4. CASE call.op = "connect"
  <2>1. /\ pc' = "init" /\ call'.op = "connect" /\ cmd'.id = "disconn" /\ did' = NoWork
    BY <1>4, FailsAs
  <2>2. CmdInv' /\ DidInv' /\ RspInv' /\ WrInv' /\ ReadInv'
    BY <2>1, AtDisconn
  <2>3. lates' = 0 => QuietInv' /\ ModeInv'
    BY <2>1 DEF QuietInv, ModeInv
  <2> QED
    BY <1>1, <1>3, <2>2, <2>3 DEF Inv, InTimeInv
<1>5. CASE call.op # "connect"
  <2>1. pc' = "idle" /\ call' = NoCall /\ cmd' = NoCmd
    BY <1>5, FailsAs
  <2>2. CmdInv' /\ DidInv' /\ RspInv' /\ WrInv' /\ ReadInv'
    BY <2>1, AtIdle
  <2>3. ASSUME lates' = 0 PROVE QuietInv' /\ ModeInv'
    <3>1. ic.mode = "on"
      BY <1>5, <2>3 DEF Inv, InTimeInv, ModeInv, CmdInv, Sending
    <3> QED
      BY <2>1, <2>3, <3>1 DEF QuietInv, ModeInv, NoCall, Contract!NoCall
  <2> QED
    BY <1>1, <1>3, <2>2, <2>3 DEF Inv, InTimeInv
<1> QED
  BY <1>4, <1>5

LEMMA ExitStep == ASSUME Inv, ComExit PROVE Inv' /\ Promise
<1>1. /\ pc = "com_exit" /\ call.op \in {"connect", "disconnect"} /\ did = NoWork
      /\ line' = <<>> /\ open' = FALSE /\ UNCHANGED <<ic, dev, info, did, rsp, losts, lates>>
      /\ pc' = "idle" /\ call' = NoCall /\ cmd' = NoCmd /\ loc' = NoLoc
      /\ ret' = IF call.op = "connect" THEN ERR ELSE OK(<<>>)
  BY DEF ComExit, Returns, devvars, Inv, CmdInv, DidInv
<1>2. CmdInv' /\ DidInv' /\ RspInv' /\ WrInv' /\ ReadInv'
  BY <1>1, AtIdle
<1>3. Shape'
  BY <1>1 DEF Inv, Shape, NoLoc
<1>4. lates' = 0 => DevInv' /\ QuietInv' /\ ModeInv'
  BY <1>1 DEF Inv, InTimeInv, DevInv, QuietInv, ModeInv, NoCall, Contract!NoCall
<1>5. OffInv'
  BY <1>1 DEF Inv, OffInv
<1>6. Contract!Return
  <2>1. CASE call.op = "connect"
    BY <1>1, <2>1 DEF Contract!Return, NoCall, Contract!NoCall, ERR, Contract!ERR
  <2>2. CASE call.op = "disconnect"
    <3>1. Contract!Right = {<<>>}
      BY <2>2 DEF Contract!Right
    <3> QED
      BY <1>1, <2>2, <3>1, ChangesAre
      DEF Contract!Return, NoCall, Contract!NoCall, OK, Changes
  <2> QED
    BY <1>1, <2>1, <2>2
<1> QED
  BY <1>1, <1>2, <1>3, <1>4, <1>5, <1>6
  DEF Inv, InTimeInv, Promise, Contract!Next, Ends, NoCall, Contract!NoCall

LEMMA StopStep == ASSUME Inv, UNCHANGED vars PROVE Inv' /\ Promise
<1>1. UNCHANGED <<line, losts, lates, call, pc, cmd, rsp, loc, ret, open, ic, dev, info, did>>
  BY DEF vars
<1>2. Shape' /\ CmdInv'
  BY <1>1 DEF Inv, Shape, CmdInv, Contract!Exists
<1>3. DidInv' /\ OffInv'
  BY <1>1 DEF Inv, DidInv, OffInv, Done
<1>4. DevInv /\ QuietInv /\ ModeInv => DevInv' /\ QuietInv' /\ ModeInv'
  BY <1>1 DEF DevInv, QuietInv, ModeInv
<1>5. RspInv => RspInv'
  <2>1. /\ RightRsp(rsp) => RightRsp(rsp)'
        /\ RightRsp(ic.rsp) => RightRsp(ic.rsp)'
    BY <1>1 DEF RightRsp, Absent, Wanted, FirstBlock, Contract!Exists, Contract!Changed,
       Contract!Found
  <2> QED
    BY <1>1, <2>1 DEF RspInv
<1>6. WrInv /\ ReadInv => WrInv' /\ ReadInv'
  BY <1>1 DEF WrInv, ReadInv, More, Partial, Wanted, Contract!Exists, Contract!Changed
<1>7. UNCHANGED cvars
  BY <1>1 DEF cvars
<1> QED
  BY <1>1, <1>2, <1>3, <1>4, <1>5, <1>6, <1>7, StillCalled DEF Inv, InTimeInv

-----------------------------------------------------------------------------
(* Which transaction a command belongs to.                                 *)
LEMMA OpOf ==
  ASSUME Inv, pc \in Sending
  PROVE  /\ cmd.id \in CmdsOf(call.op)
         /\ call.op \in {"connect", "disconnect"} \cup Readers \cup Changes \cup Simples
         /\ cmd.id = "fgetmore" => call.op \in Readers
         /\ call.op = "disconnect" => cmd.id = "disconn"
         /\ cmd.id = "disconn" => call.op \in {"connect", "disconnect"}
         /\ cmd.id = "fputmore" => call.op \in Writers
<1>1. cmd.id \in CmdsOf(call.op)
  BY DEF Inv, CmdInv
<1>2. call.op \in {"connect", "disconnect"} \cup Readers \cup Changes \cup Simples
  BY <1>1, SingleCmds, ChangesAre DEF CmdsOf, Readers
<1>3. CASE call.op \in Simples
  <2>1. cmd.id = Single[call.op]
    BY <1>1, <1>3, CmdsAre
  <2> QED
    BY <1>1, <1>2, <1>3, <2>1, SingleCmds DEF Simples
<1>4. CASE call.op \notin Simples
  BY <1>1, <1>2, <1>4, CmdsAre, ChangesAre DEF Readers, Writers
<1> QED
  BY <1>1, <1>2, <1>3, <1>4

LEMMA NextPdu ==
  ASSUME Inv, pc \in Sending, pc' \in Sending, UNCHANGED <<call, cmd, loc>>,
         dev' = dev \/ call.op # "read_frec"
  PROVE  CmdInv'
BY DEF Inv, CmdInv, Sending, Contract!Exists, Writers, Readers

(* The next PDU of the same command, or of connect().                      *)
LEMMA NotStarted ==
  ASSUME Inv, pc \in Sending, pc' \in Sending, UNCHANGED <<call, cmd, loc, ic, open>>,
         DevInv', line' = <<>>, lates = 0,
         pc' \in Done => ic.mode = "on" \/ cmd.id = "disconn"
  PROVE  DevInv' /\ QuietInv' /\ ModeInv'
BY DEF Inv, InTimeInv, QuietInv, ModeInv, Sending, CmdInv

LEMMA InitStep == ASSUME Inv, SendInit PROVE Inv' /\ Promise
<1> DEFINE a == Answer({"on"}, Ack("L1ACK0"))
<1>1. PICK s \in L1send(a) : \E r \in L1recv(s, Recv1(s.now), Recv1(<<>>)) :
        Transfer(s, r) /\ IF r.got.rid = "L1ACK0" THEN Goto("select") ELSE SendFails
  BY DEF SendInit
<1>2. PICK r \in L1recv(s, Recv1(s.now), Recv1(<<>>)) :
        Transfer(s, r) /\ IF r.got.rid = "L1ACK0" THEN Goto("select") ELSE SendFails
  BY <1>1
<1>3. /\ pc = "init" /\ pc \in Sending /\ did = NoWork /\ losts \in Nat /\ lates \in Nat
      /\ UNCHANGED <<ic, dev, info, did, rsp, open>>
  BY DEF SendInit, devvars, Inv, DidInv, Shape, Sending
<1>4. /\ line' = r.rest /\ losts' \in Nat /\ lates' \in Nat
      /\ lates' = 0 => lates = 0 /\ lates + r.late = 0
      /\ losts' <= 1 => losts <= 1
      /\ losts' + lates' = 0 => losts + lates = 0 /\ s.lost = 0 /\ lates + r.late = 0
      /\ losts' = losts + s.lost /\ s.lost \in {0, 1}
  BY <1>2, <1>3, Transferred, Sent
<1>5. a = <<>> \/ a = Ack("L1ACK0")
  BY DEF Answer
<1>6. a # <<>> <=> ic.mode = "on"
  BY DEF Answer, Ack
<1> HIDE DEF a
<1>7. lates' = 0 => /\ r.rest = <<>>
                    /\ r.got.rid = "L1ACK0" => ic.mode = "on"
                    /\ s.lost = 0 /\ ic.mode = "on" => r.got.rid = "L1ACK0"
  <2>1. lates' = 0 => line = <<>> /\ lates + r.late = 0
    BY <1>4 DEF Inv, InTimeInv, QuietInv
  <2> QED
    BY <1>3, <1>5, <1>6, <2>1, OneAck
<1>8. lates' = 0 => DevInv'
  BY <1>3, <1>4 DEF Inv, InTimeInv, DevInv
<1>9. CASE r.got.rid = "L1ACK0" \/ (r.got.rid # "L1ACK0" /\ cmd.id \in {"fgetmore", "disconn"})
  <2>1. /\ UNCHANGED <<call, cmd, loc, ret>>
        /\ \/ r.got.rid = "L1ACK0" /\ pc' = "select"
           \/ r.got.rid # "L1ACK0" /\ cmd.id \in {"fgetmore", "disconn"} /\ pc' = "request"
    BY <1>2, <1>9 DEF Goto, SendFails
  <2>2. Shape' /\ CmdInv' /\ DidInv'
    <3>1. Shape'
      BY <1>3, <1>4, <2>1 DEF Inv, Shape
    <3>2. CmdInv'
      BY <1>3, <2>1, NextPdu DEF Sending
    <3>3. DidInv'
      BY <1>3, <2>1 DEF DidInv
    <3> QED
      BY <3>1, <3>2, <3>3
  <2>3. ASSUME lates' = 0 PROVE DevInv' /\ QuietInv' /\ ModeInv' /\ RspInv' /\ WrInv' /\ ReadInv'
    <3>1. lates = 0 /\ DevInv' /\ line' = <<>>
      BY <1>4, <1>7, <1>8, <2>3
    <3>2. ASSUME pc' \in Done PROVE ic.mode = "on" \/ cmd.id = "disconn"
      <4>1. CASE cmd.id = "fgetmore"
        BY <1>3, <3>1, <4>1, OpOf DEF Inv, InTimeInv, ModeInv, Readers
      <4> QED
        BY <2>1, <3>2, <4>1 DEF Done
    <3>3. QuietInv' /\ ModeInv'
      BY <1>3, <2>1, <3>1, <3>2, NotStarted DEF Sending
    <3>4. RspInv'
      BY <2>1 DEF RspInv
    <3>5. WrInv'
      BY <1>3, <2>1, <3>1, OpOf DEF Inv, InTimeInv, WrInv, Done, Readers, Writers, Partial
    <3>6. ASSUME losts' <= 1, cmd.id = "fgetmore" PROVE ReadInv'
      <4>1. /\ losts <= 1 /\ loc.rid \in Ids /\ Wanted(loc.rid) /\ loc.chg = dev[loc.rid].chg
            /\ loc.data \in Seq(Bytes) /\ ic.out \in Seq(Bytes)
            /\ dev[loc.rid].data = loc.data \o ic.out /\ (ic.rsp = NoRsp \/ losts = 1)
        BY <1>3, <1>4, <3>1, <3>6 DEF Inv, InTimeInv, ReadInv
      <4>2. ic.rsp = NoRsp \/ losts' = 1
        BY <1>3, <1>4, <3>6, <4>1
      <4>3. ASSUME pc' = "request" PROVE ic.rsp = NoRsp
        <5>1. losts = 1 => s.lost = 0
          BY <1>3, <1>4, <3>6
        <5>2. ic.mode = "on" /\ r.got.rid # "L1ACK0"
          BY <1>3, <2>1, <3>1, <3>6, <4>3, OpOf DEF Inv, InTimeInv, ModeInv, Readers
        <5> QED
          BY <1>7, <2>3, <4>1, <5>1, <5>2
      <4>4. Wanted(loc.rid)'
        BY <1>3, <2>1, <4>1 DEF Wanted, Contract!Exists, Contract!Changed
      <4>5. More(ic.rsp)' \/ pc' # "request"
        BY <1>3, <4>3 DEF More
      <4> QED
        BY <1>3, <2>1, <4>1, <4>2, <4>4, <4>5 DEF ReadInv
    <3>7. ReadInv'
      BY <2>1, <3>6 DEF ReadInv
    <3> QED
      BY <3>1, <3>3, <3>4, <3>5, <3>7
  <2>4. OffInv'
    <3>1. losts' + lates' = 0 => open /\ losts + lates = 0 /\ s.lost = 0 /\ lates' = 0
      BY <1>3, <1>4 DEF Inv, OffInv, Sending
    <3>2. losts' + lates' = 0 /\ pc' \in Done => ic.mode # "on"
      BY <1>7, <2>1, <3>1 DEF Done
    <3> QED
      BY <1>3, <2>1, <3>1, <3>2 DEF OffInv
  <2>5. UNCHANGED cvars
    BY <1>3, <2>1 DEF cvars
  <2> QED
    BY <2>2, <2>3, <2>4, <2>5, StillCalled DEF Inv, InTimeInv
<1>10. CASE r.got.rid # "L1ACK0" /\ cmd.id \notin {"fgetmore", "disconn"}
  <2>1. Fails /\ call.op # "disconnect"
    BY <1>2, <1>3, <1>10, OpOf DEF SendFails
  <2>2. Inv'
    BY <1>3, <1>4, <1>7, <1>8, <2>1, FailsKeeps DEF Inv, Shape
  <2>3. Promise
    BY <1>3, <2>1, FailsPromise DEF devvars
  <2> QED
    BY <2>2, <2>3
<1> QED
  BY <1>9, <1>10

LEMMA RequestStep == ASSUME Inv, SendRequest PROVE Inv' /\ Promise
<1> DEFINE x == ic.rsp
           a == IF x = NoRsp THEN <<>> ELSE Answer({"on", "leaving"}, Data(x))
<1>1. PICK s \in L1send(a) : \E r \in L1recv(s, RecvPdu(s.now), RecvPdu(<<>>)) :
        Transfer(s, r) /\ rsp' = r.got.rsp
  BY DEF SendRequest
<1>2. PICK r \in L1recv(s, RecvPdu(s.now), RecvPdu(<<>>)) : Transfer(s, r) /\ rsp' = r.got.rsp
  BY <1>1
<1>3. /\ pc = "request" /\ pc' = "exit" /\ losts \in Nat /\ lates \in Nat
      /\ UNCHANGED <<ic, dev, info, did, open, call, cmd, loc, ret>>
  BY DEF SendRequest, devvars, Inv, Shape, Goto
<1>4. /\ line' = r.rest /\ losts' \in Nat /\ lates' \in Nat
      /\ lates' = 0 => lates = 0 /\ lates + r.late = 0
      /\ losts' <= 1 => losts <= 1
      /\ losts' + lates' = 0 => losts + lates = 0
  BY <1>2, <1>3, Transferred
<1>5. a = <<>> \/ a = Data(x)
  BY DEF Answer
<1> HIDE DEF a, x
<1>6. ASSUME lates' = 0 PROVE r.rest = <<>> /\ (rsp' = NoRsp \/ rsp' = x)
  <2>1. line = <<>> /\ lates + r.late = 0
    BY <1>4, <1>6 DEF Inv, InTimeInv, QuietInv
  <2> QED
    BY <1>2, <1>3, <1>5, <2>1, OneAnswer
<1>7. Shape' /\ CmdInv' /\ DidInv'
  <2>1. Shape'
    BY <1>3, <1>4 DEF Inv, Shape
  <2>2. CmdInv'
    BY <1>3, NextPdu DEF Sending
  <2>3. DidInv'
    BY <1>3 DEF Inv, DidInv, Done
  <2> QED
    BY <2>1, <2>2, <2>3
<1>8. ASSUME lates' = 0 PROVE DevInv' /\ QuietInv' /\ ModeInv' /\ RspInv' /\ WrInv' /\ ReadInv'
  <2>1. lates = 0 /\ line' = <<>> /\ (rsp' = NoRsp \/ rsp' = ic.rsp)
    BY <1>4, <1>6, <1>8 DEF x
  <2>2. DevInv' /\ QuietInv' /\ ModeInv'
    BY <1>3, <2>1 DEF Inv, InTimeInv, DevInv, QuietInv, ModeInv, Done
  <2>3. RspInv'
    <3>1. ASSUME cmd.id \notin {"fgetmore", "disconn"} PROVE rsp' = NoRsp \/ RightRsp(rsp)'
      <4>1. RightRsp(ic.rsp)
        BY <1>3, <2>1, <3>1 DEF Inv, InTimeInv, RspInv
      <4>2. CASE rsp' = ic.rsp
        BY <1>3, <4>1, <4>2 DEF RightRsp, Absent, Wanted, FirstBlock, Contract!Exists,
           Contract!Changed, Contract!Found
      <4> QED
        BY <2>1, <4>2
    <3> QED
      BY <1>3, <3>1 DEF RspInv
  <2>4. WrInv'
    BY <1>3, <2>1 DEF Inv, InTimeInv, WrInv, Done, Partial
  <2>5. ASSUME losts' <= 1, cmd.id = "fgetmore" PROVE ReadInv'
    <3>1. /\ loc.rid \in Ids /\ Wanted(loc.rid) /\ loc.chg = dev[loc.rid].chg
          /\ loc.data \in Seq(Bytes) /\ ic.out \in Seq(Bytes) /\ More(ic.rsp)
      BY <1>3, <1>4, <2>1, <2>5 DEF Inv, InTimeInv, ReadInv
    <3>2. Wanted(loc.rid)'
      BY <1>3, <3>1 DEF Wanted, Contract!Exists, Contract!Changed
    <3>3. More(rsp)'
      BY <1>3, <2>1, <3>1 DEF More
    <3> QED
      BY <1>3, <3>1, <3>2, <3>3 DEF ReadInv
  <2>6. ReadInv'
    BY <1>3, <2>5 DEF ReadInv
  <2> QED
    BY <2>2, <2>3, <2>4, <2>6
<1>9. OffInv'
  BY <1>3, <1>4 DEF Inv, OffInv, Done
<1>10. UNCHANGED cvars
  BY <1>3 DEF cvars
<1> QED
  BY <1>7, <1>8, <1>9, <1>10, StillCalled DEF Inv, InTimeInv

-----------------------------------------------------------------------------
(* Blocks.                                                                 *)
LEMMA CutSize ==
  ASSUME NEW S, NEW d \in Seq(S), NEW n \in Nat
  PROVE  \E k \in 0 .. Len(d) : /\ Cut(d, n) = SubSeq(d, 1, k) /\ Cut(d, n) \in Seq(S)
                                /\ Len(Cut(d, n)) = k /\ k = (IF n < Len(d) THEN n ELSE Len(d))
<1> DEFINE k == IF n < Len(d) THEN n ELSE Len(d)
<1>1. Len(d) \in Nat /\ k \in 0 .. Len(d) /\ k \in Int
  BY LenProperties
<1>2. Cut(d, n) = SubSeq(d, 1, k)
  BY DEF Cut
<1> HIDE DEF k
<1>3. \A i \in 1 .. k : d[i] \in S
  BY <1>1, ElementOfSeq
<1>4. SubSeq(d, 1, k) \in Seq(S) /\ Len(SubSeq(d, 1, k)) = IF 1 <= k THEN k - 1 + 1 ELSE 0
  BY <1>1, <1>3, SubSeqProperties
<1>5. Len(SubSeq(d, 1, k)) = k
  BY <1>1, <1>4
<1>6. k = IF n < Len(d) THEN n ELSE Len(d)
  BY DEF k
<1> QED
  BY <1>1, <1>2, <1>4, <1>5, <1>6

LEMMA RestSize ==
  ASSUME NEW S, NEW d \in Seq(S), NEW n \in Nat
  PROVE  /\ Rest(d, n) \in Seq(S)
         /\ Len(Rest(d, n)) = (IF n < Len(d) THEN Len(d) - n ELSE 0)
         /\ \A i \in 1 .. Len(d) - n : Rest(d, n)[i] = d[n + i]
<1>1. Len(d) \in Nat /\ n + 1 \in Int /\ Len(d) \in Int
  BY LenProperties
<1>2. \A i \in n + 1 .. Len(d) : d[i] \in S
  BY <1>1, ElementOfSeq
<1> DEFINE m == n + 1
           e == Len(d)
<1>3. m \in Int /\ e \in Int /\ \A i \in m .. e : d[i] \in S
  BY <1>1, <1>2
<1>4. Rest(d, n) = SubSeq(d, m, e)
  BY DEF Rest
<1>5. m = n + 1 /\ e = Len(d)
  OBVIOUS
<1> HIDE DEF m, e
<1>6. /\ SubSeq(d, m, e) \in Seq(S)
      /\ Len(SubSeq(d, m, e)) = IF m <= e THEN e - m + 1 ELSE 0
      /\ \A i \in 1 .. e - m + 1 : SubSeq(d, m, e)[i] = d[m + i - 1]
  BY <1>3, SubSeqProperties
<1> QED
  BY <1>1, <1>4, <1>5, <1>6

(* A sequence is its first n elements and the rest of them.                *)
LEMMA CutAndRest ==
  ASSUME NEW S, NEW d \in Seq(S), NEW n \in Nat
  PROVE  /\ Cut(d, n) \in Seq(S) /\ Rest(d, n) \in Seq(S)
         /\ d = Cut(d, n) \o Rest(d, n)
         /\ Len(d) <= n <=> Rest(d, n) = <<>>
<1>0. Len(d) \in Nat
  BY LenProperties
<1>1. PICK k \in 0 .. Len(d) : /\ Cut(d, n) = SubSeq(d, 1, k) /\ Cut(d, n) \in Seq(S)
                               /\ k = (IF n < Len(d) THEN n ELSE Len(d))
  BY CutSize
<1>2. Rest(d, n) \in Seq(S) /\ Len(Rest(d, n)) = (IF n < Len(d) THEN Len(d) - n ELSE 0)
  BY RestSize
<1>3. Len(d) <= n <=> Rest(d, n) = <<>>
  <2>1. Rest(d, n) = <<>> <=> Len(Rest(d, n)) = 0
    BY <1>2, EmptySeq
  <2> QED
    BY <1>0, <1>2, <2>1
<1>4. d = Cut(d, n) \o Rest(d, n)
  <2>1. CASE n < Len(d)
    <3>1. k = n /\ n \in 0 .. Len(d) /\ Len(d) \in n .. Len(d) /\ 1 \in 1 .. Len(d) + 1
      BY <1>0, <1>1, <2>1
    <3>2. SubSeq(d, 1, n) \o SubSeq(d, n + 1, Len(d)) = SubSeq(d, 1, Len(d))
      <4> DEFINE one == 1
                 e == Len(d)
      <4>1. one \in 1 .. Len(d) + 1 /\ n \in one - 1 .. Len(d) /\ e \in n .. Len(d)
        BY <3>1
      <4>2. one = 1 /\ e = Len(d)
        OBVIOUS
      <4> HIDE DEF one, e
      <4>3. SubSeq(d, one, n) \o SubSeq(d, n + 1, e) = SubSeq(d, one, e)
        BY <4>1, ConcatAdjacentSubSeq
      <4> QED
        BY <4>2, <4>3
    <3> QED
      BY <1>1, <3>1, <3>2, SubSeqFull DEF Rest
  <2>2. CASE ~ (n < Len(d))
    <3>1. k = Len(d) /\ Rest(d, n) = <<>>
      BY <1>0, <1>1, <1>3, <2>2
    <3> QED
      BY <1>1, <3>1, SubSeqFull, ConcatEmptySeq
  <2> QED
    BY <2>1, <2>2
<1> QED
  BY <1>1, <1>2, <1>3, <1>4

(* The block from p on continues the first p elements.                     *)
LEMMA NextBlock ==
  ASSUME NEW S, NEW d \in Seq(S), NEW p \in 0 .. Len(d), NEW n \in Nat
  PROVE  LET b == Cut(Rest(d, p), n) IN
         /\ Len(b) \in Nat /\ p + Len(b) \in 0 .. Len(d) /\ (p < Len(d) /\ n > 0 => Len(b) > 0)
         /\ SubSeq(d, 1, p) \o b = SubSeq(d, 1, p + Len(b))
<1> DEFINE R == Rest(d, p)
           b == Cut(R, n)
<1>0. Len(d) \in Nat /\ p \in Nat /\ p <= Len(d)
  BY LenProperties
<1>1. /\ R \in Seq(S) /\ Len(R) = Len(d) - p
      /\ \A i \in 1 .. Len(d) - p : R[i] = d[p + i]
  <2>1. /\ Rest(d, p) \in Seq(S)
        /\ Len(Rest(d, p)) = (IF p < Len(d) THEN Len(d) - p ELSE 0)
        /\ \A i \in 1 .. Len(d) - p : Rest(d, p)[i] = d[p + i]
    BY <1>0, RestSize
  <2>2. Len(Rest(d, p)) = Len(d) - p
    BY <1>0, <2>1
  <2> QED
    BY <2>1, <2>2
<1> HIDE DEF R
<1>2. PICK k \in 0 .. Len(R) : /\ b = SubSeq(R, 1, k) /\ b \in Seq(S) /\ Len(b) = k
                               /\ k = (IF n < Len(R) THEN n ELSE Len(R))
  BY <1>1, CutSize
<1> HIDE DEF b
<1>3. /\ k \in Nat /\ p + k \in 0 .. Len(d) /\ p + k \in Int /\ k <= Len(R)
      /\ (p < Len(d) /\ n > 0 => k > 0)
  BY <1>0, <1>1, <1>2
<1>4. \A i \in 1 .. k : b[i] = d[p + i]
  <2>1. \A i \in 1 .. k : R[i] \in S
    BY <1>1, <1>3, ElementOfSeq
  <2>2. \A i \in 1 .. k - 1 + 1 : SubSeq(R, 1, k)[i] = R[1 + i - 1]
    BY <1>3, <2>1, SubSeqProperties
  <2> QED
    BY <1>1, <1>2, <1>3, <2>2
<1>5. /\ SubSeq(d, 1, p) \in Seq(S) /\ Len(SubSeq(d, 1, p)) = p
      /\ \A i \in 1 .. p : SubSeq(d, 1, p)[i] = d[i]
  <2>1. \A i \in 1 .. p : d[i] \in S
    BY <1>0, ElementOfSeq
  <2>2. /\ SubSeq(d, 1, p) \in Seq(S) /\ Len(SubSeq(d, 1, p)) = IF 1 <= p THEN p - 1 + 1 ELSE 0
        /\ \A i \in 1 .. p - 1 + 1 : SubSeq(d, 1, p)[i] = d[1 + i - 1]
    BY <1>0, <2>1, SubSeqProperties
  <2> QED
    BY <1>0, <2>2
<1>6. /\ SubSeq(d, 1, p + k) \in Seq(S) /\ Len(SubSeq(d, 1, p + k)) = p + k
      /\ \A i \in 1 .. p + k : SubSeq(d, 1, p + k)[i] = d[i]
  <2> DEFINE q == p + k
  <2>0. q \in Int /\ q \in 0 .. Len(d)
    BY <1>3
  <2> HIDE DEF q
  <2>1. \A i \in 1 .. q : d[i] \in S
    BY <1>0, <2>0, ElementOfSeq
  <2>2. /\ SubSeq(d, 1, q) \in Seq(S) /\ Len(SubSeq(d, 1, q)) = IF 1 <= q THEN q - 1 + 1 ELSE 0
        /\ \A i \in 1 .. q - 1 + 1 : SubSeq(d, 1, q)[i] = d[1 + i - 1]
    BY <2>0, <2>1, SubSeqProperties
  <2>3. Len(SubSeq(d, 1, q)) = q /\ \A i \in 1 .. q : SubSeq(d, 1, q)[i] = d[i]
    BY <2>0, <2>2
  <2> QED
    BY <2>2, <2>3 DEF q
<1> DEFINE A == SubSeq(d, 1, p)
           B == SubSeq(d, 1, p + k)
<1>7. /\ A \in Seq(S) /\ Len(A) = p /\ \A i \in 1 .. p : A[i] = d[i]
      /\ B \in Seq(S) /\ Len(B) = p + k /\ \A i \in 1 .. p + k : B[i] = d[i]
  BY <1>5, <1>6
<1> HIDE DEF A, B
<1>8. /\ A \o b \in Seq(S) /\ Len(A \o b) = p + k
      /\ \A i \in 1 .. p + k : (A \o b)[i] = IF i <= p THEN A[i] ELSE b[i - p]
  <2>0. A \in Seq(S) /\ b \in Seq(S)
    BY <1>2, <1>7
  <2>1. /\ A \o b \in Seq(S) /\ Len(A \o b) = Len(A) + Len(b)
        /\ \A i \in 1 .. Len(A) + Len(b) :
             (A \o b)[i] = IF i <= Len(A) THEN A[i] ELSE b[i - Len(A)]
    BY ONLY <2>0, ConcatProperties
  <2>2. Len(A) = p /\ Len(b) = k
    BY <1>2, <1>7
  <2> QED
    BY <2>1, <2>2
<1>9. \A i \in 1 .. p + k : (A \o b)[i] = B[i]
  <2> TAKE i \in 1 .. p + k
  <2>1. CASE i <= p
    BY <1>0, <1>7, <1>8, <2>1
  <2>2. CASE ~ (i <= p)
    <3>1. i - p \in 1 .. k /\ p + (i - p) = i
      BY <1>0, <1>3, <2>2
    <3> QED
      BY <1>4, <1>7, <1>8, <2>2, <3>1
  <2> QED
    BY <2>1, <2>2
<1>10. A \o b = B
  BY <1>7, <1>8, <1>9, SeqEqual
<1> QED
  BY <1>2, <1>3, <1>10 DEF A, B, b, R

LEMMA LeastNat ==
  ASSUME NEW T, T \subseteq Nat, T # {}
  PROVE  \E x \in T : \A y \in T : x <= y
<1> DEFINE F == {0 .. n : n \in T}
<1>1. F \subseteq FiniteSubsetsOf(Nat)
  <2>1. ASSUME NEW n \in T PROVE IsFiniteSet(0 .. n) /\ 0 .. n \subseteq Nat
    BY FS_Interval
  <2> QED
    BY <2>1 DEF FiniteSubsetsOf
<1>2. PICK b \in F : \A c \in F : ~(<<c, b>> \in StrictSubsetOrdering(Nat))
  <2>1. IsWellFoundedOn(StrictSubsetOrdering(Nat), FiniteSubsetsOf(Nat))
    BY FS_StrictSubsetOrderingWellFounded
  <2>2. F # {}
    OBVIOUS
  <2> HIDE DEF F
  <2> QED
    BY <1>1, <2>1, <2>2, WFMin
<1>3. PICK x \in T : b = 0 .. x
  OBVIOUS
<1>4. ASSUME NEW y \in T, ~(x <= y) PROVE FALSE
  <2>1. 0 .. y \in F /\ 0 .. y \subseteq 0 .. x /\ 0 .. y # 0 .. x
    BY <1>4
  <2>2. 0 .. y \subseteq Nat /\ 0 .. x \subseteq Nat
    OBVIOUS
  <2> HIDE DEF F
  <2> QED
    BY <1>2, <1>3, <2>1, <2>2 DEF StrictSubsetOrdering
<1> QED
  BY <1>4

(* Of the numbers in a finite set every one below its size is the rank of one. *)
LEMMA Ranks ==
  ASSUME NEW S \in SUBSET Nat, IsFiniteSet(S), NEW n \in Nat, n < Cardinality(S)
  PROVE  \E i \in S : Cardinality({j \in S : j < i}) = n
<1> DEFINE Below(i) == {j \in S : j < i}
           T == {m \in Nat : m < Cardinality(S) => \E i \in S : Cardinality(Below(i)) = m}
<1>0. Cardinality(S) \in Nat
  BY FS_CardinalityType
<1>1. ASSUME 0 < Cardinality(S) PROVE \E i \in S : Cardinality(Below(i)) = 0
  <2>1. S # {}
    BY <1>1, FS_EmptySet
  <2>2. PICK i \in S : \A j \in S : i <= j
    BY <2>1, LeastNat
  <2>3. \A j \in S : ~ (j < i)
    BY <2>2
  <2>4. Below(i) = {}
    BY <2>3
  <2> QED
    BY <2>4, FS_EmptySet
<1>2. ASSUME NEW m \in Nat, m \in T, m + 1 < Cardinality(S)
      PROVE  \E i \in S : Cardinality(Below(i)) = m + 1
  <2>1. PICK i \in S : Cardinality(Below(i)) = m
    BY <1>0, <1>2
  <2> DEFINE U == {j \in S : i < j}
  <2>2. IsFiniteSet(Below(i)) /\ i \notin Below(i)
    BY FS_Subset
  <2> HIDE DEF T
  <2>3. Cardinality(Below(i) \cup {i}) = m + 1
    BY <2>1, <2>2, FS_AddElement
  <2>4. ASSUME NEW k \in S PROVE k < i \/ k = i \/ i < k
    OBVIOUS
  <2>5. U # {}
    <3> SUFFICES ASSUME U = {} PROVE FALSE
      OBVIOUS
    <3>1. S = Below(i) \cup {i}
      BY <2>4
    <3>2. Cardinality(S) = m + 1
      BY <2>3, <3>1
    <3> QED
      BY <1>0, <1>2, <3>2
  <2>6. PICK k \in U : \A j \in U : k <= j
    <3>1. U \subseteq Nat
      OBVIOUS
    <3> HIDE DEF U
    <3> QED
      BY <2>5, <3>1, LeastNat
  <2>7. k \in S /\ i < k /\ \A j \in S : i < j => ~ (j < k)
    BY <2>6
  <2>8. \A j \in S : j < k <=> (j < i \/ j = i)
    BY <2>7
  <2>9. Below(k) = Below(i) \cup {i}
    BY <2>8
  <2> QED
    BY <2>3, <2>7, <2>9
<1>3. 0 \in T /\ \A m \in Nat : m \in T => m + 1 \in T
  <2>1. 0 \in T
    BY <1>1
  <2>2. ASSUME NEW m \in Nat, m \in T PROVE m + 1 \in T
    <3>1. m + 1 < Cardinality(S) => \E i \in S : Cardinality(Below(i)) = m + 1
      <4> HIDE DEF T, Below
      <4> QED
        BY <1>2, <2>2
    <3>2. m + 1 \in Nat
      OBVIOUS
    <3> HIDE DEF Below
    <3> QED
      BY <3>1, <3>2
  <2> HIDE DEF T
  <2> QED
    BY <2>1, <2>2
<1>4. Nat \subseteq T
  <2> SUFFICES ASSUME Nat \ T # {} PROVE FALSE
    OBVIOUS
  <2> HIDE DEF T
  <2>1. PICK x \in Nat \ T : \A y \in Nat \ T : x <= y
    BY LeastNat
  <2>2. x # 0 /\ x - 1 \in Nat /\ (x - 1) + 1 = x
    BY <1>3
  <2> QED
    BY <1>3, <2>1, <2>2
<1> QED
  BY <1>4

LEMMA SameSize == \A S : Contract!Cardinality(S) = Cardinality(S)
BY DEF Cardinality, Contract!Cardinality

(* read_frec finds a record for every number below that of the records.    *)
LEMMA NthIsOne ==
  ASSUME NEW S, S \subseteq Ids, NEW n \in 0 .. Cardinality(S) - 1
  PROVE  Contract!Nth(S, n) \in S
<1>1. MaxId \in Nat /\ S \in SUBSET (1 .. MaxId)
  BY TransAssumption DEF Ids, Contract!Ids
<1>2. IsFiniteSet(1 .. MaxId)
  BY <1>1, FS_Interval
<1>3. IsFiniteSet(S) /\ S \in SUBSET Nat
  <2>1. IsFiniteSet(S)
    BY <1>1, <1>2, FS_Subset
  <2>2. \A i \in 1 .. MaxId : i \in Nat
    BY <1>1
  <2> QED
    BY <1>1, <2>1, <2>2
<1>4. n \in Nat /\ n < Cardinality(S)
  BY <1>3, FS_CardinalityType
<1>5. \E i \in S : Cardinality({j \in S : j < i}) = n
  BY <1>3, <1>4, Ranks
<1>6. \E i \in S : Contract!Cardinality({j \in S : j < i}) = n
  BY <1>5, SameSize
<1> QED
  BY <1>6 DEF Contract!Nth

-----------------------------------------------------------------------------
(* Records of the IC35.                                                    *)
LEMMA ContentSeq ==
  /\ \A d \in Records : d \in Seq(Bytes) /\ Len(d) \in 1 .. MaxRLen /\ Len(d) \in Nat
  /\ <<>> \in Seq(Bytes) /\ MaxRLen \in Nat
<1>1. ASSUME NEW d \in Records PROVE d \in Seq(Bytes) /\ Len(d) \in 1 .. MaxRLen
  <2>1. d \in Seq(ToSet(d)) /\ Len(d) \in 1 .. MaxRLen
    BY TransAssumption
  <2>2. ToSet(d) \subseteq Bytes
    BY DEF Bytes
  <2> QED
    BY <2>1, <2>2, SeqMonotonic
<1> QED
  BY <1>1, TransAssumption

LEMMA StoredRec ==
  ASSUME DevInv, NEW i \in Ids
  PROVE  /\ dev[i].data \in Seq(Bytes) /\ Len(dev[i].data) \in 0 .. MaxRLen
         /\ dev[i] = [data |-> dev[i].data, chg |-> dev[i].chg]
         /\ dev[i] # NoRec => dev[i].chg \in {"clean", "mod", "del"}
         /\ dev[i].data \in Records \cup {<<>>}
<1>1. dev[i] \in Stored
  BY DEF DevInv
<1>0. Len(<<>>) = 0
  OBVIOUS
<1>2. CASE dev[i] = NoRec
  <2>1. dev[i].data = <<>> /\ dev[i] = [data |-> dev[i].data, chg |-> dev[i].chg]
    BY <1>2 DEF NoRec, Contract!NoRec
  <2> QED
    BY <1>0, <1>2, <2>1, ContentSeq
<1>3. CASE dev[i] \in [data : Records \cup {<<>>}, chg : {"clean", "mod", "del"}]
  <2>1. /\ dev[i].data \in Records \cup {<<>>} /\ dev[i].chg \in {"clean", "mod", "del"}
        /\ dev[i] = [data |-> dev[i].data, chg |-> dev[i].chg]
    BY <1>3
  <2>2. ASSUME NEW d \in Records \cup {<<>>} PROVE d \in Seq(Bytes) /\ Len(d) \in 0 .. MaxRLen
    <3>1. CASE d \in Records
      <4>1. d \in Seq(Bytes) /\ Len(d) \in 1 .. MaxRLen
        BY <3>1, ContentSeq
      <4> QED
        BY <4>1
    <3>2. CASE d = <<>>
      BY <1>0, <3>2, ContentSeq
    <3> QED
      BY <3>1, <3>2
  <2>3. dev[i].data \in Seq(Bytes) /\ Len(dev[i].data) \in 0 .. MaxRLen
    BY <2>1, <2>2
  <2> QED
    BY <2>1, <2>3
<1> QED
  BY <1>1, <1>2, <1>3 DEF Stored

LEMMA TakesKeeps ==
  ASSUME DevInv, NEW op, NEW i \in Ids, NEW d, Contract!Takes(op, i, d),
         op \in Writers => d \in Records
  PROVE  DevInv' /\ did' = [done |-> TRUE, rid |-> i] /\ op \in Changes
<1>1. PICK rec : dev' = [dev EXCEPT ![i] = rec] /\ did' = [done |-> TRUE, rid |-> i] /\
        \/ op \in Writers /\ rec = [data |-> d, chg |-> "clean"]
        \/ op = "delete_frec" /\ rec = NoRec
        \/ op = "commit_frec" /\ rec = IF dev[i].chg = "del" THEN NoRec
                                       ELSE [dev[i] EXCEPT !.chg = "clean"]
  BY DEF Contract!Takes, Contract!Does, Writers, NoRec
<1>2. rec \in Stored
  <2>1. CASE op \in Writers /\ rec = [data |-> d, chg |-> "clean"]
    BY <2>1 DEF Stored
  <2>2. CASE rec = NoRec
    BY <2>2 DEF Stored
  <2>3. CASE dev[i].chg # "del" /\ rec = [dev[i] EXCEPT !.chg = "clean"]
    <3>1. dev[i] \in Stored
      BY DEF DevInv
    <3>2. CASE dev[i] = NoRec
      <4>1. rec = [data |-> <<>>, chg |-> "clean"]
        BY <2>3, <3>2 DEF NoRec, Contract!NoRec
      <4> QED
        BY <4>1 DEF Stored
    <3>3. CASE dev[i] \in [data : Records \cup {<<>>}, chg : {"clean", "mod", "del"}]
      BY <2>3, <3>3 DEF Stored
    <3> QED
      BY <3>1, <3>2, <3>3 DEF Stored
  <2> QED
    BY <1>1, <2>1, <2>2, <2>3
<1>3. DevInv'
  BY <1>1, <1>2 DEF DevInv, Ids, Contract!Ids
<1> QED
  BY <1>1, <1>3, ChangesAre DEF Writers

-----------------------------------------------------------------------------
(* What the IC35 has done when it has executed the command.                *)
Plain == {"ident", "getpower", "password", "category", "getdtime", "fopen", "fclose",
          "fgetlen", "fgetmlen"}

LEMMA CmdKind ==
  ASSUME Inv, pc \in Sending
  PROVE  /\ cmd.id \in Plain \cup Firsts \cup {"fgetmore", "disconn", "fputrec", "fupdrec",
                                               "fputmore", "fdelrec", "fclrchg", "setdtime"}
         /\ cmd.id \in Plain \cup Firsts \cup {"fgetmore", "disconn"} => call.op \notin Changes
         /\ cmd.id \in {"fputrec", "fupdrec", "fputmore"} <=> call.op \in Writers
         /\ cmd.id = "fputrec" => call.op = "write_frec"
         /\ cmd.id = "fupdrec" => call.op = "update_frec"
         /\ cmd.id = "fgetirec" => call.op = "read_id_frec" /\ cmd.rid = call.id
         /\ cmd.id = "fgetrec" => /\ call.op = "read_frec" /\ cmd.rid = call.id
                                  /\ call.id \in 0 .. Cardinality(Contract!Exists(dev)) - 1
         /\ cmd.id = "fgetmrec" => call.op = "read_mod_frec"
         /\ cmd.id = "fdelrec" => call.op = "delete_frec" /\ cmd.rid = call.id /\ call.id \in Ids
         /\ cmd.id = "fclrchg" => call.op = "commit_frec" /\ cmd.rid = call.id /\ call.id \in Ids
         /\ cmd.id = "setdtime" => call.op = "WriteSysInfo" /\ cmd.data = call.data
<1>1. cmd.id \in CmdsOf(call.op)
  BY OpOf
<1>2. CASE call.op \in Simples
  <2>1. cmd.id = Single[call.op]
    BY <1>1, <1>2, CmdsAre
  <2>2. cmd.id \in {"getdtime", "category", "fopen", "fclose", "fgetlen", "fgetmlen"}
    BY <1>2, <2>1, SingleCmds
  <2> QED
    BY <1>2, <2>2, ChangesAre DEF Plain, Simples, Firsts, Writers
<1>3. CASE call.op \in {"connect", "disconnect"}
  BY <1>1, <1>3, CmdsAre, ChangesAre DEF Plain, Firsts, Writers
<1>4. CASE call.op \in Readers
  BY <1>1, <1>4, CmdsAre, ChangesAre DEF Plain, Firsts, Writers, Readers, Inv, CmdInv
<1>5. CASE call.op \in Changes
  BY <1>1, <1>5, CmdsAre, ChangesAre DEF Plain, Firsts, Writers, Readers, Inv, CmdInv
<1> QED
  BY <1>2, <1>3, <1>4, <1>5, OpOf

Executed ==
  /\ ic' = [mode |-> ic'.mode, rsp |-> ic'.rsp, out |-> ic'.out, wr |-> ic'.wr] /\ IsCmd(ic'.wr)
  /\ ic'.mode = IF cmd.id = "disconn" THEN "leaving" ELSE ic.mode
  /\ UNCHANGED devvars \/ (cmd.id = "fputmore" /\ lates # 0) \/ MakesStep
  /\ did' # NoWork => call.op \in Changes /\ (call.op \in Writers => cmd.last)
  /\ dev' # dev => call.op \in Changes
  /\ lates = 0 => DevInv'

LEMMA NothingDone ==
  ASSUME Inv, pc = "select", UNCHANGED devvars, IsCmd(ic'.wr),
         ic' = [mode |-> ic'.mode, rsp |-> ic'.rsp, out |-> ic'.out, wr |-> ic'.wr],
         ic'.mode = IF cmd.id = "disconn" THEN "leaving" ELSE ic.mode
  PROVE  Executed
BY DEF Executed, Inv, DidInv, InTimeInv, DevInv, devvars

LEMMA ExecPlain ==
  ASSUME Inv, pc = "select", IcExecutes(cmd), cmd.id \in Plain
  PROVE  Executed /\ (UNCHANGED <<call, cmd>> => RightRsp(ic.rsp)')
<1>1. PICK r : /\ Unchanged(r)
               /\ cmd.id = "getdtime" => r = Rsp("info", TRUE, info)
               /\ cmd.id = "fgetlen"  => r = Rsp("len", TRUE, Cardinality(Contract!Exists(dev)))
               /\ cmd.id = "fgetmlen" => r = Rsp("len", TRUE, Cardinality(Contract!Changed(dev)))
  BY IcDoes DEF Plain
<1>2. /\ UNCHANGED <<dev, info, did>>
      /\ ic' = [mode |-> ic.mode, rsp |-> r, out |-> <<>>, wr |-> NoCmd]
  BY <1>1, IcShape DEF Unchanged, Inv, devvars
<1>3. Executed
  BY <1>2, NothingDone DEF NoCmd, IsCmd, Plain, devvars
<1>4. call.op \notin Changes /\ call.op \notin Writers
  BY CmdKind, ChangesAre DEF Sending, Writers
<1>5. ASSUME UNCHANGED <<call, cmd>> PROVE RightRsp(ic.rsp)'
  BY <1>1, <1>2, <1>4, <1>5 DEF RightRsp, Plain, Firsts, Contract!Exists, Contract!Changed, Changes, Contract!Changes
<1> QED
  BY <1>3, <1>5

LEMMA ExecDisconn ==
  ASSUME Inv, pc = "select", IcExecutes(cmd), cmd.id = "disconn"
  PROVE  Executed
<1>1. /\ ic' = [mode |-> "leaving", rsp |-> Rsp("done", TRUE, 0), out |-> ic.out, wr |-> ic.wr]
      /\ UNCHANGED devvars
  BY IcDoes, IcShape DEF Inv
<1> QED
  BY <1>1, NothingDone DEF Inv, Shape

LEMMA ExecFirst ==
  ASSUME Inv, pc = "select", IcExecutes(cmd), cmd.id \in Firsts
  PROVE  Executed /\ (lates = 0 /\ UNCHANGED <<call, cmd>> => RightRsp(ic.rsp)')
<1>0. pc \in Sending /\ Contract!Exists(dev) \subseteq Ids /\ Contract!Changed(dev) \subseteq Ids
  BY DEF Sending, Contract!Exists, Contract!Changed, Ids
<1>1. \/ Unchanged(Rsp("rec", TRUE, Contract!NonExist)) /\ Absent(Rsp("rec", TRUE, Contract!NonExist))
      \/ \E i \in Ids : SendsRecord(i) /\ Wanted(i)
  <2>1. CASE cmd.id = "fgetirec"
    <3>1. /\ call.op = "read_id_frec" /\ cmd.rid = call.id
          /\ IF cmd.rid \in Contract!Exists(dev) THEN SendsRecord(cmd.rid)
             ELSE Unchanged(Rsp("rec", TRUE, Contract!NonExist))
      BY <1>0, <2>1, CmdKind, IcDoes
    <3>2. CASE call.id \in Contract!Exists(dev)
      BY <1>0, <3>1, <3>2 DEF Wanted
    <3>3. CASE call.id \notin Contract!Exists(dev)
      BY <3>1, <3>3 DEF Absent
    <3> QED
      BY <3>2, <3>3
  <2>2. CASE cmd.id = "fgetrec"
    <3>1. /\ call.op = "read_frec" /\ call.id \in 0 .. Cardinality(Contract!Exists(dev)) - 1
          /\ SendsRecord(Contract!Nth(Contract!Exists(dev), call.id))
      BY <1>0, <2>2, CmdKind, IcDoes
    <3>2. Contract!Nth(Contract!Exists(dev), call.id) \in Ids
      BY <1>0, <3>1, NthIsOne
    <3> QED
      BY <3>1, <3>2 DEF Wanted
  <2>3. CASE cmd.id = "fgetmrec"
    <3>1. call.op = "read_mod_frec" /\ \E i \in Contract!Changed(dev) : SendsRecord(i)
      BY <1>0, <2>3, CmdKind, IcDoes
    <3> QED
      BY <1>0, <3>1 DEF Wanted
  <2> QED
    BY <2>1, <2>2, <2>3 DEF Firsts
<1>4. call.op \notin Changes /\ call.op \notin Writers
  BY <1>0, CmdKind, ChangesAre DEF Writers
<1>2. CASE /\ Unchanged(Rsp("rec", TRUE, Contract!NonExist))
           /\ Absent(Rsp("rec", TRUE, Contract!NonExist))
  <2> DEFINE r == Rsp("rec", TRUE, Contract!NonExist)
  <2>1. /\ UNCHANGED <<dev, info, did>> /\ Absent(r)
        /\ ic' = [mode |-> ic.mode, rsp |-> r, out |-> <<>>, wr |-> NoCmd]
    BY <1>2, IcShape DEF Unchanged, Inv, devvars
  <2> HIDE DEF r
  <2>2. Executed
    BY <2>1, NothingDone DEF NoCmd, IsCmd, Firsts, devvars
  <2>3. ASSUME UNCHANGED <<call, cmd>> PROVE RightRsp(ic.rsp)'
    <3>1. Absent(ic.rsp)'
      BY <2>1, <2>3 DEF Absent, Contract!Exists, Contract!NonExist
    <3> QED
      BY <1>4, <2>3, <3>1 DEF RightRsp, Firsts, Contract!Changes, Changes
  <2> QED
    BY <2>2, <2>3
<1>3. ASSUME NEW i \in Ids, SendsRecord(i), Wanted(i)
      PROVE  Executed /\ (lates = 0 /\ UNCHANGED <<call, cmd>> => RightRsp(ic.rsp)')
  <2>1. /\ UNCHANGED <<dev, info, did>>
        /\ ic' = [mode |-> ic.mode, rsp |-> FirstBlock(i), out |-> Rest(dev[i].data, ReadLen), wr |-> NoCmd]
    BY <1>3, IcShape DEF SendsRecord, FirstBlock, Inv, devvars
  <2>2. Executed
    BY <2>1, NothingDone DEF NoCmd, IsCmd, Firsts, devvars
  <2>3. ASSUME UNCHANGED <<call, cmd>> PROVE RightRsp(ic.rsp)'
    <3>1. /\ ic'.rsp = FirstBlock(i)' /\ Wanted(i)' /\ ic'.out = Rest(dev[i].data, ReadLen)'
      BY <1>3, <2>1, <2>3 DEF FirstBlock, Wanted, Contract!Exists, Contract!Changed, Contract!Found
    <3>2. i \in Ids'
      BY DEF Ids, Contract!Ids
    <3> QED
      BY <1>4, <2>3, <3>1, <3>2 DEF RightRsp, Firsts, Contract!Changes, Changes
  <2> QED
    BY <2>2, <2>3
<1> QED
  BY <1>1, <1>2, <1>3

LEMMA GetsDoes ==
  ASSUME Shape, NEW c, Gets(c)
  PROVE  \/ /\ ~ c.last /\ UNCHANGED devvars
            /\ ic' = [mode |-> ic.mode, rsp |-> Rsp("cont", FALSE, 0), out |-> ic.out, wr |-> c]
         \/ \E i \in Ids :
              /\ c.last /\ UNCHANGED info
              /\ ic' = [mode |-> ic.mode, rsp |-> Rsp("id", TRUE, i), out |-> <<>>, wr |-> NoCmd]
              /\ \/ c.id = "fputrec" /\ Contract!Takes("write_frec", i, c.data)
                 \/ c.id # "fputrec" /\ i = c.rid /\ Contract!Takes("update_frec", i, c.data)
<1>1. CASE ~ c.last
  <2>1. ic' = [ic EXCEPT !.wr = c, !.rsp = Rsp("cont", FALSE, 0)] /\ UNCHANGED devvars
    BY <1>1 DEF Gets
  <2> QED
    BY <1>1, <2>1, IcShape
<1>2. CASE c.last
  <2>1. PICK i \in Ids :
          /\ UNCHANGED info /\ Answers(Rsp("id", TRUE, i))
          /\ \/ c.id = "fputrec" /\ Contract!Takes("write_frec", i, c.data)
             \/ c.id # "fputrec" /\ i = c.rid /\ Contract!Takes("update_frec", i, c.data)
    BY <1>2 DEF Gets
  <2>2. ic' = [mode |-> ic.mode, rsp |-> Rsp("id", TRUE, i), out |-> <<>>, wr |-> NoCmd]
    BY <2>1, IcShape
  <2> QED
    BY <1>2, <2>1, <2>2
<1> QED
  BY <1>1, <1>2

(* The blocks of a record being written, so far.                           *)
LEMMA BlockIs ==
  ASSUME Inv, pc \in Sending, call.op \in Writers
  PROVE  LET n == loc.ptr + Len(cmd.data) IN
         /\ loc.ptr \in Nat /\ Len(cmd.data) \in Nat /\ n \in 0 .. Len(call.data)
         /\ SubSeq(call.data, 1, loc.ptr) \o cmd.data = SubSeq(call.data, 1, n)
         /\ cmd.last <=> n >= Len(call.data)
         /\ n >= Len(call.data) => SubSeq(call.data, 1, n) = call.data
         /\ cmd.last \in BOOLEAN
         /\ cmd = [id |-> WriteId(call, loc.ptr), rid |-> call.id, data |-> cmd.data, last |-> cmd.last]
         /\ cmd.id = "fputmore" <=> loc.ptr > 0
         /\ loc.ptr = 0 => cmd.data = SubSeq(call.data, 1, n)
<1> DEFINE d == call.data
           p == loc.ptr
           b == Cut(Rest(d, p), WriteLen)
           n == p + Len(b)
<1>1. /\ d \in Records /\ p \in 0 .. Len(d) - 1 /\ cmd = WriteCmd(call, p)
  BY DEF Inv, CmdInv
<1> DEFINE full == n >= Len(d)
<1>2. cmd = [id |-> WriteId(call, p), rid |-> call.id, data |-> b, last |-> full]
  BY <1>1, Zenon DEF WriteCmd
<1>3. d \in Seq(Bytes) /\ Len(d) \in Nat /\ p \in Nat /\ p \in 0 .. Len(d) /\ WriteLen \in Nat
  BY <1>1, ContentSeq, TransAssumption
<1>4. cmd.data = b /\ (cmd.last <=> n >= Len(d)) /\ cmd.id = WriteId(call, p) /\ cmd.last \in BOOLEAN
  <2>1. cmd.last = full
    BY <1>2, Zenon
  <2>2. full \in BOOLEAN
    OBVIOUS
  <2>3. cmd.data = b /\ cmd.id = WriteId(call, p)
    BY <1>2, Zenon
  <2> QED
    BY <2>1, <2>2, <2>3, Zenon
<1>5. cmd = [id |-> WriteId(call, p), rid |-> call.id, data |-> cmd.data, last |-> cmd.last]
  BY <1>2, Zenon
<1>6. WriteId(call, p) = "fputmore" <=> p > 0
  BY <1>3 DEF WriteId, Writers
<1> HIDE DEF d, p
<1>7. Len(b) \in Nat /\ n \in 0 .. Len(d) /\ SubSeq(d, 1, p) \o b = SubSeq(d, 1, n)
  BY <1>3, NextBlock
<1> HIDE DEF b
<1>8. n >= Len(d) => SubSeq(d, 1, n) = d
  <2>1. n >= Len(d) => n = Len(d)
    BY <1>3, <1>7
  <2> QED
    BY <1>3, <2>1, SubSeqFull
<1>9. p = 0 => b = SubSeq(d, 1, n)
  <2> SUFFICES ASSUME p = 0 PROVE b = SubSeq(d, 1, n)
    OBVIOUS
  <2>1. SubSeq(d, 1, 0) = <<>>
    BY SubSeqEmpty
  <2>2. b \in Seq(Bytes)
    <3>1. Rest(d, p) \in Seq(Bytes)
      BY <1>3, RestSize
    <3> QED
      BY <1>3, <3>1, CutSize DEF b
  <2>3. <<>> \o b = b
    BY <2>2, ConcatEmptySeq
  <2> QED
    BY <1>7, <2>1, <2>3
<1> QED
  BY <1>3, <1>4, <1>5, <1>6, <1>7, <1>8, <1>9 DEF d, p

LEMMA CmdFields ==
  ASSUME NEW w, NEW i, NEW r, NEW d, NEW l, w = [id |-> i, rid |-> r, data |-> d, last |-> l]
  PROVE  /\ w.id = i /\ w.rid = r /\ w.data = d /\ w.last = l
         /\ \A e, f, v : v = [w EXCEPT !.data = e, !.last = f] =>
              v = [id |-> i, rid |-> r, data |-> e, last |-> f]
<1>1. w.id = i /\ w.rid = r /\ w.data = d
  OBVIOUS
<1>2. w.last = l
  OBVIOUS
<1>3. ASSUME NEW e, NEW f, NEW v, v = [w EXCEPT !.data = e, !.last = f]
      PROVE  v = [id |-> i, rid |-> r, data |-> e, last |-> f]
  BY <1>3
<1> QED
  BY <1>1, <1>2, <1>3

(* What the IC35 gets: with nothing late, what has been sent of the record. *)
LEMMA Got ==
  ASSUME Inv, pc = "select", IcExecutes(cmd), call.op \in Writers
  PROVE  \/ UNCHANGED devvars /\ lates # 0 /\ Unchanged(NoRsp)
         \/ \E c : /\ Gets(c) /\ IsCmd(c) /\ (c.last <=> cmd.last)
                   /\ \/ cmd.id = "fputmore" /\ lates # 0
                      \/ c = [id |-> WriteId(call, 0), rid |-> call.id, last |-> cmd.last,
                              data |-> SubSeq(call.data, 1, loc.ptr + Len(cmd.data))]
<1> DEFINE n == loc.ptr + Len(cmd.data)
           w == ic.wr
           cc == [w EXCEPT !.data = @ \o cmd.data, !.last = cmd.last]
<1>1. /\ loc.ptr \in Nat /\ SubSeq(call.data, 1, loc.ptr) \o cmd.data = SubSeq(call.data, 1, n)
      /\ cmd = [id |-> WriteId(call, loc.ptr), rid |-> call.id, data |-> cmd.data, last |-> cmd.last]
      /\ cmd.id = "fputmore" <=> loc.ptr > 0
      /\ loc.ptr = 0 => cmd.data = SubSeq(call.data, 1, n)
  BY BlockIs DEF Sending
<1>2. /\ cmd.id \in {"fputrec", "fupdrec"} => Gets(cmd)
      /\ cmd.id = "fputmore" => IF w = NoCmd THEN Unchanged(NoRsp) ELSE Gets(cc)
  BY IcDoes
<1>3. cmd.id \in {"fputrec", "fupdrec", "fputmore"}
  BY CmdKind DEF Sending
<1>4. CASE cmd.id # "fputmore"
  <2>1. loc.ptr = 0 /\ Gets(cmd)
    BY <1>1, <1>2, <1>3, <1>4
  <2>2. IsCmd(cmd)
    BY <1>1 DEF IsCmd
  <2>3. cmd = [id |-> WriteId(call, 0), rid |-> call.id, data |-> SubSeq(call.data, 1, n), last |-> cmd.last]
    BY <1>1, <2>1
  <2> QED
    BY <2>1, <2>2, <2>3
<1>5. CASE cmd.id = "fputmore"
  <2>1. w = [id |-> w.id, rid |-> w.rid, data |-> w.data, last |-> w.last]
    BY DEF Inv, Shape, IsCmd
  <2>2. cc = [id |-> w.id, rid |-> w.rid, data |-> w.data \o cmd.data, last |-> cmd.last]
    <3> DEFINE e == w.data \o cmd.data
    <3>1. cc = [w EXCEPT !.data = e, !.last = cmd.last]
      OBVIOUS
    <3> HIDE DEF e, w, cc
    <3>2. cc = [id |-> w.id, rid |-> w.rid, data |-> e, last |-> cmd.last]
      BY <2>1, <3>1, CmdFields
    <3> QED
      BY <3>2 DEF e
  <2>3. IsCmd(cc) /\ cc.last = cmd.last
    BY <2>2 DEF IsCmd
  <2>4. CASE lates # 0
    <3>1. CASE w = NoCmd
      BY <1>2, <1>5, <2>4, <3>1 DEF Unchanged
    <3>2. CASE w # NoCmd
      BY <1>2, <1>5, <2>3, <2>4, <3>2
    <3> QED
      BY <3>1, <3>2
  <2>5. CASE lates = 0
    <3>1. w = [id |-> WriteId(call, 0), rid |-> call.id, data |-> SubSeq(call.data, 1, loc.ptr), last |-> FALSE]
      BY <1>1, <1>5, <2>5 DEF Inv, InTimeInv, WrInv, Partial
    <3> HIDE DEF w, cc
    <3>3. /\ w.id = WriteId(call, 0) /\ w.rid = call.id /\ w.data = SubSeq(call.data, 1, loc.ptr)
          /\ w.last = FALSE
      BY <3>1, CmdFields
    <3>2. w # NoCmd
      <4>2. NoCmd.last = TRUE
        BY DEF NoCmd
      <4> QED
        BY <3>3, <4>2
    <3>4. cc = [id |-> WriteId(call, 0), rid |-> call.id, data |-> SubSeq(call.data, 1, n), last |-> cmd.last]
      BY <1>1, <2>2, <3>3
    <3> QED
      BY <1>2, <1>5, <2>3, <3>2, <3>4 DEF n
  <2> QED
    BY <2>4, <2>5
<1> QED
  BY <1>4, <1>5

LEMMA ExecWrite ==
  ASSUME Inv, pc = "select", IcExecutes(cmd), call.op \in Writers
  PROVE  /\ Executed
         /\ lates = 0 /\ UNCHANGED <<call, cmd, loc>> =>
              /\ RightRsp(ic.rsp)'
              /\ ~ cmd.last => ic'.wr = Partial(loc.ptr + Len(cmd.data))
<1> DEFINE n == loc.ptr + Len(cmd.data)
<1>1. /\ did = NoWork /\ pc \in Sending /\ Shape /\ call.op \in Changes
      /\ cmd.id \in {"fputrec", "fupdrec", "fputmore"} /\ call.data \in Records
  BY CmdKind, ChangesAre DEF Inv, DidInv, CmdInv, Sending, Writers
<1>2. /\ cmd.last \in BOOLEAN /\ (cmd.last => SubSeq(call.data, 1, n) = call.data)
  BY <1>1, BlockIs
<1> HIDE DEF n
<1>3. CASE UNCHANGED devvars /\ lates # 0 /\ Unchanged(NoRsp)
  <2>1. ic' = [mode |-> ic.mode, rsp |-> NoRsp, out |-> <<>>, wr |-> NoCmd]
    BY <1>1, <1>3, IcShape DEF Unchanged
  <2>2. Executed
    BY <1>1, <1>3, <2>1, NothingDone DEF NoCmd, IsCmd
  <2> QED
    BY <1>3, <2>2
<1>4. ASSUME NEW c, Gets(c), IsCmd(c), c.last <=> cmd.last,
             \/ cmd.id = "fputmore" /\ lates # 0
             \/ c = [id |-> WriteId(call, 0), rid |-> call.id, last |-> cmd.last,
                     data |-> SubSeq(call.data, 1, n)]
      PROVE  /\ Executed
             /\ lates = 0 /\ UNCHANGED <<call, cmd, loc>> =>
                  /\ RightRsp(ic.rsp)'
                  /\ ~ cmd.last => ic'.wr = Partial(n)
  <2>1. CASE /\ ~ c.last /\ UNCHANGED devvars
             /\ ic' = [mode |-> ic.mode, rsp |-> Rsp("cont", FALSE, 0), out |-> ic.out, wr |-> c]
    <3>1. Executed
      BY <1>1, <1>4, <2>1, NothingDone
    <3>2. cmd.last = FALSE
      BY <1>2, <1>4, <2>1
    <3>3. ASSUME lates = 0 PROVE ic'.wr = Partial(n)
      <4>1. \/ cmd.id = "fputmore" /\ lates # 0
            \/ c = [id |-> WriteId(call, 0), rid |-> call.id, last |-> cmd.last,
                    data |-> SubSeq(call.data, 1, n)]
        BY <1>4
      <4>2. c = [id |-> WriteId(call, 0), rid |-> call.id, last |-> FALSE,
                 data |-> SubSeq(call.data, 1, n)]
        BY <3>2, <3>3, <4>1, Zenon
      <4> QED
        BY <2>1, <4>2 DEF Partial
    <3>4. ASSUME UNCHANGED <<call, cmd, loc>> PROVE RightRsp(ic.rsp)'
      <4>1. ic'.rsp = Rsp("cont", FALSE, 0)
        BY <2>1
      <4> QED
        BY <1>1, <3>2, <3>4, <4>1 DEF RightRsp, Firsts, Writers
    <3> QED
      BY <3>1, <3>3, <3>4
  <2>2. ASSUME NEW i \in Ids, c.last, UNCHANGED info,
               ic' = [mode |-> ic.mode, rsp |-> Rsp("id", TRUE, i), out |-> <<>>, wr |-> NoCmd],
               \/ c.id = "fputrec" /\ Contract!Takes("write_frec", i, c.data)
               \/ c.id # "fputrec" /\ i = c.rid /\ Contract!Takes("update_frec", i, c.data)
        PROVE  /\ Executed
               /\ UNCHANGED <<call, cmd, loc>> => RightRsp(ic.rsp)'
    <3>1. did' = [done |-> TRUE, rid |-> i] /\ cmd.last
      BY <1>4, <2>2 DEF Contract!Takes, Contract!Does
    <3>2. \/ cmd.id = "fputmore" /\ lates # 0
          \/ MakesStep /\ (lates = 0 => DevInv')
      <4>1. CASE cmd.id = "fputmore" /\ lates # 0
        BY <4>1
      <4>2. CASE c = [id |-> WriteId(call, 0), rid |-> call.id, last |-> cmd.last,
                      data |-> SubSeq(call.data, 1, n)]
        <5>1. c.id = WriteId(call, 0) /\ c.rid = call.id /\ c.data = call.data
          BY <1>2, <3>1, <4>2
        <5>2. \/ call.op = "write_frec" /\ Contract!Takes("write_frec", i, call.data)
              \/ call.op = "update_frec" /\ i = call.id /\ Contract!Takes("update_frec", i, call.data)
          BY <2>2, <5>1 DEF WriteId, Writers
        <5>3. MakesStep
          BY <1>1, <2>2, <5>2 DEF MakesStep, NoWork, Contract!NoWork
        <5>4. lates = 0 => DevInv'
          BY <1>1, <5>2, TakesKeeps DEF Inv, InTimeInv
        <5> QED
          BY <5>3, <5>4
      <4> QED
        BY <1>4, <4>1, <4>2
    <3>3. /\ ic' = [mode |-> ic'.mode, rsp |-> ic'.rsp, out |-> ic'.out, wr |-> ic'.wr]
          /\ IsCmd(ic'.wr) /\ ic'.mode = ic.mode /\ ic'.rsp = Rsp("id", TRUE, i)
      BY <2>2 DEF IsCmd, NoCmd
    <3>4. Executed
      BY <1>1, <3>1, <3>2, <3>3 DEF Executed
    <3>5. ASSUME UNCHANGED <<call, cmd, loc>> PROVE RightRsp(ic.rsp)'
      BY <1>1, <3>1, <3>3, <3>5 DEF RightRsp, Firsts, Writers
    <3> QED
      BY <3>4, <3>5
  <2> QED
    BY <1>1, <1>4, <2>1, <2>2, GetsDoes
<1> QED
  BY <1>3, <1>4, Got DEF n

LEMMA ExecOther ==
  ASSUME Inv, pc = "select", IcExecutes(cmd), cmd.id \in {"fdelrec", "fclrchg", "setdtime"}
  PROVE  Executed /\ (UNCHANGED <<call, cmd>> => RightRsp(ic.rsp)')
<1>1. /\ did = NoWork /\ pc \in Sending /\ Shape
      /\ call.op \in Changes /\ call.op \notin Writers
      /\ cmd.id = "fdelrec" => call.op = "delete_frec" /\ cmd.rid = call.id /\ call.id \in Ids
      /\ cmd.id = "fclrchg" => call.op = "commit_frec" /\ cmd.rid = call.id /\ call.id \in Ids
      /\ cmd.id = "setdtime" => call.op = "WriteSysInfo" /\ cmd.data = call.data
  <2>1. pc \in Sending
    BY DEF Sending
  <2> QED
    BY <2>1, CmdKind, ChangesAre DEF Inv, DidInv, Writers
<1>2. /\ Answers(Rsp("done", TRUE, 0))
      /\ \/ /\ call.op \in {"delete_frec", "commit_frec"} /\ call.id \in Ids /\ UNCHANGED info
            /\ Contract!Takes(call.op, call.id, <<>>)
         \/ /\ call.op = "WriteSysInfo" /\ info' = call.data[1] /\ UNCHANGED dev
            /\ did' = [done |-> TRUE, rid |-> 0]
  BY <1>1, IcDoes
<1>3. ic' = [mode |-> ic.mode, rsp |-> Rsp("done", TRUE, 0), out |-> <<>>, wr |-> NoCmd]
  BY <1>1, <1>2, IcShape
<1>4. did'.done /\ MakesStep /\ (lates = 0 => DevInv')
  <2>1. CASE /\ call.op \in {"delete_frec", "commit_frec"} /\ call.id \in Ids /\ UNCHANGED info
             /\ Contract!Takes(call.op, call.id, <<>>)
    <3>1. did'.done
      BY <2>1 DEF Contract!Takes, Contract!Does
    <3>2. Contract!Takes(call.op, call.id, call.data)
      BY <2>1 DEF Contract!Takes
    <3>3. MakesStep
      BY <1>1, <2>1, <3>2 DEF MakesStep, NoWork, Contract!NoWork
    <3>4. lates = 0 => DevInv'
      BY <2>1, TakesKeeps DEF Inv, InTimeInv, Writers
    <3> QED
      BY <3>1, <3>3, <3>4
  <2>2. CASE /\ call.op = "WriteSysInfo" /\ info' = call.data[1] /\ UNCHANGED dev
             /\ did' = [done |-> TRUE, rid |-> 0]
    BY <1>1, <2>2 DEF MakesStep, NoWork, Contract!NoWork, Inv, InTimeInv, DevInv
  <2> QED
    BY <1>2, <2>1, <2>2
<1>5. Executed
  BY <1>1, <1>3, <1>4 DEF Executed, IsCmd, NoCmd
<1>6. ASSUME UNCHANGED <<call, cmd>> PROVE RightRsp(ic.rsp)'
  BY <1>1, <1>4, <1>6 DEF RightRsp, Firsts, Changes, Contract!Changes
<1> QED
  BY <1>5, <1>6

(* The next block of a record is what is left of it.                       *)
LEMMA ExecMore ==
  ASSUME Inv, pc = "select", IcExecutes(cmd), cmd.id = "fgetmore"
  PROVE  /\ Executed
         /\ lates = 0 /\ losts <= 1 /\ UNCHANGED loc => More(ic.rsp)' /\ ic'.out \in Seq(Bytes)
<1> DEFINE d == Cut(ic.out, ReadLen)
           o == Rest(ic.out, ReadLen)
           r == Rsp("more", Len(ic.out) <= ReadLen, [data |-> d])
<1>1. UNCHANGED <<dev, info, did>> /\ ic' = [ic EXCEPT !.out = o, !.rsp = r]
  BY IcDoes DEF SendsMore, devvars
<1>2. ic' = [mode |-> ic.mode, rsp |-> r, out |-> o, wr |-> ic.wr]
  <2> HIDE DEF o, r
  <2> QED
    BY <1>1, IcShape DEF Inv
<1>3. Executed
  <2> HIDE DEF o, r
  <2> QED
    BY <1>1, <1>2, NothingDone DEF Inv, Shape, devvars
<1>4. ASSUME lates = 0, losts <= 1, UNCHANGED loc PROVE More(ic.rsp)' /\ ic'.out \in Seq(Bytes)
  <2>1. /\ loc.data \in Seq(Bytes) /\ ic.out \in Seq(Bytes) /\ dev[loc.rid].data = loc.data \o ic.out
    BY <1>4 DEF Inv, InTimeInv, ReadInv
  <2>2. ReadLen \in Nat
    BY TransAssumption
  <2>3. /\ d \in Seq(Bytes) /\ o \in Seq(Bytes) /\ ic.out = d \o o
        /\ Len(ic.out) <= ReadLen <=> o = <<>>
    BY <2>1, <2>2, CutAndRest
  <2>4. (Len(ic.out) <= ReadLen) = (o = <<>>)
    BY <2>3
  <2>5. r = Rsp("more", o = <<>>, [data |-> d])
    BY <2>4
  <2> HIDE DEF r, d, o
  <2>6. dev[loc.rid].data = (loc.data \o d) \o o
    <3> DEFINE l == loc.data
    <3>1. l \in Seq(Bytes) /\ d \in Seq(Bytes) /\ o \in Seq(Bytes)
      BY <2>1, <2>3
    <3> HIDE DEF l
    <3>2. (l \o d) \o o = l \o (d \o o)
      BY <3>1, ConcatAssociative
    <3> QED
      BY <2>1, <2>3, <3>2 DEF l
  <2>7. ic'.rsp = r /\ ic'.out = o
    BY <1>2
  <2>8. /\ ic'.rsp = Rsp("more", ic'.out = <<>>, [data |-> d])
        /\ dev'[loc'.rid].data = (loc'.data \o d) \o ic'.out
    BY <1>1, <1>4, <2>5, <2>6, <2>7
  <2> QED
    BY <2>3, <2>7, <2>8 DEF More, Bytes
<1> QED
  BY <1>3, <1>4

LEMMA ExecAll == ASSUME Inv, pc = "select", IcExecutes(cmd) PROVE Executed
<1>1. pc \in Sending
  BY DEF Sending
<1> QED
  BY <1>1, CmdKind, ExecPlain, ExecFirst, ExecMore, ExecDisconn, ExecWrite, ExecOther

LEMMA SelectStep == ASSUME Inv, SendSelect PROVE Inv' /\ Promise
<1> DEFINE a == Answer({"on"}, Ack("L1ACK1"))
<1>1. PICK s \in L1send(a) : \E r \in L1recv(s, Recv1(s.now), Recv1(<<>>)) :
        /\ Transfer(s, r)
        /\ IF s.arrived /\ ic.mode = "on" THEN IcExecutes(cmd) ELSE UNCHANGED <<ic, devvars>>
        /\ IF r.got.rid = "L1ACK1" THEN Goto("request") ELSE SendFails
  BY DEF SendSelect
<1>2. PICK r \in L1recv(s, Recv1(s.now), Recv1(<<>>)) :
        /\ Transfer(s, r)
        /\ IF s.arrived /\ ic.mode = "on" THEN IcExecutes(cmd) ELSE UNCHANGED <<ic, devvars>>
        /\ IF r.got.rid = "L1ACK1" THEN Goto("request") ELSE SendFails
  BY <1>1
<1>3. /\ pc = "select" /\ pc \in Sending /\ did = NoWork /\ losts \in Nat /\ lates \in Nat
      /\ UNCHANGED <<rsp, open>>
  BY DEF SendSelect, Inv, DidInv, Shape, Sending
<1>4. /\ line' = r.rest /\ losts' \in Nat /\ lates' \in Nat
      /\ lates' = 0 => lates = 0 /\ lates + r.late = 0
      /\ losts' <= 1 => losts <= 1
      /\ losts' + lates' = 0 => losts + lates = 0 /\ s.lost = 0 /\ lates + r.late = 0 /\ lates' = 0
      /\ losts' = losts + s.lost /\ s.lost \in {0, 1} /\ (s.lost = 0 => s.arrived)
  BY <1>2, <1>3, Transferred, Sent
<1>5. a = <<>> \/ a = Ack("L1ACK1")
  BY DEF Answer
<1>6. a # <<>> <=> ic.mode = "on"
  BY DEF Answer, Ack
<1> HIDE DEF a
<1>7. lates' = 0 => /\ r.rest = <<>>
                    /\ r.got.rid = "L1ACK1" => ic.mode = "on" /\ s.arrived
                    /\ s.lost = 0 /\ ic.mode = "on" => r.got.rid = "L1ACK1"
  <2>1. lates' = 0 => line = <<>> /\ lates + r.late = 0
    BY <1>4 DEF Inv, InTimeInv, QuietInv
  <2> QED
    BY <1>3, <1>5, <1>6, <2>1, OneAck
<1>8. /\ ic' = [mode |-> ic'.mode, rsp |-> ic'.rsp, out |-> ic'.out, wr |-> ic'.wr] /\ IsCmd(ic'.wr)
      /\ ic'.mode \in {"off", "started", "welcomed", "on", "leaving"}
      /\ cmd.id # "disconn" => ic'.mode = ic.mode
      /\ UNCHANGED devvars \/ (cmd.id = "fputmore" /\ lates' # 0) \/ MakesStep
      /\ did' # NoWork => call.op \in Changes /\ (call.op \in Writers => cmd.last)
      /\ dev' # dev => call.op \in Changes
      /\ lates' = 0 => DevInv'
  <2>1. CASE s.arrived /\ ic.mode = "on"
    <3>1. Executed
      BY <1>2, <1>3, <2>1, ExecAll
    <3> QED
      BY <1>4, <2>1, <3>1 DEF Executed
  <2>2. CASE ~ (s.arrived /\ ic.mode = "on")
    <3>1. UNCHANGED <<ic, dev, info, did>>
      BY <1>2, <2>2 DEF devvars
    <3>2. lates' = 0 => DevInv'
      BY <1>4, <3>1 DEF Inv, InTimeInv, DevInv
    <3> QED
      BY <1>3, <3>1, <3>2 DEF Inv, Shape, devvars
  <2> QED
    BY <2>1, <2>2
<1>9. CASE r.got.rid = "L1ACK1" \/ (r.got.rid # "L1ACK1" /\ cmd.id \in {"fgetmore", "disconn"})
  <2>1. UNCHANGED <<call, cmd, loc, ret>> /\ pc' = "request"
    BY <1>2, <1>9 DEF Goto, SendFails
  <2>2. dev' = dev \/ call.op # "read_frec"
    BY <1>8, ChangesAre
  <2>3. Shape' /\ CmdInv' /\ DidInv'
    <3>1. Shape'
      <4>1. loc' = [step |-> loc'.step, tries |-> loc'.tries, ptr |-> loc'.ptr, rid |-> loc'.rid,
                    chg |-> loc'.chg, data |-> loc'.data]
        BY <2>1 DEF Inv, Shape
      <4> QED
        BY <1>4, <1>8, <4>1 DEF Shape
    <3>2. CmdInv'
      BY <1>3, <2>1, <2>2, NextPdu DEF Sending
    <3>3. DidInv'
      BY <1>8, <2>1 DEF DidInv
    <3> QED
      BY <3>1, <3>2, <3>3
  <2>4. ASSUME lates' = 0 PROVE DevInv' /\ QuietInv' /\ ModeInv' /\ RspInv' /\ WrInv' /\ ReadInv'
    <3>1. /\ lates = 0 /\ line' = <<>> /\ DevInv'
          /\ r.got.rid = "L1ACK1" => ic.mode = "on" /\ IcExecutes(cmd)
      BY <1>2, <1>4, <1>7, <1>8, <2>4
    <3>2. DevInv' /\ QuietInv'
      BY <2>1, <3>1 DEF QuietInv
    <3>3. ModeInv'
      BY <1>3, <1>8, <1>9, <2>1, <3>1, OpOf DEF Inv, InTimeInv, ModeInv, CmdInv, Sending, Readers
    <3>4. RspInv'
      <4>1. ASSUME cmd.id \notin {"fgetmore", "disconn"} PROVE RightRsp(ic.rsp)'
        <5>1. IcExecutes(cmd)
          BY <1>9, <3>1, <4>1
        <5> QED
          BY <1>3, <2>1, <3>1, <4>1, <5>1, CmdKind, ExecPlain, ExecFirst, ExecWrite, ExecOther
      <4> QED
        BY <2>1, <4>1 DEF RspInv
    <3>5. ASSUME call.op \in Writers PROVE WrInv'
      <4>1. cmd.id \notin {"fgetmore", "disconn"}
        BY <1>3, <3>5, OpOf DEF Readers, Writers
      <4>2. ~ cmd.last => ic'.wr = Partial(loc.ptr + Len(cmd.data))
        BY <1>3, <1>9, <2>1, <3>1, <3>5, <4>1, ExecWrite
      <4>3. ~ cmd'.last => ic'.wr = Partial(loc.ptr + Len(cmd.data))'
        BY <2>1, <4>2 DEF Partial
      <4> QED
        BY <2>1, <4>3 DEF WrInv
    <3>6. WrInv'
      BY <2>1, <3>5 DEF WrInv
    <3>7. ASSUME losts' <= 1, cmd.id = "fgetmore" PROVE ReadInv'
      <4>1. /\ losts <= 1 /\ loc.rid \in Ids /\ Wanted(loc.rid) /\ loc.chg = dev[loc.rid].chg
            /\ loc.data \in Seq(Bytes) /\ ic.out \in Seq(Bytes)
            /\ (ic.rsp = NoRsp \/ losts = 1) /\ ic.mode = "on"
        BY <1>3, <1>4, <3>1, <3>7, OpOf DEF Inv, InTimeInv, ReadInv, ModeInv, Readers
      <4>2. UNCHANGED dev /\ call.op \in Readers
        BY <1>3, <1>8, <3>7, OpOf, ChangesAre DEF Readers
      <4>3. Wanted(loc.rid)'
        BY <2>1, <4>1, <4>2 DEF Wanted, Contract!Exists, Contract!Changed
      <4>4. More(ic.rsp)' /\ ic'.out \in Seq(Bytes)
        <5>1. CASE s.arrived
          <6>1. IcExecutes(cmd)
            BY <1>2, <4>1, <5>1
          <6> QED
            BY <1>3, <2>1, <3>1, <3>7, <4>1, <6>1, ExecMore
        <5>2. CASE ~ s.arrived
          <6>1. UNCHANGED ic
            BY <1>2, <5>2
          <6>2. losts' = losts + 1
            BY <1>4, <5>2
          <6>3. ic.rsp = NoRsp
            BY <1>3, <3>7, <4>1, <6>2
          <6> QED
            BY <4>1, <6>1, <6>3 DEF More
        <5> QED
          BY <5>1, <5>2
      <4> QED
        BY <2>1, <4>1, <4>2, <4>3, <4>4 DEF ReadInv, Bytes, Ids, Contract!Ids
    <3>8. ReadInv'
      BY <2>1, <3>7 DEF ReadInv
    <3> QED
      BY <3>2, <3>3, <3>4, <3>6, <3>8
  <2>5. OffInv'
    <3>1. losts' + lates' = 0 => open /\ losts + lates = 0 /\ s.lost = 0 /\ lates' = 0
      BY <1>3, <1>4 DEF Inv, OffInv, Sending
    <3>2. ASSUME losts' + lates' = 0, cmd.id = "disconn" PROVE ic'.mode # "on"
      <4>1. CASE ic.mode = "on"
        <5>1. s.arrived /\ Executed
          BY <1>2, <1>3, <1>4, <3>1, <3>2, <4>1, ExecAll
        <5> QED
          BY <3>2, <5>1 DEF Executed
      <4>2. CASE ic.mode # "on"
        BY <1>2, <4>2
      <4> QED
        BY <4>1, <4>2
    <3> QED
      BY <1>3, <2>1, <3>1, <3>2 DEF OffInv
  <2>6. Promise
    BY <1>3, <1>8, <2>1, Promises
  <2> QED
    BY <2>3, <2>4, <2>5, <2>6 DEF Inv, InTimeInv
<1>10. CASE r.got.rid # "L1ACK1" /\ cmd.id \notin {"fgetmore", "disconn"}
  <2>1. Fails /\ call.op # "disconnect"
    BY <1>2, <1>3, <1>10, OpOf DEF SendFails
  <2>2. call.op = "connect" => did' = NoWork
    BY <1>8, ChangesAre
  <2>3. lates' = 0 => lates = 0 /\ DevInv' /\ line' = <<>> /\ ic'.mode = ic.mode
    BY <1>4, <1>7, <1>8, <1>10
  <2>4. Inv'
    BY <1>3, <1>4, <1>8, <2>1, <2>2, <2>3, FailsKeeps
  <2>5. Promise
    BY <1>3, <1>8, <2>1, FailsPromise
  <2> QED
    BY <2>4, <2>5
<1> QED
  BY <1>9, <1>10

-----------------------------------------------------------------------------
(* What a transaction does with the response.                              *)
LEMMA OpsOfCmds ==
  ASSUME Inv, pc \in Sending
  PROVE  /\ cmd.id \in Firsts \cup {"fgetmore"} <=> call.op \in Readers
         /\ cmd.id = "getdtime" => call.op \in {"connect", "ReadSysInfo"}
         /\ cmd.id = "fgetlen" <=> call.op = "get_flen"
         /\ cmd.id = "fgetmlen" <=> call.op = "get_mod_flen"
         /\ call.op = "ReadSysInfo" => cmd.id = "getdtime"
         /\ call.op = "connect" => cmd.id \notin Firsts \cup {"fgetmore", "fputrec", "fupdrec", "fputmore"}
<1>1. cmd.id \in CmdsOf(call.op) /\ call.op \in {"connect", "disconnect"} \cup Readers \cup Changes \cup Simples
  BY OpOf
<1>2. CASE call.op \in Simples
  <2>1. cmd.id = Single[call.op]
    BY <1>1, <1>2, CmdsAre
  <2>2. /\ Single["ReadSysInfo"] = "getdtime" /\ Single["category"] = "category"
        /\ Single["open_file"] = "fopen" /\ Single["close_file"] = "fclose"
        /\ Single["get_flen"] = "fgetlen" /\ Single["get_mod_flen"] = "fgetmlen"
    BY DEF Single
  <2> QED
    BY <1>2, <2>1, <2>2 DEF Simples, Firsts, Readers
<1>3. CASE call.op \in {"connect", "disconnect"} \cup Readers \cup Changes
  BY <1>1, <1>3, CmdsAre, ChangesAre DEF Firsts, Readers
<1> QED
  BY <1>1, <1>2, <1>3

LEMMA AnswerIs ==
  ASSUME Inv, pc = "exit", Answered
  PROVE  \/ cmd.id = "disconn" /\ Goto("com_exit")
         \/ cmd.id # "disconn" /\ Fails
         \/ rsp # NoRsp /\ call.op \in Readers /\ ReadBlock
         \/ rsp # NoRsp /\ call.op \in Writers /\ Wrote
         \/ rsp # NoRsp /\ call.op = "connect" /\ cmd.id # "disconn" /\ Connected
         \/ rsp # NoRsp /\ call.op = "ReadSysInfo" /\ Returns(OK(<<"info", Value("info")>>))
         \/ rsp # NoRsp /\ call.op \in {"get_flen", "get_mod_flen"} /\ Returns(OK(<<"len", Value("len")>>))
         \/ /\ rsp # NoRsp /\ Returns(OK(<<>>))
            /\ call.op \in {"category", "open_file", "close_file"} \cup (Changes \ Writers)
<1>0. pc \in Sending
  BY DEF Sending
<1> DEFINE Reads1 == cmd.id \in {"fgetirec", "fgetrec", "fgetmrec", "fgetmore"}
           Puts   == cmd.id \in {"fputrec", "fupdrec", "fputmore"}
<1>1. /\ Reads1 <=> call.op \in Readers
      /\ Puts <=> call.op \in Writers
      /\ call.op = "disconnect" => cmd.id = "disconn"
      /\ cmd.id = "disconn" => call.op \in {"connect", "disconnect"}
  BY <1>0, OpsOfCmds, CmdKind, OpOf DEF Firsts
<1>2. CASE cmd.id = "disconn"
  BY <1>2 DEF Answered
<1>3. CASE cmd.id # "disconn" /\ rsp = NoRsp
  BY <1>3 DEF Answered
<1>4. CASE cmd.id # "disconn" /\ rsp # NoRsp /\ call.op \in Readers
  <2>1. Reads1 /\ ~ Puts /\ call.op # "connect" /\ cmd.id \notin {"getdtime", "fgetlen", "fgetmlen"}
    BY <1>1, <1>4 DEF Readers
  <2> QED
    BY <1>4, <2>1 DEF Answered
<1>5. CASE cmd.id # "disconn" /\ rsp # NoRsp /\ call.op \in Writers
  <2>1. ~ Reads1 /\ Puts /\ call.op # "connect" /\ cmd.id \notin {"getdtime", "fgetlen", "fgetmlen"}
    BY <1>1, <1>5 DEF Writers
  <2> QED
    BY <1>5, <2>1 DEF Answered
<1>6. CASE cmd.id # "disconn" /\ rsp # NoRsp /\ call.op = "connect"
  <2>1. ~ Reads1 /\ ~ Puts /\ cmd.id \notin {"fgetlen", "fgetmlen"}
    BY <1>0, <1>1, <1>6, OpsOfCmds DEF Readers, Writers
  <2> QED
    BY <1>6, <2>1 DEF Answered
<1>7. CASE /\ cmd.id # "disconn" /\ rsp # NoRsp
           /\ call.op \notin Readers \cup Writers \cup {"connect"}
  <2>1. ~ Reads1 /\ ~ Puts /\ call.op \in Simples \cup (Changes \ Writers)
    BY <1>0, <1>1, <1>7, OpOf
  <2>2. CASE cmd.id = "getdtime"
    BY <1>0, <1>7, <2>1, <2>2, OpsOfCmds DEF Answered
  <2>3. CASE cmd.id \in {"fgetlen", "fgetmlen"}
    BY <1>0, <1>7, <2>1, <2>3, OpsOfCmds DEF Answered
  <2>4. CASE cmd.id \notin {"getdtime", "fgetlen", "fgetmlen"}
    <3>1. call.op \in {"category", "open_file", "close_file"} \cup (Changes \ Writers)
      BY <1>0, <2>1, <2>4, OpsOfCmds DEF Simples
    <3>2. Returns(OK(<<>>))
      BY <1>7, <2>1, <2>4 DEF Answered
    <3> QED
      BY <1>7, <3>1, <3>2
  <2> QED
    BY <2>2, <2>3, <2>4
<1> QED
  BY <1>2, <1>3, <1>4, <1>5, <1>6, <1>7

(* A block is read in time: what has been read so far, and what is left.   *)
LEMMA ReadSoFar ==
  ASSUME Inv, pc = "exit", lates = 0, call.op \in Readers, rsp # NoRsp,
         cmd.id = "fgetmore" => losts <= 1
  PROVE  \/ /\ Absent(rsp) /\ cmd.id # "fgetmore" /\ loc.data = <<>>
         \/ \E i \in Ids, d \in Seq(Bytes) :
              /\ Wanted(i) /\ Block = d /\ loc.data \in Seq(Bytes) /\ ic.out \in Seq(Bytes)
              /\ dev[i].data = (loc.data \o d) \o ic.out
              /\ Head1.rid = i /\ Head1.chg = dev[i].chg
              /\ Head1 = [step |-> Head1.step, tries |-> Head1.tries, ptr |-> Head1.ptr,
                          rid |-> Head1.rid, chg |-> Head1.chg, data |-> Head1.data]
              /\ rsp.last <=> ic.out = <<>>
<1>0. /\ pc \in Sending /\ did = NoWork /\ DevInv /\ ReadLen \in Nat
      /\ loc = [step |-> loc.step, tries |-> loc.tries, ptr |-> loc.ptr, rid |-> loc.rid,
                chg |-> loc.chg, data |-> loc.data]
  BY ChangesAre, TransAssumption DEF Sending, Inv, DidInv, InTimeInv, Done, Readers, Shape
<1>1. CASE cmd.id = "fgetmore"
  <2>1. /\ loc.rid \in Ids /\ Wanted(loc.rid) /\ loc.chg = dev[loc.rid].chg
        /\ loc.data \in Seq(Bytes) /\ ic.out \in Seq(Bytes) /\ More(rsp)
    BY <1>1 DEF Inv, InTimeInv, ReadInv
  <2>2. PICK d \in Seq(Bytes) : /\ rsp = Rsp("more", ic.out = <<>>, [data |-> d])
                                /\ dev[loc.rid].data = (loc.data \o d) \o ic.out
    BY <2>1 DEF More
  <2>3. rsp.kind = "more" /\ rsp.val.data = d
    BY <2>2 DEF Rsp
  <2>4. rsp.last = (ic.out = <<>>)
    BY <2>2 DEF Rsp
  <2>5. Block = d /\ Head1 = loc
    BY <1>1, <2>3 DEF Block, Head1
  <2> QED
    BY <1>0, <2>1, <2>2, <2>4, <2>5
<1>2. CASE cmd.id # "fgetmore"
  <2>1. cmd.id \in Firsts /\ loc.data = <<>> /\ RightRsp(rsp)
    BY <1>0, <1>2, OpsOfCmds DEF Inv, CmdInv, InTimeInv, RspInv, Firsts
  <2>2. CASE Absent(rsp)
    BY <1>2, <2>1, <2>2
  <2>3. ASSUME NEW i \in Ids, Wanted(i), rsp = FirstBlock(i), ic.out = Rest(dev[i].data, ReadLen)
        PROVE  \E d \in Seq(Bytes) :
              /\ Wanted(i) /\ Block = d /\ loc.data \in Seq(Bytes) /\ ic.out \in Seq(Bytes)
              /\ dev[i].data = (loc.data \o d) \o ic.out
              /\ Head1.rid = i /\ Head1.chg = dev[i].chg
              /\ Head1 = [step |-> Head1.step, tries |-> Head1.tries, ptr |-> Head1.ptr,
                          rid |-> Head1.rid, chg |-> Head1.chg, data |-> Head1.data]
              /\ rsp.last <=> ic.out = <<>>
    <3> DEFINE e == dev[i].data
               d == Cut(e, ReadLen)
               g == dev[i].chg
    <3>1. e \in Seq(Bytes)
      BY <1>0, StoredRec
    <3>2. rsp = [kind |-> "rec", last |-> Len(e) <= ReadLen, val |-> [rid |-> i, chg |-> g, data |-> d]]
      <4>1. [Contract!Found(i) EXCEPT !.data = Cut(@, ReadLen)] = [rid |-> i, chg |-> g, data |-> d]
        BY DEF Contract!Found
      <4> QED
        BY <2>3, <4>1 DEF FirstBlock, Rsp
    <3>3. ic.out = Rest(e, ReadLen)
      BY <2>3
    <3> HIDE DEF e
    <3>4. /\ d \in Seq(Bytes) /\ Rest(e, ReadLen) \in Seq(Bytes) /\ e = d \o Rest(e, ReadLen)
          /\ Len(e) <= ReadLen <=> Rest(e, ReadLen) = <<>>
      BY <1>0, <3>1, CutAndRest
    <3> HIDE DEF d, g
    <3>5. /\ rsp.kind = "rec" /\ rsp.val.rid = i /\ rsp.val.chg = g /\ rsp.val.data = d
      BY <3>2
    <3>6. rsp.last = (Len(e) <= ReadLen)
      BY <3>2
    <3>7. Block = d
      BY <1>2, <3>5 DEF Block
    <3>8. Head1 = [loc EXCEPT !.rid = i, !.chg = g]
      BY <1>2, <3>5 DEF Head1
    <3>9. Head1 = [step |-> loc.step, tries |-> loc.tries, ptr |-> loc.ptr, rid |-> i,
                   chg |-> g, data |-> loc.data]
      BY <1>0, <3>8
    <3>10. /\ Head1.rid = i /\ Head1.chg = g
           /\ Head1 = [step |-> Head1.step, tries |-> Head1.tries, ptr |-> Head1.ptr,
                       rid |-> Head1.rid, chg |-> Head1.chg, data |-> Head1.data]
      BY <3>9
    <3>11. <<>> \o d = d /\ <<>> \in Seq(Bytes)
      BY <3>4, ConcatEmptySeq, ContentSeq
    <3>12. e = (loc.data \o d) \o ic.out
      BY <2>1, <3>3, <3>4, <3>11
    <3> QED
      BY <2>1, <2>3, <3>3, <3>4, <3>6, <3>7, <3>10, <3>11, <3>12 DEF e, g
  <2> QED
    BY <2>1, <2>2, <2>3 DEF RightRsp
<1> QED
  BY <1>1, <1>2

(* The exchange is over: the IC35 keeps what it has, and drops the         *)
(* response, unless it does not hear of it.                                *)
Over ==
  /\ pc = "exit" /\ losts \in Nat /\ lates \in Nat /\ losts' \in Nat /\ lates' \in Nat
  /\ UNCHANGED <<dev, info, did, open>>
  /\ ic' = [mode |-> ic.mode, rsp |-> ic'.rsp, out |-> ic.out, wr |-> ic.wr]
  /\ lates' = 0 => lates = 0 /\ line' = <<>>
  /\ losts' <= 1 => losts <= 1 /\ (ic'.rsp = NoRsp \/ losts' = 1)
  /\ losts' + lates' = 0 => losts + lates = 0

LEMMA ExitIsOver == ASSUME Inv, SendExit PROVE Over /\ Answered
<1> DEFINE a == Answer({"on", "leaving"}, Ack("L1ACK1"))
<1>1. PICK s \in L1send(a) : \E r \in L1recv(s, Recv1(s.now), Recv1(<<>>)) :
        /\ Transfer(s, r)
        /\ ic' = IF s.arrived THEN [ic EXCEPT !.rsp = NoRsp] ELSE ic
  BY DEF SendExit
<1>2. PICK r \in L1recv(s, Recv1(s.now), Recv1(<<>>)) :
        /\ Transfer(s, r)
        /\ ic' = IF s.arrived THEN [ic EXCEPT !.rsp = NoRsp] ELSE ic
  BY <1>1
<1>3. /\ pc = "exit" /\ Answered /\ losts \in Nat /\ lates \in Nat
      /\ UNCHANGED <<dev, info, did, open>>
  BY DEF SendExit, devvars, Inv, Shape
<1>4. /\ line' = r.rest /\ losts' \in Nat /\ lates' \in Nat
      /\ lates' = 0 => lates = 0 /\ lates + r.late = 0
      /\ losts' <= 1 => losts <= 1
      /\ losts' + lates' = 0 => losts + lates = 0
      /\ losts' = losts + s.lost /\ s.lost \in {0, 1} /\ (s.lost = 0 => s.arrived)
  BY <1>2, <1>3, Transferred, Sent
<1>5. a = <<>> \/ a = Ack("L1ACK1")
  BY DEF Answer
<1> HIDE DEF a
<1>6. lates' = 0 => r.rest = <<>>
  <2>1. lates' = 0 => line = <<>> /\ lates + r.late = 0
    BY <1>4 DEF Inv, InTimeInv, QuietInv
  <2> QED
    BY <1>3, <1>5, <2>1, OneAck
<1>7. /\ ic' = [mode |-> ic.mode, rsp |-> ic'.rsp, out |-> ic.out, wr |-> ic.wr]
      /\ s.arrived => ic'.rsp = NoRsp
  <2>1. CASE s.arrived
    <3>1. ic' = [mode |-> ic.mode, rsp |-> NoRsp, out |-> ic.out, wr |-> ic.wr]
      BY <1>2, <2>1, IcShape DEF Inv
    <3> QED
      BY <3>1
  <2>2. CASE ~ s.arrived
    BY <1>2, <2>2 DEF Inv, Shape
  <2> QED
    BY <2>1, <2>2
<1>8. losts' <= 1 => ic'.rsp = NoRsp \/ losts' = 1
  BY <1>3, <1>4, <1>7
<1> QED
  BY <1>3, <1>4, <1>6, <1>7, <1>8 DEF Over

(* A step that only goes on with the same transaction.                     *)
LEMMA GoesOn ==
  ASSUME Inv, Over, pc' = "init", UNCHANGED <<call, ret>>, CmdInv', DidInv',
         loc' = [step |-> loc'.step, tries |-> loc'.tries, ptr |-> loc'.ptr, rid |-> loc'.rid,
                 chg |-> loc'.chg, data |-> loc'.data],
         lates' = 0 => WrInv' /\ ReadInv'
  PROVE  Inv' /\ Promise
<1>1. Shape'
  BY DEF Inv, Shape, Over
<1>2. OffInv'
  BY DEF Inv, OffInv, Over, Done
<1>3. ASSUME lates' = 0 PROVE InTimeInv'
  <2>1. lates = 0 /\ line' = <<>> /\ ic'.mode = ic.mode
    BY <1>3 DEF Over
  <2>2. DevInv' /\ QuietInv' /\ ModeInv'
    BY <2>1 DEF Inv, InTimeInv, DevInv, QuietInv, ModeInv, Over, Done
  <2>3. RspInv'
    BY DEF RspInv
  <2> QED
    BY <1>3, <2>2, <2>3 DEF InTimeInv
<1>4. UNCHANGED cvars
  BY DEF cvars, Over
<1> QED
  BY <1>1, <1>2, <1>3, <1>4, StillCalled DEF Inv, InTimeInv

(* A transaction returns a result that is its own.                         *)
LEMMA ReturnsRight ==
  ASSUME Inv, Over, cmd.id # "disconn", NEW v, Returns(OK(v)),
         lates = 0 /\ (cmd.id = "fgetmore" => losts <= 1) =>
           /\ call.op \in Changes => did.done
           /\ v \in Contract!Right
  PROVE  Inv' /\ Promise
<1>1. /\ pc = "exit" /\ pc' = "idle" /\ call' = NoCall /\ cmd' = NoCmd /\ loc' = NoLoc
      /\ ret' = [ok |-> TRUE, val |-> v] /\ call.op # "none"
  BY DEF Returns, OK, Over, Inv, CmdInv, Sending
<1>2. CmdInv' /\ DidInv' /\ RspInv' /\ WrInv' /\ ReadInv'
  BY <1>1, AtIdle
<1>3. Shape'
  BY <1>1 DEF Inv, Shape, Over, NoLoc
<1>4. OffInv'
  <2>1. losts' + lates' = 0 => open
    BY <1>1 DEF Inv, OffInv, Over
  <2> QED
    BY <1>1, <2>1 DEF OffInv, Over, Done
<1>5. ASSUME lates' = 0 PROVE DevInv' /\ QuietInv' /\ ModeInv'
  <2>1. lates = 0 /\ line' = <<>> /\ ic'.mode = ic.mode /\ UNCHANGED <<dev, open>>
    BY <1>5 DEF Over
  <2>2. ic.mode = "on"
    <3>1. call.op \in {"connect", "disconnect"} => call.op = "connect"
      BY <1>1, OpOf DEF Sending
    <3> QED
      BY <1>1, <2>1, <3>1 DEF Inv, InTimeInv, ModeInv, Done
  <2> QED
    BY <1>1, <2>1, <2>2 DEF Inv, InTimeInv, DevInv, QuietInv, ModeInv, NoCall, Contract!NoCall
<1>6. UNCHANGED <<dev, info, did>> /\ call'.op = "none"
  BY <1>1 DEF Over, NoCall, Contract!NoCall
<1>7. InTime => Contract!Return
  <2> SUFFICES ASSUME InTime PROVE Contract!Return
    OBVIOUS
  <2>1. lates = 0 /\ (cmd.id = "fgetmore" => losts <= 1)
    BY DEF InTime, Over
  <2> QED
    BY <1>1, <1>6, <2>1 DEF Contract!Return, Changes
<1> QED
  BY <1>1, <1>2, <1>3, <1>4, <1>5, <1>6, <1>7
  DEF Inv, InTimeInv, Promise, Ends, Contract!Next

LEMMA ExitFails == ASSUME Inv, Over, cmd.id # "disconn", Fails PROVE Inv' /\ Promise
<1>1. pc \in Sending /\ call.op # "disconnect"
  BY OpOf DEF Over, Sending
<1>2. lates' = 0 => lates = 0 /\ DevInv' /\ line' = <<>> /\ ic'.mode = ic.mode
  BY DEF Over, Inv, InTimeInv, DevInv
<1>3. call.op = "connect" => did' = NoWork
  BY ChangesAre DEF Over, Inv, DidInv, Done
<1>4. /\ ic' = [mode |-> ic'.mode, rsp |-> ic'.rsp, out |-> ic'.out, wr |-> ic'.wr] /\ IsCmd(ic'.wr)
      /\ ic'.mode \in {"off", "started", "welcomed", "on", "leaving"} /\ UNCHANGED open
      /\ losts' \in Nat /\ lates' \in Nat /\ (losts' + lates' = 0 => losts + lates = 0)
  BY DEF Over, Inv, Shape
<1>5. Inv'
  BY <1>1, <1>2, <1>3, <1>4, FailsKeeps
<1>6. Promise
  BY <1>1, FailsPromise DEF Over, devvars
<1> QED
  BY <1>5, <1>6

LEMMA ExitDisconn ==
  ASSUME Inv, Over, cmd.id = "disconn", Goto("com_exit") PROVE Inv' /\ Promise
<1>1. /\ pc' = "com_exit" /\ UNCHANGED <<call, cmd, loc, ret>> /\ call.op \in {"connect", "disconnect"}
      /\ UNCHANGED <<dev, info, did, open>> /\ pc = "exit"
  BY OpOf DEF Goto, Over, Sending
<1>2. did = NoWork
  BY <1>1, ChangesAre DEF Inv, DidInv, Done
<1>3. Shape'
  BY <1>1 DEF Inv, Shape, Over
<1>4. CmdInv' /\ DidInv'
  BY <1>1, <1>2 DEF CmdInv, DidInv, Sending, Done
<1>5. ASSUME lates' = 0 PROVE InTimeInv'
  <2>1. lates = 0 /\ line' = <<>>
    BY <1>5 DEF Over
  <2>2. DevInv' /\ QuietInv' /\ ModeInv'
    BY <1>1, <2>1 DEF Inv, InTimeInv, DevInv, QuietInv, ModeInv, Done
  <2>3. RspInv' /\ WrInv' /\ ReadInv'
    BY <1>1 DEF RspInv, WrInv, ReadInv, Writers
  <2> QED
    BY <2>2, <2>3 DEF InTimeInv
<1>6. OffInv'
  BY <1>1 DEF Inv, OffInv, Over, Done
<1>7. UNCHANGED cvars
  BY <1>1 DEF cvars
<1> QED
  BY <1>3, <1>4, <1>5, <1>6, <1>7, StillCalled DEF Inv, InTimeInv

LEMMA ExitConnect ==
  ASSUME Inv, Over, call.op = "connect", cmd.id # "disconn", rsp # NoRsp, Connected
  PROVE  Inv' /\ Promise
<1>1. /\ pc = "exit" /\ pc \in Sending /\ loc.step \in 1 .. 4 /\ cmd.id = Steps[loc.step]
      /\ UNCHANGED <<dev, info, did>> /\ did = NoWork
  BY ChangesAre DEF Over, Inv, CmdInv, DidInv, Sending, Done
<1>2. CASE loc.step = 4
  <2>1. Returns(OK(<<"info", Value("info")>>))
    BY <1>2 DEF Connected
  <2>2. cmd.id = "getdtime"
    BY <1>1, <1>2 DEF Steps
  <2>3. lates = 0 => <<"info", Value("info")>> \in Contract!Right /\ call.op \notin Changes
    <3> SUFFICES ASSUME lates = 0
                 PROVE  <<"info", Value("info")>> \in Contract!Right /\ call.op \notin Changes
      OBVIOUS
    <3>1. rsp = Rsp("info", TRUE, info)
      BY <1>1, <2>2 DEF Inv, InTimeInv, RspInv, RightRsp
    <3>2. Value("info") = info
      BY <3>1 DEF Value, Rsp
    <3>3. Contract!Right = {<<"info", info>>}
      BY DEF Contract!Right
    <3> QED
      BY <3>2, <3>3, ChangesAre
  <2> QED
    BY <2>1, <2>3, ReturnsRight
<1>3. CASE loc.step # 4 /\ ~ Fails
  <2>1. /\ loc' = [loc EXCEPT !.step = loc.step + 1] /\ UNCHANGED <<call, ret>>
        /\ Sends(Command(Steps[loc.step + 1], 0, call.data))
    BY <1>3 DEF Connected
  <2>2. /\ loc.step \in 1 .. 3 /\ Steps[loc.step + 1] \in {"getpower", "password", "getdtime"}
    <3>1. Steps[2] = "getpower" /\ Steps[3] = "password" /\ Steps[4] = "getdtime"
      BY DEF Steps
    <3>2. loc.step \in 1 .. 3
      BY <1>1, <1>3
    <3>3. loc.step + 1 \in {2, 3, 4}
      BY <3>2
    <3> QED
      BY <3>1, <3>2, <3>3
  <2>3. pc' = "init" /\ cmd'.id = Steps[loc.step + 1]
    BY <2>1 DEF Sends, Command
  <2> DEFINE n == loc.step + 1
  <2>4. loc' = [step |-> n, tries |-> loc.tries, ptr |-> loc.ptr, rid |-> loc.rid,
                chg |-> loc.chg, data |-> loc.data]
    <3>1. loc' = [loc EXCEPT !.step = n]
      BY <2>1
    <3> HIDE DEF n
    <3> QED
      BY <3>1 DEF Inv, Shape
  <2>5. n \in 1 .. 4 /\ cmd'.id = Steps[n]
    BY <2>2, <2>3
  <2> HIDE DEF n
  <2>6. loc'.step \in 1 .. 4 /\ cmd'.id = Steps[loc'.step]
    BY <2>4, <2>5
  <2>7. CmdInv' /\ DidInv'
    <3>1. cmd'.id \in CmdsOf("connect")
      BY <2>2, <2>3, CmdsAre
    <3> QED
      BY <1>1, <2>1, <2>3, <2>6, <3>1 DEF CmdInv, DidInv, Sending, Done, Readers, Writers
  <2>8. WrInv' /\ ReadInv'
    BY <2>1, <2>2, <2>3 DEF WrInv, ReadInv, Writers
  <2>9. loc' = [step |-> loc'.step, tries |-> loc'.tries, ptr |-> loc'.ptr, rid |-> loc'.rid,
                chg |-> loc'.chg, data |-> loc'.data]
    BY <2>4
  <2> QED
    BY <2>1, <2>3, <2>7, <2>8, <2>9, GoesOn
<1>4. CASE Fails
  BY <1>4, ExitFails
<1> QED
  BY <1>2, <1>3, <1>4

(* The next block of a record is written, or the record-ID returned.       *)
LEMMA ExitWrote ==
  ASSUME Inv, Over, rsp # NoRsp, call.op \in Writers, Wrote PROVE Inv' /\ Promise
<1>1. /\ pc = "exit" /\ pc \in Sending /\ UNCHANGED <<dev, info, did>> /\ call.data \in Records
      /\ call.op = "update_frec" => call.id \in Ids
  BY DEF Over, Sending, Inv, CmdInv
<1>2. cmd.id # "disconn" /\ cmd.id \in {"fputrec", "fupdrec", "fputmore"}
  BY <1>1, CmdKind
<1> DEFINE n == loc.ptr + Len(cmd.data)
           i == IF rsp.last THEN Value("id") ELSE loc.rid
<1>3. /\ loc.ptr \in Nat /\ Len(cmd.data) \in Nat /\ n \in 0 .. Len(call.data)
      /\ cmd.last <=> n >= Len(call.data)
      /\ Len(call.data) \in Nat
  BY <1>1, BlockIs, ContentSeq
<1>4. CASE n < Len(call.data)
  <2>1. /\ Sends(WriteCmd(call, n)) /\ loc' = [loc EXCEPT !.ptr = n, !.rid = i]
        /\ UNCHANGED <<call, ret>>
    BY <1>4 DEF Wrote
  <2>2. ~ cmd.last
    BY <1>3, <1>4
  <2>3. did = NoWork
    BY <1>1, <2>2 DEF Inv, DidInv, Done
  <2>4. lates = 0 => ic.wr = Partial(n)
    BY <1>1, <2>2 DEF Inv, InTimeInv, WrInv, Done
  <2>5. n \in 0 .. Len(call.data) - 1
    BY <1>3, <1>4
  <2> HIDE DEF n, i
  <2>6. loc' = [step |-> loc.step, tries |-> loc.tries, ptr |-> n, rid |-> i,
                chg |-> loc.chg, data |-> loc.data]
    BY <2>1 DEF Inv, Shape
  <2>7. loc'.ptr = n
    BY <2>6
  <2>8. pc' = "init" /\ cmd' = WriteCmd(call', n)
    <3>1. pc' = "init" /\ cmd' = [id |-> WriteCmd(call, n).id, rid |-> WriteCmd(call, n).rid,
                  data |-> WriteCmd(call, n).data, last |-> WriteCmd(call, n).last]
      BY <2>1 DEF Sends
    <3>2. cmd' = WriteCmd(call, n)
      BY <3>1 DEF WriteCmd
    <3> QED
      BY <2>1, <3>1, <3>2
  <2>9. cmd'.id \in CmdsOf(call.op) /\ cmd'.id # "fgetmore"
    <3>1. cmd'.id = WriteId(call, n)
      BY <2>1, <2>8 DEF WriteCmd
    <3> QED
      BY <3>1, CmdsAre DEF WriteId, Writers
  <2>10. CmdInv'
    BY <1>1, <2>1, <2>5, <2>7, <2>8, <2>9 DEF CmdInv, Sending, Readers, Writers
  <2>11. DidInv'
    BY <1>1, <2>3, <2>8 DEF DidInv, Done
  <2>12. lates' = 0 => WrInv' /\ ReadInv'
    <3>1. lates' = 0 => ic'.wr = Partial(n) /\ lates = 0
      BY <2>4 DEF Over
    <3>2. lates' = 0 => WrInv'
      BY <2>1, <2>7, <2>8, <3>1 DEF WrInv, Partial, Done
    <3> QED
      BY <2>9, <3>2 DEF ReadInv
  <2>13. loc' = [step |-> loc'.step, tries |-> loc'.tries, ptr |-> loc'.ptr, rid |-> loc'.rid,
                 chg |-> loc'.chg, data |-> loc'.data]
    BY <2>6
  <2> QED
    BY <2>1, <2>8, <2>10, <2>11, <2>12, <2>13, GoesOn
<1>5. CASE ~ (n < Len(call.data))
  <2>1. Returns(OK(<<"id", i>>))
    BY <1>5 DEF Wrote
  <2>2. cmd.last
    BY <1>3, <1>5
  <2>3. ASSUME lates = 0 PROVE did.done /\ <<"id", i>> \in Contract!Right
    <3>1. did.done /\ rsp = Rsp("id", TRUE, did.rid)
      BY <1>1, <1>2, <2>2, <2>3 DEF Inv, InTimeInv, RspInv, RightRsp
    <3>2. rsp.last = TRUE /\ rsp.kind = "id" /\ rsp.val = did.rid
      BY <3>1 DEF Rsp
    <3>3. i = did.rid
      BY <3>2 DEF Value
    <3>4. Contract!Right = {<<"id", did.rid>>}
      BY DEF Contract!Right, Writers
    <3> QED
      BY <3>1, <3>3, <3>4
  <2> QED
    BY <1>2, <2>1, <2>3, ReturnsRight
<1> QED
  BY <1>4, <1>5

(* The buffer of _read_frec after a block.                                 *)
Buff == IF Len(loc.data \o Block) <= MaxRLen THEN loc.data \o Block ELSE loc.data

LEMMA ItFits ==
  ASSUME DevInv, NEW i \in Ids, NEW l \in Seq(Bytes), NEW d \in Seq(Bytes), NEW o \in Seq(Bytes),
         dev[i].data = (l \o d) \o o
  PROVE  /\ Len(l \o d) <= MaxRLen /\ l \o d \in Seq(Bytes)
         /\ o = <<>> => dev[i].data = l \o d
<1>1. Len(dev[i].data) \in 0 .. MaxRLen /\ MaxRLen \in Nat
  BY StoredRec, ContentSeq
<1>2. l \o d \in Seq(Bytes)
  BY ConcatProperties
<1> DEFINE e == l \o d
<1> HIDE DEF e
<1>3. e \in Seq(Bytes) /\ dev[i].data = e \o o
  BY <1>2 DEF e
<1>4. Len(e \o o) = Len(e) + Len(o) /\ Len(e) \in Nat /\ Len(o) \in Nat
  BY <1>3, ConcatProperties, LenProperties
<1>5. Len(e) <= MaxRLen
  BY <1>1, <1>3, <1>4
<1>6. o = <<>> => dev[i].data = e
  BY <1>3, ConcatEmptySeq
<1> QED
  BY <1>3, <1>5, <1>6 DEF e

LEMMA RecRead ==
  ASSUME Inv, pc = "exit", lates = 0, call.op \in Readers, rsp # NoRsp,
         cmd.id = "fgetmore" => losts <= 1
  PROVE  \/ /\ Absent(rsp) /\ rsp.last /\ Head1.rid = 0 /\ Head1.chg = "none" /\ Buff = <<>>
         \/ \E i \in Ids :
              /\ Wanted(i) /\ Head1.rid = i /\ Head1.chg = dev[i].chg
              /\ Buff \in Seq(Bytes) /\ ic.out \in Seq(Bytes)
              /\ dev[i].data = Buff \o ic.out
              /\ rsp.last => dev[i].data = Buff
<1>0. DevInv
  BY DEF Inv, InTimeInv
<1>1. CASE Absent(rsp) /\ cmd.id # "fgetmore" /\ loc.data = <<>>
  <2>1. rsp = Rsp("rec", TRUE, Contract!NonExist)
    BY <1>1 DEF Absent
  <2>2. /\ rsp.kind = "rec" /\ rsp.last = TRUE
        /\ rsp.val.rid = 0 /\ rsp.val.chg = "none" /\ rsp.val.data = <<>>
    BY <2>1 DEF Rsp, Contract!NonExist
  <2>3. Block = <<>>
    BY <1>1, <2>2 DEF Block
  <2>4. Head1 = [loc EXCEPT !.rid = 0, !.chg = "none"]
    BY <1>1, <2>2 DEF Head1
  <2>5. Head1.rid = 0 /\ Head1.chg = "none"
    BY <2>4 DEF Inv, Shape
  <2>6. <<>> \o <<>> = <<>> /\ Len(<<>>) = 0
    OBVIOUS
  <2>7. Buff = <<>>
    BY <1>1, <2>3, <2>6, ContentSeq DEF Buff
  <2> QED
    BY <1>1, <2>2, <2>5, <2>7
<1>2. ASSUME NEW i \in Ids, NEW d \in Seq(Bytes),
             Wanted(i), Block = d, loc.data \in Seq(Bytes), ic.out \in Seq(Bytes),
             dev[i].data = (loc.data \o d) \o ic.out,
             Head1.rid = i, Head1.chg = dev[i].chg, rsp.last <=> ic.out = <<>>
      PROVE  /\ Wanted(i) /\ Head1.rid = i /\ Head1.chg = dev[i].chg
             /\ Buff \in Seq(Bytes) /\ ic.out \in Seq(Bytes)
             /\ dev[i].data = Buff \o ic.out
             /\ rsp.last => dev[i].data = Buff
  <2>1. /\ Len(loc.data \o d) <= MaxRLen /\ loc.data \o d \in Seq(Bytes)
        /\ ic.out = <<>> => dev[i].data = loc.data \o d
    BY <1>0, <1>2, ItFits
  <2>2. Buff = loc.data \o d
    BY <1>2, <2>1 DEF Buff
  <2> QED
    BY <1>2, <2>1, <2>2
<1> QED
  BY <1>1, <1>2, ReadSoFar

LEMMA ExitRead ==
  ASSUME Inv, Over, rsp # NoRsp, call.op \in Readers, ReadBlock PROVE Inv' /\ Promise
<1>1. /\ pc = "exit" /\ pc \in Sending /\ UNCHANGED <<dev, info, did>> /\ did = NoWork
      /\ call.op = "read_frec" => call.id \in 0 .. Cardinality(Contract!Exists(dev)) - 1
      /\ call.op \notin Changes \cup Writers
  BY ChangesAre DEF Over, Sending, Inv, CmdInv, DidInv, Readers, Writers, Done
<1>2. cmd.id # "disconn"
  BY <1>1, OpOf DEF Readers
<1> DEFINE rec == [rid |-> Head1.rid, chg |-> Head1.chg, data |-> Buff]
           res == IF call.op = "read_id_frec" /\ rec.rid # call.id THEN Contract!NonExist ELSE rec
<1>3. CASE ~ rsp.last
  <2>1. /\ Sends(Command("fgetmore", 0, <<>>)) /\ loc' = [Head1 EXCEPT !.data = Buff]
        /\ UNCHANGED <<call, ret>>
    BY <1>3 DEF ReadBlock, Buff
  <2>2. pc' = "init" /\ cmd'.id = "fgetmore"
    BY <2>1 DEF Sends, Command
  <2>3. Head1 = [step |-> Head1.step, tries |-> Head1.tries, ptr |-> Head1.ptr,
                 rid |-> Head1.rid, chg |-> Head1.chg, data |-> Head1.data]
    <3>1. loc = [step |-> loc.step, tries |-> loc.tries, ptr |-> loc.ptr, rid |-> loc.rid,
                 chg |-> loc.chg, data |-> loc.data]
      BY DEF Inv, Shape
    <3>2. CASE Head1 = loc
      BY <3>1, <3>2
    <3>3. ASSUME NEW x, NEW y, Head1 = [loc EXCEPT !.rid = x, !.chg = y]
          PROVE  Head1 = [step |-> Head1.step, tries |-> Head1.tries, ptr |-> Head1.ptr,
                     rid |-> Head1.rid, chg |-> Head1.chg, data |-> Head1.data]
      <4>1. Head1 = [step |-> loc.step, tries |-> loc.tries, ptr |-> loc.ptr, rid |-> x,
                     chg |-> y, data |-> loc.data]
        BY <3>1, <3>3
      <4> QED
        BY <4>1
    <3>4. ASSUME NEW x, Head1 = [loc EXCEPT !.rid = x]
          PROVE  Head1 = [step |-> Head1.step, tries |-> Head1.tries, ptr |-> Head1.ptr,
                     rid |-> Head1.rid, chg |-> Head1.chg, data |-> Head1.data]
      <4>1. Head1 = [step |-> loc.step, tries |-> loc.tries, ptr |-> loc.ptr, rid |-> x,
                     chg |-> loc.chg, data |-> loc.data]
        BY <3>1, <3>4
      <4> QED
        BY <4>1
    <3>5. \/ Head1 = loc \/ Head1 = [loc EXCEPT !.rid = rsp.val.rid, !.chg = rsp.val.chg]
          \/ Head1 = [loc EXCEPT !.rid = Junk]
      BY DEF Head1
    <3> QED
      BY <3>2, <3>3, <3>4, <3>5
  <2>4. loc' = [step |-> Head1.step, tries |-> Head1.tries, ptr |-> Head1.ptr,
                rid |-> Head1.rid, chg |-> Head1.chg, data |-> Buff]
    BY <2>1, <2>3
  <2>5. loc' = [step |-> loc'.step, tries |-> loc'.tries, ptr |-> loc'.ptr, rid |-> loc'.rid,
                chg |-> loc'.chg, data |-> loc'.data]
    BY <2>4
  <2>6. loc'.rid = Head1.rid /\ loc'.chg = Head1.chg /\ loc'.data = Buff
    BY <2>4
  <2>7. cmd'.id \in CmdsOf(call.op)
    BY <2>2, CmdsAre DEF Readers
  <2>8. CmdInv'
    BY <1>1, <2>1, <2>2, <2>7 DEF CmdInv, Sending, Readers, Writers, Contract!Exists
  <2>9. DidInv'
    BY <1>1, <2>2 DEF DidInv, Done
  <2>10. lates' = 0 => WrInv' /\ ReadInv'
    <3>1. WrInv'
      BY <1>1, <2>1 DEF WrInv
    <3>2. ASSUME lates' = 0, losts' <= 1 PROVE ReadInv'
      <4>1. /\ lates = 0 /\ losts <= 1 /\ (ic'.rsp = NoRsp \/ losts' = 1) /\ ic'.out = ic.out
        BY <3>2 DEF Over
      <4>2. ~ (Absent(rsp) /\ rsp.last)
        BY <1>3
      <4>3. PICK i \in Ids :
              /\ Wanted(i) /\ Head1.rid = i /\ Head1.chg = dev[i].chg
              /\ Buff \in Seq(Bytes) /\ ic.out \in Seq(Bytes)
              /\ dev[i].data = Buff \o ic.out
        BY <1>1, <4>1, <4>2, RecRead
      <4>4. Wanted(i)' = Wanted(i)
        BY <1>1, <2>1 DEF Wanted, Contract!Exists, Contract!Changed
      <4>5. /\ loc'.rid \in Ids /\ loc'.chg = dev'[loc'.rid].chg
            /\ loc'.data \in Seq(Bytes) /\ ic'.out \in Seq(Bytes)
            /\ dev'[loc'.rid].data = loc'.data \o ic'.out
        BY <1>1, <2>6, <4>1, <4>3
      <4>6. Wanted(loc.rid)'
        <5>1. loc'.rid = i
          BY <2>6, <4>3
        <5> QED
          BY <1>1, <2>1, <4>3, <5>1 DEF Wanted, Contract!Exists, Contract!Changed
      <4> QED
        BY <2>2, <4>1, <4>5, <4>6 DEF ReadInv
    <3> QED
      BY <3>1, <3>2 DEF ReadInv
  <2> QED
    BY <2>1, <2>2, <2>5, <2>8, <2>9, <2>10, GoesOn
<1>4. CASE rsp.last
  <2>1. Returns(OK(<<"rec", res>>))
    BY <1>4 DEF ReadBlock, Buff
  <2>2. ASSUME lates = 0, cmd.id = "fgetmore" => losts <= 1
        PROVE  <<"rec", res>> \in Contract!Right
    <3>1. CASE Absent(rsp) /\ Head1.rid = 0 /\ Head1.chg = "none" /\ Buff = <<>>
      <4>1. rec = Contract!NonExist
        BY <3>1 DEF Contract!NonExist
      <4>2. call.op = "read_id_frec" /\ call.id \notin Contract!Exists(dev)
        BY <3>1 DEF Absent
      <4>3. Contract!Right = {<<"rec", Contract!NonExist>>}
        BY <4>2 DEF Contract!Right
      <4> QED
        BY <4>1, <4>3
    <3>2. ASSUME NEW i \in Ids, Wanted(i), Head1.rid = i, Head1.chg = dev[i].chg,
                 dev[i].data = Buff
          PROVE  <<"rec", res>> \in Contract!Right
      <4>1. rec = Contract!Found(i) /\ rec.rid = i
        BY <3>2 DEF Contract!Found
      <4>2. CASE call.op = "read_id_frec"
        <5>1. i = call.id /\ i \in Contract!Exists(dev)
          BY <3>2, <4>2 DEF Wanted
        <5>2. Contract!Right = {<<"rec", Contract!Found(i)>>}
          BY <4>2, <5>1 DEF Contract!Right
        <5> QED
          BY <4>1, <5>1, <5>2
      <4>3. CASE call.op = "read_frec"
        <5>1. i = Contract!Nth(Contract!Exists(dev), call.id)
          BY <3>2, <4>3 DEF Wanted
        <5>2. Contract!Right = {<<"rec", Contract!Found(i)>>}
          BY <4>3, <5>1 DEF Contract!Right
        <5> QED
          BY <4>1, <4>3, <5>2
      <4>4. CASE call.op = "read_mod_frec"
        <5>1. i \in Contract!Changed(dev)
          BY <3>2, <4>4 DEF Wanted
        <5>2. Contract!Right = {<<"rec", Contract!Found(j)>> : j \in Contract!Changed(dev)}
          BY <4>4 DEF Contract!Right
        <5> QED
          BY <4>1, <4>4, <5>1, <5>2
      <4> QED
        BY <4>2, <4>3, <4>4 DEF Readers
    <3> QED
      BY <1>1, <1>4, <2>2, <3>1, <3>2, RecRead
  <2> QED
    BY <1>1, <1>2, <2>1, <2>2, ReturnsRight
<1> QED
  BY <1>3, <1>4

LEMMA ExitSingle ==
  ASSUME Inv, Over, rsp # NoRsp, NEW v, Returns(OK(v)),
         \/ call.op = "ReadSysInfo" /\ v = <<"info", Value("info")>>
         \/ call.op \in {"get_flen", "get_mod_flen"} /\ v = <<"len", Value("len")>>
         \/ call.op \in {"category", "open_file", "close_file"} \cup (Changes \ Writers) /\ v = <<>>
  PROVE  Inv' /\ Promise
<1>1. pc = "exit" /\ pc \in Sending
  BY DEF Over, Sending
<1>2. call.op \notin {"connect", "disconnect"} \cup Readers \cup Writers
  BY ChangesAre DEF Readers, Writers
<1>3. cmd.id \notin {"disconn", "fgetmore"}
  BY <1>1, <1>2, OpOf
<1>4. ASSUME lates = 0 PROVE v \in Contract!Right /\ (call.op \in Changes => did.done)
  <2>0. RightRsp(rsp)
    BY <1>1, <1>3, <1>4 DEF Inv, InTimeInv, RspInv
  <2>1. CASE call.op = "ReadSysInfo" /\ v = <<"info", Value("info")>>
    <3>1. rsp = Rsp("info", TRUE, info)
      BY <1>1, <2>0, <2>1, OpsOfCmds DEF RightRsp
    <3>2. Value("info") = info
      BY <3>1 DEF Value, Rsp
    <3>3. Contract!Right = {<<"info", info>>}
      BY <2>1 DEF Contract!Right
    <3> QED
      BY <2>1, <3>2, <3>3, ChangesAre
  <2>2. CASE call.op = "get_flen" /\ v = <<"len", Value("len")>>
    <3>1. rsp = Rsp("len", TRUE, Cardinality(Contract!Exists(dev)))
      BY <1>1, <2>0, <2>2, OpsOfCmds DEF RightRsp
    <3>2. Value("len") = Cardinality(Contract!Exists(dev))
      BY <3>1 DEF Value, Rsp
    <3>3. Contract!Right = {<<"len", Contract!Cardinality(Contract!Exists(dev))>>}
      BY <2>2 DEF Contract!Right
    <3> QED
      BY <2>2, <3>2, <3>3, ChangesAre, SameSize
  <2>3. CASE call.op = "get_mod_flen" /\ v = <<"len", Value("len")>>
    <3>1. rsp = Rsp("len", TRUE, Cardinality(Contract!Changed(dev)))
      BY <1>1, <2>0, <2>3, OpsOfCmds DEF RightRsp
    <3>2. Value("len") = Cardinality(Contract!Changed(dev))
      BY <3>1 DEF Value, Rsp
    <3>3. Contract!Right = {<<"len", Contract!Cardinality(Contract!Changed(dev))>>}
      BY <2>3 DEF Contract!Right
    <3> QED
      BY <2>3, <3>2, <3>3, ChangesAre, SameSize
  <2>4. CASE call.op \in {"category", "open_file", "close_file"} /\ v = <<>>
    <3>1. Contract!Right = {<<>>}
      BY <2>4 DEF Contract!Right
    <3> QED
      BY <2>4, <3>1, ChangesAre
  <2>5. CASE call.op \in Changes \ Writers /\ v = <<>>
    <3>1. Contract!Right = {<<>>}
      BY <2>5, ChangesAre DEF Contract!Right, Writers
    <3> QED
      BY <2>0, <2>5, <3>1 DEF RightRsp
  <2> QED
    BY <2>1, <2>2, <2>3, <2>4, <2>5
<1> QED
  BY <1>3, <1>4, ReturnsRight

LEMMA ExitPduStep == ASSUME Inv, SendExit PROVE Inv' /\ Promise
<1>1. Over /\ Answered /\ pc = "exit"
  BY ExitIsOver DEF Over
<1>2. CASE cmd.id = "disconn" /\ Goto("com_exit")
  BY <1>1, <1>2, ExitDisconn
<1>3. CASE cmd.id # "disconn" /\ Fails
  BY <1>1, <1>3, ExitFails
<1>4. CASE rsp # NoRsp /\ call.op \in Readers /\ ReadBlock
  BY <1>1, <1>4, ExitRead
<1>5. CASE rsp # NoRsp /\ call.op \in Writers /\ Wrote
  BY <1>1, <1>5, ExitWrote
<1>6. CASE rsp # NoRsp /\ call.op = "connect" /\ cmd.id # "disconn" /\ Connected
  BY <1>1, <1>6, ExitConnect
<1>7. CASE rsp # NoRsp /\ call.op = "ReadSysInfo" /\ Returns(OK(<<"info", Value("info")>>))
  BY <1>1, <1>7, ExitSingle
<1>8. CASE rsp # NoRsp /\ call.op \in {"get_flen", "get_mod_flen"} /\ Returns(OK(<<"len", Value("len")>>))
  BY <1>1, <1>8, ExitSingle
<1>9. CASE /\ rsp # NoRsp /\ Returns(OK(<<>>))
           /\ call.op \in {"category", "open_file", "close_file"} \cup (Changes \ Writers)
  BY <1>1, <1>9, ExitSingle
<1> QED
  BY <1>1, <1>2, <1>3, <1>4, <1>5, <1>6, <1>7, <1>8, <1>9, AnswerIs

-----------------------------------------------------------------------------
LEMMA InitIsRight == Init => Inv
<1> SUFFICES ASSUME Init PROVE Inv
  OBVIOUS
<1>1. /\ call = NoCall /\ pc = "idle" /\ cmd = NoCmd /\ loc = NoLoc /\ open = FALSE
      /\ ic = NoIc /\ did = NoWork /\ line = <<>> /\ losts = 0 /\ lates = 0
  BY DEF Init, LinkInit
<1>2. Shape
  <2>1. ic = [mode |-> "off", rsp |-> NoRsp, out |-> <<>>, wr |-> NoCmd]
    BY <1>1 DEF NoIc
  <2>2. IsCmd(ic.wr)
    BY <2>1 DEF IsCmd, NoCmd
  <2>3. loc = [step |-> 1, tries |-> 0, ptr |-> 0, rid |-> 0, chg |-> "none", data |-> <<>>]
    BY <1>1 DEF NoLoc
  <2>4. losts \in Nat /\ lates \in Nat
    BY <1>1
  <2>5. /\ ic = [mode |-> ic.mode, rsp |-> ic.rsp, out |-> ic.out, wr |-> ic.wr]
        /\ ic.mode \in {"off", "started", "welcomed", "on", "leaving"}
    BY <2>1
  <2>6. loc = [step |-> loc.step, tries |-> loc.tries, ptr |-> loc.ptr, rid |-> loc.rid,
               chg |-> loc.chg, data |-> loc.data]
    BY <2>3
  <2> QED
    BY <2>2, <2>4, <2>5, <2>6 DEF Shape
<1>3. CmdInv /\ DidInv
  BY <1>1 DEF CmdInv, DidInv, NoCall, Contract!NoCall, Sending, Done
<1>4. DevInv
  <2>1. dev \in [Ids -> {NoRec, [data |-> <<>>, chg |-> "del"]} \cup
                     [data : Records, chg : {"clean", "mod"}]]
    BY DEF Init
  <2>2. {NoRec, [data |-> <<>>, chg |-> "del"]} \cup [data : Records, chg : {"clean", "mod"}]
          \subseteq Stored
    BY DEF Stored
  <2> QED
    BY <2>1, <2>2 DEF DevInv
<1>5. QuietInv /\ ModeInv
  BY <1>1 DEF QuietInv, ModeInv, NoCall, Contract!NoCall, Done
<1>6. RspInv /\ WrInv /\ ReadInv
  BY <1>1 DEF RspInv, WrInv, ReadInv, Writers, NoCall, Contract!NoCall, NoCmd
<1>7. OffInv
  BY <1>1 DEF OffInv, NoIc, NoCmd
<1> QED
  BY <1>2, <1>3, <1>4, <1>5, <1>6, <1>7 DEF Inv, InTimeInv

LEMMA StepIsRight == Inv /\ [Next]_vars => Inv' /\ Promise
<1>1. ASSUME Inv, Next PROVE Inv' /\ Promise
  <2>1. CASE connect
    BY <1>1, <2>1, BeginConnect
  <2>2. CASE UserStarts
    BY <1>1, <2>2, UserStep
  <2>3. CASE disconnect
    BY <1>1, <2>3, BeginDisconnect
  <2>4. CASE Simple
    BY <1>1, <2>4, BeginSimple
  <2>5. CASE Reads
    BY <1>1, <2>5, BeginReads
  <2>6. CASE Writes
    BY <1>1, <2>6, BeginWrites
  <2>7. CASE TryWelcome
    BY <1>1, <2>7, TryStep
  <2>8. CASE SendInit
    BY <1>1, <2>8, InitStep
  <2>9. CASE SendSelect
    BY <1>1, <2>9, SelectStep
  <2>10. CASE SendRequest
    BY <1>1, <2>10, RequestStep
  <2>11. CASE SendExit
    BY <1>1, <2>11, ExitPduStep
  <2>12. CASE ComExit
    BY <1>1, <2>12, ExitStep
  <2>13. CASE Stop
    BY <1>1, <2>13, StopStep DEF Stop
  <2> QED
    BY <1>1, <2>1, <2>2, <2>3, <2>4, <2>5, <2>6, <2>7, <2>8, <2>9, <2>10, <2>11, <2>12, <2>13
    DEF Next, Program
<1>2. ASSUME Inv, UNCHANGED vars PROVE Inv' /\ Promise
  BY <1>2, StopStep
<1> QED
  BY <1>1, <1>2

LEMMA AlwaysRight == Spec => []Inv
BY InitIsRight, StepIsRight, PTL DEF Spec

-----------------------------------------------------------------------------
(* Losses and late answers within their bounds.                            *)
Within == losts \in 0 .. MaxLost /\ lates \in 0 .. MaxLate

LEMMA StaysWithin ==
  ASSUME Within, NEW a, NEW s \in L1send(a), NEW there, NEW nothing,
         NEW r \in L1recv(s, there, nothing), Transfer(s, r)
  PROVE  Within'
<1>1. MaxLost \in Nat /\ MaxLate \in Nat /\ losts \in Nat /\ lates \in Nat
  BY LinkAssumption DEF Within
<1>2. s.lost \in {0, 1}
  BY <1>1, Sent
<1>3. losts = MaxLost => s.lost = 0
  <2> SUFFICES ASSUME losts = MaxLost PROVE s.lost = 0
    OBVIOUS
  <2>1. s \in [now : {line \o a}, lost : {0}, arrived : {TRUE}]
    BY DEF L1send
  <2> QED
    BY <2>1
<1>4. r.late = 0 \/ (r.late = 1 /\ lates # MaxLate)
  BY DEF L1recv
<1>5. losts' = losts + s.lost /\ lates' = lates + r.late
  BY DEF Transfer
<1>6. losts + s.lost \in 0 .. MaxLost
  BY <1>1, <1>2, <1>3 DEF Within
<1>7. lates + r.late \in 0 .. MaxLate
  BY <1>1, <1>4 DEF Within
<1> QED
  BY <1>5, <1>6, <1>7 DEF Within

LEMMA NextWithin == Within /\ [Next]_vars => Within'
<1> SUFFICES ASSUME Within, [Next]_vars PROVE Within'
  OBVIOUS
<1>1. CASE UNCHANGED <<losts, lates>>
  BY <1>1 DEF Within
<1>2. CASE TryWelcome
  <2>1. PICK s \in L1send(ByteAnswer), signal \in BOOLEAN :
          LET Recv(l) == RecvText(l, IF pc = "GOT_NONE" THEN WELCOME ELSE Ready)
          IN \E r \in L1recv(s, Recv(s.now), Recv(<<>>)) : Transfer(s, r)
    BY <1>2 DEF TryWelcome
  <2> QED
    BY <2>1, StaysWithin
<1>3. CASE SendInit
  BY <1>3, StaysWithin DEF SendInit
<1>4. CASE SendSelect
  BY <1>4, StaysWithin DEF SendSelect
<1>5. CASE SendRequest
  BY <1>5, StaysWithin DEF SendRequest
<1>6. CASE SendExit
  BY <1>6, StaysWithin DEF SendExit
<1>7. CASE connect \/ UserStarts \/ disconnect \/ Simple \/ Reads \/ Writes \/ ComExit
  BY <1>1, <1>7 DEF connect, UserStarts, disconnect, Simple, Reads, Writes, ComExit, Does, Calls
<1> QED
  BY <1>1, <1>2, <1>3, <1>4, <1>5, <1>6, <1>7 DEF Next, Program, Stop, vars

(* Only a block that is not the last makes _read_frec ask for more.        *)
LEMMA AsksForMore ==
  ASSUME Inv, [Next]_vars, cmd.id # "fgetmore", cmd'.id = "fgetmore"
  PROVE  SendExit /\ pc = "exit" /\ rsp # NoRsp /\ call.op \in Readers /\ ~ rsp.last
<1>0. /\ NoCmd.id # "fgetmore" /\ \A i \in 1 .. 4 : Steps[i] # "fgetmore"
      /\ \A c, n : WriteCmd(c, n).id # "fgetmore"
  BY DEF NoCmd, Steps, WriteCmd, WriteId
<1>1. ~ UNCHANGED cmd
  OBVIOUS
<1>2. \A where : ~ Goto(where)
  BY <1>1 DEF Goto
<1>3. ~ Fails /\ \A r : ~ Returns(r)
  BY <1>0, FailsAs DEF Returns
<1>4. ~ SendFails
  BY <1>2, <1>3 DEF SendFails
<1>5. ~ (SendInit \/ SendSelect \/ SendRequest \/ ComExit)
  BY <1>2, <1>3, <1>4 DEF SendInit, SendSelect, SendRequest, ComExit
<1>6. ~ TryWelcome
  <2>1. \A ok, signal : ~ AfterTry(ok, signal)
    <3> SUFFICES ASSUME NEW ok, NEW signal, AfterTry(ok, signal) PROVE FALSE
      OBVIOUS
    <3>1. \/ Sends(Command("disconn", 0, <<>>)) \/ Sends(Command(Steps[1], 0, call.data))
          \/ UNCHANGED cmd
      BY DEF AfterTry
    <3>2. Steps[1] # "fgetmore"
      BY DEF Steps
    <3> QED
      BY <1>1, <3>1, <3>2 DEF Sends, Command
  <2> QED
    BY <2>1 DEF TryWelcome
<1>7. ~ (connect \/ UserStarts)
  BY <1>1 DEF connect, UserStarts
<1>8. \A op, id, data, c : Does(op, id, data, c) => c.id = "fgetmore"
  BY DEF Does, Sends
<1>9. ~ (disconnect \/ Simple \/ Reads \/ Writes)
  <2>0. \A op, id, data, k, i, d : Does(op, id, data, Command(k, i, d)) => k = "fgetmore"
    BY <1>8 DEF Command
  <2>1. ~ disconnect
    BY <2>0 DEF disconnect
  <2>2. ~ Simple
    <3>1. \A op \in DOMAIN Single : Single[op] # "fgetmore"
      BY SingleCmds
    <3> QED
      BY <2>0, <3>1 DEF Simple
  <2>3. ~ Reads
    BY <2>0 DEF Reads
  <2>4. ~ Writes
    <3>1. \A op, id, data, c, n : ~ Does(op, id, data, WriteCmd(c, n))
      BY <1>0, <1>8
    <3> QED
      BY <2>0, <3>1 DEF Writes
  <2> QED
    BY <2>1, <2>2, <2>3, <2>4
<1>10. SendExit
  BY <1>1, <1>5, <1>6, <1>7, <1>9 DEF Next, Program, Stop, vars
<1>11. Over /\ Answered /\ pc = "exit" /\ pc \in Sending
  BY <1>10, ExitIsOver DEF Over, Sending
<1>12. ~ (call.op \in Writers /\ Wrote)
  BY <1>0, <1>3 DEF Wrote, Sends
<1>13. ~ (call.op = "connect" /\ cmd.id # "disconn" /\ Connected)
  <2> SUFFICES ASSUME call.op = "connect", cmd.id # "disconn", Connected PROVE FALSE
    OBVIOUS
  <2>1. loc.step \in 1 .. 4
    BY <1>11 DEF Inv, CmdInv
  <2>2. loc.step # 4 /\ Sends(Command(Steps[loc.step + 1], 0, call.data))
    BY <1>3 DEF Connected
  <2>3. loc.step + 1 \in 1 .. 4
    BY <2>1, <2>2
  <2>4. Steps[loc.step + 1] # "fgetmore"
    BY <1>0, <2>3
  <2> QED
    BY <2>2, <2>4 DEF Sends, Command
<1>14. rsp # NoRsp /\ call.op \in Readers /\ ReadBlock
  BY <1>2, <1>3, <1>11, <1>12, <1>13, AnswerIs
<1>15. ~ rsp.last
  BY <1>3, <1>14 DEF ReadBlock
<1> QED
  BY <1>10, <1>11, <1>14, <1>15

(* Every record fits into one block.                                       *)
Short == \A d \in Records : Len(d) <= ReadLen

LEMMA OneBlock ==
  ASSUME Inv, Short, lates = 0, [Next]_vars, cmd.id # "fgetmore"
  PROVE  cmd'.id # "fgetmore"
<1> SUFFICES ASSUME cmd'.id = "fgetmore" PROVE FALSE
  OBVIOUS
<1>1. pc = "exit" /\ rsp # NoRsp /\ call.op \in Readers /\ ~ rsp.last /\ pc \in Sending /\ DevInv
  BY AsksForMore DEF Sending, Inv, InTimeInv
<1>2. cmd.id \in Firsts /\ RightRsp(rsp)
  BY <1>1, OpsOfCmds DEF Inv, InTimeInv, RspInv, Firsts
<1>3. ~ Absent(rsp)
  BY <1>1 DEF Absent, Rsp
<1>4. PICK i \in Ids : rsp = FirstBlock(i)
  BY <1>2, <1>3 DEF RightRsp
<1>5. rsp.last = (Len(dev[i].data) <= ReadLen)
  BY <1>4 DEF FirstBlock, Rsp
<1>6. dev[i].data \in Records \cup {<<>>}
  BY <1>1, StoredRec
<1>7. Len(<<>>) <= ReadLen
  BY TransAssumption
<1> QED
  BY <1>1, <1>5, <1>6, <1>7 DEF Short

-----------------------------------------------------------------------------
(* What the program keeps and sends has its size, whatever happens.        *)
CallTypes ==
  /\ call.op = "WriteSysInfo" => \E i \in Infos : call.data = <<i>>
  /\ call.op = "connect" => Len(call.data) = 1
  /\ call.op \in Writers => call.id \in 0 .. MaxId
  /\ cmd.rid \in 0 .. MaxId
  /\ call.op \notin Writers => Len(cmd.data) \in {0, 1}

LocTypes ==
  /\ Len(loc.data) <= MaxRLen /\ loc.tries \in 0 .. MaxTries - 1 /\ loc.step \in 1 .. 4
  /\ ret.ok \in BOOLEAN

RunTypes == open \in BOOLEAN /\ ncalls \in 0 .. MaxCalls

DevTypes ==
  /\ dev = [i \in Ids |-> dev[i]]
  /\ \A i \in Ids : /\ dev[i] = [data |-> dev[i].data, chg |-> dev[i].chg]
                    /\ dev[i].chg \in {"none", "clean", "mod", "del"}
  /\ info \in Infos /\ did.done \in BOOLEAN /\ did.rid \in 0 .. MaxId

LEMMA NothingTypes ==
  /\ Len(NoLoc.data) <= MaxRLen /\ NoLoc.tries \in 0 .. MaxTries - 1 /\ NoLoc.step \in 1 .. 4
  /\ NoCmd.rid \in 0 .. MaxId /\ Len(NoCmd.data) = 0
  /\ NoCall.op \notin Writers /\ NoCall.op \notin {"connect", "WriteSysInfo"}
  /\ ERR.ok = FALSE /\ NoWork.done = FALSE /\ NoWork.rid \in 0 .. MaxId
<1>1. MaxId \in Nat /\ MaxRLen \in Nat /\ MaxTries \in Nat \ {0}
  BY TransAssumption
<1>2. Len(<<>>) = 0
  OBVIOUS
<1>3. /\ Len(NoLoc.data) <= MaxRLen /\ NoLoc.tries = 0 /\ NoLoc.step = 1
      /\ NoCmd.rid = 0 /\ Len(NoCmd.data) = 0
  BY <1>1, <1>2 DEF NoLoc, NoCmd
<1>4. 0 \in 0 .. MaxTries - 1 /\ 0 \in 0 .. MaxId
  BY <1>1
<1>5. /\ NoCall.op \notin Writers /\ NoCall.op \notin {"connect", "WriteSysInfo"}
      /\ ERR.ok = FALSE /\ NoWork.done = FALSE /\ NoWork.rid = 0
  BY DEF Writers, NoCall, Contract!NoCall, ERR, Contract!ERR, NoWork, Contract!NoWork
<1> QED
  BY <1>3, <1>4, <1>5

LEMMA IdleTypes ==
  ASSUME NEW r, Returns(r), r.ok \in BOOLEAN
  PROVE  CallTypes' /\ LocTypes'
BY NothingTypes DEF Returns, CallTypes, LocTypes

LEMMA FailsTypes ==
  ASSUME CallTypes, LocTypes, Fails
  PROVE  CallTypes' /\ LocTypes'
<1>1. CASE call.op = "connect"
  <2>1. /\ cmd' = [id |-> "disconn", rid |-> 0, data |-> <<>>, last |-> TRUE]
        /\ loc' = NoLoc /\ UNCHANGED <<call, ret>>
    BY <1>1 DEF Fails, Sends, Command
  <2>2. cmd'.rid \in 0 .. MaxId /\ Len(cmd'.data) = 0
    BY <2>1, TransAssumption
  <2> QED
    <3>1. CallTypes'
      BY <1>1, <2>1, <2>2 DEF CallTypes, Writers
    <3>2. LocTypes'
      BY <2>1, NothingTypes DEF LocTypes
    <3> QED
      BY <3>1, <3>2
<1>2. CASE call.op # "connect"
  <2>1. Returns(ERR) /\ ERR.ok \in BOOLEAN
    BY <1>2, NothingTypes DEF Fails
  <2> QED
    BY <2>1, IdleTypes
<1> QED
  BY <1>1, <1>2

LEMMA GotoTypes ==
  ASSUME CallTypes, LocTypes, NEW where, Goto(where)
  PROVE  CallTypes' /\ LocTypes'
BY DEF Goto, CallTypes, LocTypes

LEMMA SendFailsTypes ==
  ASSUME CallTypes, LocTypes, SendFails
  PROVE  CallTypes' /\ LocTypes'
BY GotoTypes, FailsTypes DEF SendFails

(* A transaction begins.                                                   *)
LEMMA DoesTypes ==
  ASSUME LocTypes, NEW op, NEW id, NEW data, NEW c, Does(op, id, data, c),
         op # "connect", op = "WriteSysInfo" => \E i \in Infos : data = <<i>>,
         op \in Writers => id \in 0 .. MaxId, c.rid \in 0 .. MaxId,
         op \notin Writers => Len(c.data) \in {0, 1}
  PROVE  CallTypes' /\ LocTypes'
<1>1. /\ call' = [op |-> op, id |-> id, data |-> data] /\ loc' = NoLoc /\ UNCHANGED ret
      /\ cmd' = [id |-> c.id, rid |-> c.rid, data |-> c.data, last |-> c.last]
  BY DEF Does, Calls, Sends
<1>2. call'.op = op /\ call'.id = id /\ call'.data = data /\ cmd'.rid = c.rid /\ cmd'.data = c.data
  BY <1>1
<1>3. LocTypes'
  BY <1>1, NothingTypes DEF LocTypes
<1>4. CallTypes'
  BY <1>2 DEF CallTypes
<1> QED
  BY <1>3, <1>4

LEMMA CommandTypes ==
  ASSUME LocTypes, NEW op, NEW id, NEW data, NEW k, NEW i, NEW d, Does(op, id, data, Command(k, i, d)),
         op \notin Writers \cup {"connect"}, op = "WriteSysInfo" => \E x \in Infos : data = <<x>>,
         i \in 0 .. MaxId, Len(d) \in {0, 1}
  PROVE  CallTypes' /\ LocTypes'
<1>1. Command(k, i, d).rid = i /\ Command(k, i, d).data = d
  BY DEF Command
<1> QED
  BY <1>1, DoesTypes

LEMMA BeginTypes ==
  ASSUME LocTypes, disconnect \/ Simple \/ Reads \/ Writes
  PROVE  CallTypes' /\ LocTypes'
<1>1. /\ MaxId \in Nat /\ 0 \in 0 .. MaxId /\ \A i \in Ids : i \in 0 .. MaxId
      /\ Contract!Exists(dev) \subseteq Ids /\ Contract!Changed(dev) \subseteq Ids
      /\ Len(<<>>) \in {0, 1} /\ \A x : Len(<<x>>) \in {0, 1}
  BY TransAssumption DEF Ids, Contract!Ids, Contract!Exists, Contract!Changed
<1>2. CASE disconnect
  BY <1>1, <1>2, CommandTypes DEF disconnect, Writers
<1>3. CASE Simple
  <2>1. ASSUME NEW op \in Simples, Does(op, 0, <<>>, Command(Single[op], 0, <<>>))
        PROVE  CallTypes' /\ LocTypes'
    <3>1. op \notin Writers \cup {"connect", "WriteSysInfo"}
      BY DEF Simples, Writers
    <3> QED
      BY <1>1, <2>1, <3>1, CommandTypes
  <2>2. ASSUME NEW i \in Infos, Does("WriteSysInfo", 0, <<i>>, Command("setdtime", 0, <<i>>))
        PROVE  CallTypes' /\ LocTypes'
    BY <1>1, <2>2, CommandTypes DEF Writers
  <2> QED
    BY <1>3, <2>1, <2>2, SingleCmds DEF Simple
<1>4. CASE Reads
  <2>1. ASSUME NEW i \in Ids, Does("read_id_frec", i, <<>>, Command("fgetirec", i, <<>>))
        PROVE  CallTypes' /\ LocTypes'
    BY <1>1, <2>1, CommandTypes DEF Writers
  <2>2. ASSUME NEW n \in 0 .. Cardinality(Contract!Exists(dev)) - 1,
               Does("read_frec", n, <<>>, Command("fgetrec", n, <<>>))
        PROVE  CallTypes' /\ LocTypes'
    <3>1. Cardinality(Contract!Exists(dev)) <= MaxId /\ Cardinality(Contract!Exists(dev)) \in Nat
      <4>1. IsFiniteSet(1 .. MaxId) /\ Cardinality(1 .. MaxId) = MaxId
        BY <1>1, FS_Interval
      <4>2. Contract!Exists(dev) \subseteq 1 .. MaxId
        BY <1>1 DEF Ids, Contract!Ids
      <4> QED
        BY <4>1, <4>2, FS_Subset, FS_CardinalityType
    <3>2. n \in 0 .. MaxId
      BY <1>1, <3>1
    <3> QED
      BY <1>1, <2>2, <3>2, CommandTypes DEF Writers
  <2>3. ASSUME Does("read_mod_frec", 0, <<>>, Command("fgetmrec", 0, <<>>))
        PROVE  CallTypes' /\ LocTypes'
    BY <1>1, <2>3, CommandTypes DEF Writers
  <2> QED
    BY <1>4, <2>1, <2>2, <2>3 DEF Reads
<1>5. CASE Writes
  <2>1. ASSUME NEW op \in Writers, NEW i \in 0 .. MaxId, NEW d,
               Does(op, i, d, WriteCmd([op |-> op, id |-> i, data |-> d], 0))
        PROVE  CallTypes' /\ LocTypes'
    <3>1. WriteCmd([op |-> op, id |-> i, data |-> d], 0).rid = i
      BY DEF WriteCmd
    <3>2. op \notin {"connect", "WriteSysInfo"}
      BY DEF Writers
    <3> QED
      BY <2>1, <3>1, <3>2, DoesTypes
  <2>2. ASSUME NEW i \in Ids, Does("delete_frec", i, <<>>, Command("fdelrec", i, <<>>))
        PROVE  CallTypes' /\ LocTypes'
    BY <1>1, <2>2, CommandTypes DEF Writers
  <2>3. ASSUME NEW i \in Ids, Does("commit_frec", i, <<>>, Command("fclrchg", i, <<>>))
        PROVE  CallTypes' /\ LocTypes'
    BY <1>1, <2>3, CommandTypes DEF Writers
  <2> QED
    BY <1>1, <1>5, <2>1, <2>2, <2>3 DEF Writes, Writers
<1> QED
  BY <1>2, <1>3, <1>4, <1>5

(* welcome(), and connect() after it                                       *)
LEMMA SendsTypes ==
  ASSUME CallTypes, LocTypes, NEW k, NEW i \in 0 .. MaxId, NEW d, Len(d) \in {0, 1},
         Sends(Command(k, i, d)), UNCHANGED <<call, ret>>, call.op \notin Writers,
         Len(loc'.data) <= MaxRLen, loc'.tries \in 0 .. MaxTries - 1, loc'.step \in 1 .. 4
  PROVE  CallTypes' /\ LocTypes'
<1>1. cmd' = [id |-> k, rid |-> i, data |-> d, last |-> TRUE]
  BY DEF Sends, Command
<1>2. cmd'.rid = i /\ cmd'.data = d
  BY <1>1
<1> QED
  BY <1>2 DEF CallTypes, LocTypes

LEMMA TryTypes ==
  ASSUME Inv, CallTypes, LocTypes, TryWelcome
  PROVE  CallTypes' /\ LocTypes'
<1>1. /\ UNCHANGED <<call, ret>> /\ call.op = "connect" /\ call.op \notin Writers
      /\ Len(call.data) \in {0, 1} /\ Len(<<>>) \in {0, 1} /\ 0 \in 0 .. MaxId
  BY TransAssumption DEF TryWelcome, Inv, CmdInv, CallTypes, Writers
<1>2. PICK ok, signal : signal \in BOOLEAN /\ AfterTry(ok, signal)
  BY DEF TryWelcome
<1>3. CASE Sends(Command("disconn", 0, <<>>)) /\ loc' = NoLoc
  BY <1>1, <1>3, NothingTypes, SendsTypes
<1>4. CASE Sends(Command(Steps[1], 0, call.data)) /\ loc' = NoLoc
  BY <1>1, <1>4, NothingTypes, SendsTypes
<1>5. CASE loc.tries + 1 < MaxTries /\ loc' = [loc EXCEPT !.tries = @ + 1] /\ UNCHANGED cmd
  <2>1. loc'.tries = loc.tries + 1 /\ loc'.data = loc.data /\ loc'.step = loc.step
    BY <1>5 DEF Inv, Shape
  <2>2. loc'.tries \in 0 .. MaxTries - 1
    BY <1>5, <2>1, TransAssumption DEF LocTypes
  <2> QED
    BY <1>1, <1>5, <2>1, <2>2 DEF CallTypes, LocTypes
<1> QED
  BY <1>2, <1>3, <1>4, <1>5 DEF AfterTry

(* What a transaction goes on with when a response is there.               *)
LEMMA AnsweredTypes ==
  ASSUME Inv, CallTypes, LocTypes, SendExit
  PROVE  CallTypes' /\ LocTypes'
<1>1. pc = "exit" /\ Answered /\ pc \in Sending /\ \A v : OK(v).ok \in BOOLEAN
  BY DEF SendExit, Sending, OK
<1>2. Len(<<>>) \in {0, 1} /\ 0 \in 0 .. MaxId
  BY TransAssumption
<1>3. CASE Goto("com_exit") \/ Fails
  BY <1>3, GotoTypes, FailsTypes
<1>4. ASSUME NEW v, Returns(OK(v)) PROVE CallTypes' /\ LocTypes'
  BY <1>1, <1>4, IdleTypes
<1>5. CASE call.op \in Readers /\ ReadBlock
  <2>1. call.op \notin Writers
    BY <1>5 DEF Readers, Writers
  <2> DEFINE buff == IF Len(loc.data \o Block) <= MaxRLen THEN loc.data \o Block ELSE loc.data
  <2>2. Len(buff) <= MaxRLen
    BY DEF LocTypes
  <2>3. /\ Head1.tries = loc.tries /\ Head1.step = loc.step
        /\ [Head1 EXCEPT !.data = buff].data = buff
        /\ [Head1 EXCEPT !.data = buff].tries = loc.tries
        /\ [Head1 EXCEPT !.data = buff].step = loc.step
    <3>1. PICK a, b : Head1 = [step |-> loc.step, tries |-> loc.tries, ptr |-> loc.ptr, rid |-> a,
                               chg |-> b, data |-> loc.data]
      <4>1. loc = [step |-> loc.step, tries |-> loc.tries, ptr |-> loc.ptr, rid |-> loc.rid,
                   chg |-> loc.chg, data |-> loc.data]
        BY DEF Inv, Shape
      <4>2. PICK t, p, w, i, g, d : loc = [step |-> t, tries |-> p, ptr |-> w, rid |-> i,
                                            chg |-> g, data |-> d]
        BY <4>1
      <4>3. loc.step = t /\ loc.tries = p /\ loc.ptr = w /\ loc.chg = g /\ loc.data = d
        BY <4>2
      <4>4. CASE cmd.id = "fgetmore"
        BY <4>1, <4>4 DEF Head1
      <4>5. CASE cmd.id # "fgetmore" /\ rsp.kind = "rec"
        BY <4>2, <4>3, <4>5 DEF Head1
      <4>6. CASE cmd.id # "fgetmore" /\ rsp.kind # "rec"
        BY <4>2, <4>3, <4>6 DEF Head1
      <4> QED
        BY <4>4, <4>5, <4>6
    <3> HIDE DEF buff
    <3> QED
      BY <3>1
  <2>4. CASE rsp.last
    BY <1>4, <1>5, <2>4 DEF ReadBlock
  <2>5. CASE ~ rsp.last
    <3>1. /\ Sends(Command("fgetmore", 0, <<>>)) /\ loc' = [Head1 EXCEPT !.data = buff]
          /\ UNCHANGED <<call, ret>>
      BY <1>5, <2>5 DEF ReadBlock
    <3> HIDE DEF buff
    <3>2. /\ Len(loc'.data) <= MaxRLen /\ loc'.tries \in 0 .. MaxTries - 1 /\ loc'.step \in 1 .. 4
      BY <2>2, <2>3, <3>1 DEF LocTypes
    <3> QED
      BY <1>2, <2>1, <3>1, <3>2, SendsTypes
  <2> QED
    BY <2>4, <2>5
<1>6. CASE call.op \in Writers /\ Wrote
  <2> DEFINE wptr == loc.ptr + Len(cmd.data)
             rid  == IF rsp.last THEN Value("id") ELSE loc.rid
  <2>1. CASE wptr < Len(call.data)
    <3>1. Sends(WriteCmd(call, wptr)) /\ loc' = [loc EXCEPT !.ptr = wptr, !.rid = rid] /\ UNCHANGED <<call, ret>>
      BY <1>6, <2>1 DEF Wrote
    <3> HIDE DEF wptr, rid
    <3>2. loc'.data = loc.data /\ loc'.tries = loc.tries /\ loc'.step = loc.step
      BY <3>1 DEF Inv, Shape
    <3>3. cmd'.rid = call.id
      BY <3>1 DEF Sends, WriteCmd
    <3> QED
      BY <1>6, <3>1, <3>2, <3>3 DEF CallTypes, LocTypes
  <2>2. CASE ~ (wptr < Len(call.data))
    <3>1. Returns(OK(<<"id", rid>>))
      BY <1>6, <2>2 DEF Wrote
    <3> QED
      BY <1>4, <3>1
  <2> QED
    BY <2>1, <2>2
<1>7. CASE call.op = "connect" /\ cmd.id # "disconn" /\ Connected
  <2>1. loc.step \in 1 .. 4 /\ call.op \notin Writers /\ Len(call.data) \in {0, 1}
    BY <1>7 DEF LocTypes, CallTypes, Writers
  <2>2. CASE /\ loc.step # 4 /\ loc' = [loc EXCEPT !.step = @ + 1] /\ UNCHANGED <<call, ret>>
             /\ Sends(Command(Steps[loc.step + 1], 0, call.data))
    <3>1. loc'.data = loc.data /\ loc'.tries = loc.tries /\ loc'.step = loc.step + 1
      BY <2>2 DEF Inv, Shape
    <3>2. loc'.step \in 1 .. 4
      BY <2>1, <2>2, <3>1
    <3> QED
      BY <1>2, <2>1, <2>2, <3>1, <3>2, SendsTypes DEF LocTypes
  <2>3. \/ Returns(OK(<<"info", Value("info")>>)) \/ Fails
        \/ /\ loc.step # 4 /\ loc' = [loc EXCEPT !.step = @ + 1] /\ UNCHANGED <<call, ret>>
           /\ Sends(Command(Steps[loc.step + 1], 0, call.data))
    BY <1>7, <2>1 DEF Connected
  <2> QED
    BY <1>3, <1>4, <2>2, <2>3
<1> QED
  BY <1>1, <1>3, <1>4, <1>5, <1>6, <1>7, AnswerIs

LEMMA ProgTypes ==
  ASSUME Inv, CallTypes, LocTypes, [Next]_vars
  PROVE  CallTypes' /\ LocTypes'
<1>1. CASE UNCHANGED <<call, cmd, loc, ret>>
  BY <1>1 DEF CallTypes, LocTypes
<1>2. CASE connect
  <2>1. PICK passwd \in {<<"passwdOK">>, <<"passwdBad">>} : Calls("connect", 0, passwd) /\ UNCHANGED cmd
    BY <1>2 DEF connect
  <2>2. /\ call' = [op |-> "connect", id |-> 0, data |-> passwd] /\ loc' = NoLoc
        /\ UNCHANGED <<ret, cmd>> /\ pc = "idle"
    BY <2>1 DEF Calls
  <2>3. call'.op = "connect" /\ Len(call'.data) = 1 /\ cmd' = NoCmd
    BY <2>1, <2>2 DEF Inv, CmdInv
  <2> QED
    BY <2>2, <2>3, NothingTypes DEF CallTypes, LocTypes, Writers
<1>3. CASE disconnect \/ Simple \/ Reads \/ Writes
  BY <1>3, BeginTypes
<1>4. CASE UserStarts
  BY <1>1, <1>4 DEF UserStarts
<1>5. CASE TryWelcome
  BY <1>5, TryTypes
<1>6. CASE SendInit \/ SendSelect \/ SendRequest
  BY <1>6, GotoTypes, SendFailsTypes DEF SendInit, SendSelect, SendRequest
<1>7. CASE SendExit
  BY <1>7, AnsweredTypes
<1>8. CASE ComExit
  <2>1. ERR.ok \in BOOLEAN
    BY NothingTypes
  <2>2. OK(<<>>).ok \in BOOLEAN
    BY DEF OK
  <2> QED
    BY <1>8, <2>1, <2>2, IdleTypes DEF ComExit
<1>9. CASE Stop \/ UNCHANGED vars
  BY <1>1, <1>9 DEF Stop, vars
<1> QED
  BY <1>2, <1>3, <1>4, <1>5, <1>6, <1>7, <1>8, <1>9 DEF Next, Program

(* The IC35: every record keeps its form.                                  *)
LEMMA TakesTypes ==
  ASSUME DevTypes, NEW op, NEW i \in Ids, NEW d, Contract!Takes(op, i, d), UNCHANGED info
  PROVE  DevTypes'
<1>1. PICK rec : /\ dev' = [dev EXCEPT ![i] = rec] /\ did' = [done |-> TRUE, rid |-> i]
                 /\ \/ rec = [data |-> d, chg |-> "clean"]
                    \/ rec = NoRec
                    \/ rec = [dev[i] EXCEPT !.chg = "clean"]
  BY DEF Contract!Takes, Contract!Does, NoRec
<1>2. rec = [data |-> rec.data, chg |-> rec.chg] /\ rec.chg \in {"none", "clean", "mod", "del"}
  <2>1. CASE rec = [data |-> d, chg |-> "clean"]
    BY <2>1
  <2>2. CASE rec = NoRec
    BY <2>2 DEF NoRec, Contract!NoRec
  <2>3. CASE rec = [dev[i] EXCEPT !.chg = "clean"]
    <3>1. dev[i] = [data |-> dev[i].data, chg |-> dev[i].chg]
      BY DEF DevTypes
    <3>2. rec = [data |-> dev[i].data, chg |-> "clean"]
      BY <2>3, <3>1
    <3> QED
      BY <3>2
  <2> QED
    BY <1>1, <2>1, <2>2, <2>3
<1>3. /\ dev' = [j \in Ids |-> dev'[j]]
      /\ \A j \in Ids : dev'[j] = IF j = i THEN rec ELSE dev[j]
  <2>1. dev = [j \in Ids |-> dev[j]]
    BY DEF DevTypes
  <2>2. dev' = [j \in Ids |-> IF j = i THEN rec ELSE dev[j]]
    BY <1>1, <2>1
  <2> QED
    BY <2>2
<1>4. did'.done = TRUE /\ did'.rid \in 0 .. MaxId
  BY <1>1, TransAssumption DEF Ids, Contract!Ids
<1>5. \A j \in Ids : /\ dev'[j] = [data |-> dev'[j].data, chg |-> dev'[j].chg]
                     /\ dev'[j].chg \in {"none", "clean", "mod", "del"}
  BY <1>2, <1>3 DEF DevTypes
<1>6. info' \in Infos
  BY DEF DevTypes
<1> QED
  BY <1>3, <1>4, <1>5, <1>6 DEF DevTypes

LEMMA SameTypes == ASSUME DevTypes, UNCHANGED devvars PROVE DevTypes'
BY DEF DevTypes, devvars

LEMMA GetsTypes == ASSUME DevTypes, NEW c, Gets(c) PROVE DevTypes'
<1>1. CASE ~ c.last
  BY <1>1, SameTypes DEF Gets
<1>2. CASE c.last
  <2>1. PICK i \in Ids : \E op, d : Contract!Takes(op, i, d)
    BY <1>2 DEF Gets
  <2>2. UNCHANGED info
    BY <1>2 DEF Gets
  <2> QED
    BY <2>1, <2>2, TakesTypes
<1> QED
  BY <1>1, <1>2

LEMMA ExecutesTypes ==
  ASSUME Inv, CallTypes, DevTypes, pc = "select", IcExecutes(cmd)
  PROVE  DevTypes'
<1>0. pc \in Sending
  BY DEF Sending
<1>1. CASE UNCHANGED devvars
  BY <1>1, SameTypes
<1>2. CASE cmd.id \in Plain \cup {"disconn", "fgetmore", "fgetirec", "fgetrec", "fgetmrec"}
  BY <1>1, <1>2, IcDoes DEF Plain, Unchanged, SendsRecord, SendsMore
<1>3. CASE cmd.id \in {"fputrec", "fupdrec"}
  BY <1>3, GetsTypes, IcDoes
<1>4. CASE cmd.id = "fputmore"
  BY <1>1, <1>4, GetsTypes, IcDoes DEF Unchanged
<1>5. CASE cmd.id = "fdelrec" \/ cmd.id = "fclrchg"
  <2>1. cmd.rid \in Ids
    BY <1>0, <1>5, CmdKind
  <2> QED
    BY <1>5, <2>1, TakesTypes, IcDoes
<1>6. CASE cmd.id = "setdtime"
  <2>1. PICK i \in Infos : cmd.data = <<i>>
    BY <1>0, <1>6, CmdKind DEF CallTypes
  <2>2. cmd.data[1] = i
    BY <2>1
  <2>3. info' = i /\ did' = [done |-> TRUE, rid |-> 0] /\ UNCHANGED dev
    BY <1>6, <2>2, IcDoes
  <2>4. did'.done \in BOOLEAN /\ did'.rid \in 0 .. MaxId
    BY <2>3, TransAssumption
  <2> QED
    BY <2>3, <2>4 DEF DevTypes
<1> QED
  BY <1>0, <1>2, <1>3, <1>4, <1>5, <1>6, CmdKind DEF Firsts

LEMMA RestTypes ==
  ASSUME Inv, CallTypes, RunTypes, DevTypes, [Next]_vars
  PROVE  RunTypes' /\ DevTypes'
<1>1. ASSUME UNCHANGED <<open, ncalls>> PROVE RunTypes'
  BY <1>1 DEF RunTypes
<1>2. ASSUME NEW op, NEW id, NEW data, Calls(op, id, data), open' \in BOOLEAN
      PROVE  RunTypes' /\ DevTypes'
  <2>1. ncalls < MaxCalls /\ ncalls' = ncalls + 1 /\ did' = NoWork /\ UNCHANGED <<dev, info>>
    BY <1>2 DEF Calls
  <2>2. ncalls' \in 0 .. MaxCalls
    BY <2>1, TransAssumption DEF RunTypes
  <2>3. did'.done \in BOOLEAN /\ did'.rid \in 0 .. MaxId
    BY <2>1, NothingTypes
  <2>4. DevTypes'
    BY <2>1, <2>3 DEF DevTypes
  <2> QED
    BY <1>2, <2>2, <2>4 DEF RunTypes
<1>3. CASE connect
  <2>1. open' \in BOOLEAN /\ \E data : Calls("connect", 0, data)
    BY <1>3 DEF connect
  <2> QED
    BY <1>2, <2>1
<1>4. ASSUME NEW op, NEW id, NEW data, NEW c, Does(op, id, data, c)
      PROVE  RunTypes' /\ DevTypes'
  <2>1. Calls(op, id, data) /\ open' = open
    BY <1>4 DEF Does
  <2> QED
    BY <1>2, <2>1 DEF RunTypes
<1>5. CASE disconnect \/ Simple \/ Reads \/ Writes
  BY <1>4, <1>5 DEF disconnect, Simple, Reads, Writes
<1>6. CASE SendSelect
  <2>1. UNCHANGED <<open, ncalls>> /\ pc = "select" /\ (IcExecutes(cmd) \/ UNCHANGED devvars)
    BY <1>6 DEF SendSelect
  <2> QED
    BY <1>1, <2>1, ExecutesTypes, SameTypes
<1>7. CASE UserStarts \/ TryWelcome \/ SendInit \/ SendRequest \/ SendExit
  <2>1. UNCHANGED <<open, ncalls>> /\ UNCHANGED devvars
    BY <1>7 DEF UserStarts, TryWelcome, SendInit, SendRequest, SendExit
  <2> QED
    BY <1>1, <2>1, SameTypes
<1>8. CASE ComExit
  <2>1. open' = FALSE /\ ncalls' = ncalls /\ UNCHANGED devvars
    BY <1>8 DEF ComExit
  <2> QED
    BY <2>1, SameTypes DEF RunTypes
<1>9. CASE Stop \/ UNCHANGED vars
  <2>1. UNCHANGED <<open, ncalls>> /\ UNCHANGED devvars
    BY <1>9 DEF Stop, vars, devvars
  <2> QED
    BY <1>1, <2>1, SameTypes
<1> QED
  BY <1>3, <1>5, <1>6, <1>7, <1>8, <1>9 DEF Next, Program

(* No block that _write_frec sends is longer than it may be.               *)
LEMMA BlockTypes ==
  ASSUME Inv, CallTypes
  PROVE  Len(cmd.data) \in 0 .. (IF WriteLen > 1 THEN WriteLen ELSE 1)
<1>1. WriteLen \in Nat \ {0}
  BY TransAssumption
<1>2. CASE call.op \notin Writers
  <2>1. Len(cmd.data) \in {0, 1}
    BY <1>2 DEF CallTypes
  <2> DEFINE n == Len(cmd.data)
  <2>2. n \in {0, 1}
    BY <2>1
  <2> HIDE DEF n
  <2>3. n \in 0 .. (IF WriteLen > 1 THEN WriteLen ELSE 1)
    BY <1>1, <2>2
  <2> QED
    BY <2>3 DEF n
<1>3. CASE call.op \in Writers
  <2>1. pc \in Sending
    BY <1>3 DEF Inv, CmdInv, Writers
  <2>2. call.data \in Records /\ loc.ptr \in 0 .. Len(call.data) - 1 /\ cmd = WriteCmd(call, loc.ptr)
    BY <1>3, <2>1 DEF Inv, CmdInv
  <2>3. call.data \in Seq(Bytes) /\ Len(call.data) \in Nat
    BY <2>2, ContentSeq
  <2>4. loc.ptr \in Nat
    BY <2>2, <2>3
  <2>5. Rest(call.data, loc.ptr) \in Seq(Bytes)
    BY <2>3, <2>4, RestSize
  <2>6. Len(Cut(Rest(call.data, loc.ptr), WriteLen)) \in 0 .. WriteLen
    <3> DEFINE R == Rest(call.data, loc.ptr)
    <3>1. R \in Seq(Bytes) /\ Len(R) \in Nat
      BY <2>5, LenProperties
    <3> HIDE DEF R
    <3>2. Len(Cut(R, WriteLen)) = IF WriteLen < Len(R) THEN WriteLen ELSE Len(R)
      <4>1. WriteLen \in Nat
        BY <1>1
      <4>2. \E k \in 0 .. Len(R) : /\ Len(Cut(R, WriteLen)) = k
                                   /\ k = (IF WriteLen < Len(R) THEN WriteLen ELSE Len(R))
        BY <3>1, <4>1, CutSize
      <4> QED
        BY <4>2
    <3>3. Len(Cut(R, WriteLen)) \in 0 .. WriteLen
      BY <1>1, <3>1, <3>2
    <3> QED
      BY <3>3 DEF R
  <2>7. cmd.data = Cut(Rest(call.data, loc.ptr), WriteLen)
    BY <2>2 DEF WriteCmd
  <2> QED
    BY <1>1, <2>6, <2>7
<1> QED
  BY <1>2, <1>3

-----------------------------------------------------------------------------
(* No time-out, try or block of a transaction is counted past its limit,   *)
(* and no more data is sent or collected than a block or record may hold.  *)
THEOREM TypeCorrect == Spec => []TypeOK
<1> DEFINE J == Inv /\ Within /\ CallTypes /\ LocTypes /\ RunTypes /\ DevTypes
<1>1. Init => J
  <2> SUFFICES ASSUME Init PROVE J
    OBVIOUS
  <2>1. Within
    BY LinkAssumption DEF Init, LinkInit, Within
  <2>2. CallTypes /\ LocTypes /\ RunTypes
    <3>1. /\ call = NoCall /\ cmd = NoCmd /\ loc = NoLoc /\ ret = ERR /\ open = FALSE
          /\ ncalls = 0 /\ MaxCalls \in Nat
      BY TransAssumption DEF Init
    <3>2. ret.ok \in BOOLEAN
      BY <3>1, NothingTypes
    <3>3. CallTypes
      BY <3>1, NothingTypes DEF CallTypes
    <3>4. LocTypes
      BY <3>1, <3>2, NothingTypes DEF LocTypes
    <3>5. RunTypes
      <4>1. ncalls \in 0 .. MaxCalls
        BY <3>1
      <4> QED
        BY <3>1, <4>1, Zenon DEF RunTypes
    <3> QED
      BY <3>3, <3>4, <3>5
  <2>3. DevTypes
    <3>1. dev \in [Ids -> {NoRec, [data |-> <<>>, chg |-> "del"]} \cup
                     [data : Records, chg : {"clean", "mod"}]]
      BY DEF Init
    <3>2. \A x \in {NoRec, [data |-> <<>>, chg |-> "del"]} \cup
                     [data : Records, chg : {"clean", "mod"}] :
            x = [data |-> x.data, chg |-> x.chg] /\ x.chg \in {"none", "clean", "mod", "del"}
      BY DEF NoRec, Contract!NoRec
    <3>3. dev = [i \in Ids |-> dev[i]]
      BY <3>1
    <3>4. info \in Infos /\ did.done \in BOOLEAN /\ did.rid \in 0 .. MaxId
      <4>1. info \in Infos /\ did = NoWork
        BY DEF Init
      <4>2. did.done \in BOOLEAN /\ did.rid \in 0 .. MaxId
        BY <4>1, NothingTypes
      <4> QED
        BY <4>1, <4>2
    <3> QED
      BY <3>1, <3>2, <3>3, <3>4 DEF DevTypes
  <2> QED
    BY <2>1, <2>2, <2>3, InitIsRight
<1>2. J /\ [Next]_vars => J'
  BY StepIsRight, NextWithin, ProgTypes, RestTypes
<1>3. J => TypeOK
  <2> SUFFICES ASSUME J PROVE TypeOK
    OBVIOUS
  <2>1. /\ losts \in 0 .. MaxLost /\ lates \in 0 .. MaxLate
        /\ pc \in {"idle", "GOT_NONE", "GOT_WELCOME", "init", "select", "request", "exit", "com_exit"}
        /\ ic.mode \in {"off", "started", "welcomed", "on", "leaving"}
        /\ cmd.rid \in 0 .. MaxId /\ info \in Infos /\ did.done \in BOOLEAN /\ did.rid \in 0 .. MaxId
        /\ open \in BOOLEAN /\ ret.ok \in BOOLEAN /\ ncalls \in 0 .. MaxCalls
    BY DEF Within, Inv, CmdInv, Sending, Shape, CallTypes, DevTypes, LocTypes, RunTypes
  <2>2. loc.tries < MaxTries /\ loc.step \in DOMAIN Steps /\ Len(loc.data) <= MaxRLen
    <3>1. DOMAIN Steps = 1 .. 4
      BY DEF Steps
    <3> QED
      BY <3>1, TransAssumption DEF LocTypes
  <2>3. \A i \in Ids : /\ lates = 0 => Len(dev[i].data) <= MaxRLen
                       /\ dev[i].chg \in {"none", "clean", "mod", "del"}
    BY StoredRec, TransAssumption DEF DevTypes, Inv, InTimeInv
  <2> QED
    BY <2>1, <2>2, <2>3, BlockTypes DEF TypeOK
<1> QED
  BY <1>1, <1>2, <1>3, PTL DEF Spec

(* After a failed connect and after disconnect the IC35 is not left        *)
(* connected, unless something was lost or late.                           *)
THEOREM NotLeftOn == Spec => []NotLeftConnected
<1>1. Inv => NotLeftConnected
  BY DEF Inv, OffInv, NotLeftConnected
<1> QED
  BY <1>1, AlwaysRight, PTL

(* Until an answer comes late, and, for a record read in several blocks,   *)
(* until more than one PDU is lost, every step of a session is one that    *)
(* TransContract allows: a success is the transaction's own and whole.     *)
THEOREM ResultsRight == Spec => RightInTime
<1>1. Inv /\ [Next]_vars => [InTime => Contract!Next]_cvars
  BY StepIsRight DEF Promise
<1> QED
  BY <1>1, AlwaysRight, PTL DEF Spec, RightInTime

(* Whatever is lost or late, the records and the information of the IC35   *)
(* change only by the step of the transaction that is being done, and      *)
(* once; the blocks that continue a write are excepted when an answer was  *)
(* late, for the IC35 may then put them to another record.                 *)
THEOREM NoStrayChange == Spec => NoStrayStep
<1>1. Inv /\ [Next]_vars =>
        [(lates' = 0 \/ cmd.id # "fputmore") => Contract!Call \/ Contract!Step \/ Ends]_cvars
  BY StepIsRight DEF Promise
<1> QED
  BY <1>1, AlwaysRight, PTL DEF Spec, NoStrayStep

(* The transactions implement TransContract where no answer is late and a  *)
(* record is one block, whatever is lost; and where one PDU is lost at     *)
(* most, whatever the size of records.                                     *)
THEOREM ContractOfTrans ==
  ASSUME MaxLate = 0, MaxLost <= 1 \/ Short
  PROVE  Spec => OneStep
<1> DEFINE J == Inv /\ Within /\ (Short => cmd.id # "fgetmore")
<1>0. MaxLost \in Nat /\ (Within => lates = 0 /\ losts <= MaxLost /\ losts \in Nat)
  BY LinkAssumption DEF Within
<1>1. Init => J /\ Contract!Init
  <2> SUFFICES ASSUME Init PROVE J /\ Contract!Init
    OBVIOUS
  <2>1. Within /\ cmd.id # "fgetmore"
    BY LinkAssumption DEF Init, LinkInit, Within, NoCmd
  <2>2. Contract!Init
    BY DEF Init, Contract!Init, NoCall, NoWork, ERR
  <2> QED
    BY <2>1, <2>2, InitIsRight
<1>2. J /\ [Next]_vars => J'
  <2> SUFFICES ASSUME J, [Next]_vars PROVE J'
    OBVIOUS
  <2>1. Inv' /\ Within'
    BY StepIsRight, NextWithin
  <2>2. Short => cmd'.id # "fgetmore"
    BY <1>0, OneBlock
  <2> QED
    BY <2>1, <2>2 DEF Short
<1>3. J /\ J' /\ [Next]_vars => [Contract!Next]_cvars
  <2> SUFFICES ASSUME J, J', [Next]_vars PROVE [Contract!Next]_cvars
    OBVIOUS
  <2>1. lates' = 0 /\ losts' <= MaxLost /\ losts' \in Nat
    BY <1>0, LinkAssumption DEF Within
  <2>2. InTime
    BY <1>0, <2>1 DEF InTime
  <2> QED
    BY <2>2, StepIsRight DEF Promise
<1> HIDE DEF J
<1>5. Spec => Contract!Init /\ [][Contract!Next]_cvars
  BY <1>1, <1>2, <1>3, PTL DEF Spec
<1> QED
  BY <1>5 DEF OneStep, Contract!Spec, cvars
=============================================================================
