------------------------------- MODULE SyncLink -------------------------------
(***************************************************************************)
(* Level 1 of the synchronize protocol (synproto.c): a command goes to the *)
(* IC35 in a PDU of its own, after an init PDU, and its response is asked  *)
(* for with another one.  Nothing on the line is numbered, and the receive *)
(* buffer is never flushed: an answer that comes after the time-out is     *)
(* what the next com_recv reads.                                           *)
(*                                                                         *)
(* The line holds what the IC35 has sent and the program has not yet read, *)
(* in units: an acknowledge, the id of a data PDU, and the rest of that    *)
(* PDU, its body.  "bytes" is what is left of a body whose id was read for *)
(* something else: its bytes can have the values of ids too.               *)
(***************************************************************************)
EXTENDS Naturals, SequencesExt

CONSTANTS
  TextBytes,  (* what a byte of a body read on its own may be taken for    *)
  MaxLost,    (* bound on PDUs lost or garbled, in either direction        *)
  MaxLate     (* bound on answers that come after the time-out             *)

ASSUME LinkAssumption ==
  /\ TextBytes \subseteq {"L1ACK0", "L1ACK1", "L1DATA", "other"}
  /\ MaxLost \in Nat /\ MaxLate \in Nat

VARIABLES
  line,          (* units on their way from the IC35 to com_recv           *)
  losts, lates   (* how often the bounded events happened                  *)

linkvars == <<line, losts, lates>>

NoRsp     == [kind |-> "none"]
Unit(b)   == [b |-> b, rsp |-> NoRsp]
Ack(id)   == <<Unit(id)>>
Data(rsp) == <<Unit("L1DATA"), [b |-> "body", rsp |-> rsp]>>

(* a body whose id is gone is only bytes                                   *)
Loose(l) == IF l # <<>> /\ Head(l).b = "body" THEN <<Unit("bytes")>> \o Tail(l) ELSE l

(* L1recv(&rid, NULL, 0): one byte.  The id of a data PDU is not followed  *)
(* by reading the rest; of loose bytes one is read, perhaps the last.      *)
Recv1(l) ==
  CASE l = <<>>            -> [rid : {"none"}, rest : {l}]
    [] l # <<>> /\ Head(l).b = "bytes" ->
         [rid : TextBytes, rest : {l, Tail(l)}]
    [] OTHER               -> [rid : {Head(l).b}, rest : {Loose(Tail(l))}]

(* L1recv(&rid, pdu, blen): id, length, data and checksum.  Loose bytes    *)
(* that look like a data PDU make it read what their length says, and      *)
(* their checksum does not match.                                          *)
RecvPdu(l) ==
  CASE l = <<>>             -> [rsp : {NoRsp}, rest : {l}]
    [] l # <<>> /\ Head(l).b = "bytes"  ->
         [rsp : {NoRsp}, rest : {l} \cup {Loose(SubSeq(l, i + 1, Len(l))) : i \in DOMAIN l}]
    [] l # <<>> /\ Head(l).b = "L1DATA" ->
         [rsp : {l[2].rsp}, rest : {SubSeq(l, 3, Len(l))}]
    [] OTHER                -> [rsp : {NoRsp}, rest : {Loose(Tail(l))}]

(* The program sends a PDU; when it arrives the IC35 sends an answer.      *)
(* Either may be lost, or the answer not match its checksum.               *)
Spoilt(answer) == [answer EXCEPT ![Len(answer)] =
                     IF @.b = "body" THEN [@ EXCEPT !.rsp = NoRsp] ELSE Unit("other")]
L1send(answer) ==
  [now : {line \o answer}, lost : {0}, arrived : {TRUE}] \cup
  IF losts = MaxLost THEN {} ELSE
    [now : {line}, lost : {1}, arrived : {FALSE}] \cup
    IF answer = <<>> THEN {} ELSE
      [now : {line, line \o Spoilt(answer)}, lost : {1}, arrived : {TRUE}]

(* com_recv gets what is there, or its time runs out before that comes     *)
L1recv(sent, there, nothing) ==
  {[got |-> r, rest |-> r.rest, late |-> 0] : r \in there} \cup
  IF sent.now = <<>> \/ lates = MaxLate THEN {}
  ELSE {[got |-> r, rest |-> sent.now, late |-> 1] : r \in nothing}

Transfer(sent, recv) ==
  /\ line'  = recv.rest
  /\ losts' = losts + sent.lost
  /\ lates' = lates + recv.late

LinkInit == line = <<>> /\ losts = 0 /\ lates = 0
=============================================================================
