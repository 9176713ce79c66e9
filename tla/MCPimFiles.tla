----------------------------- MODULE MCPimFiles -----------------------------
(* A small instance of PimFiles: one or two records per file before the    *)
(* first run, one new record of each type.  Or vcaconv runs, on its own.   *)
EXTENDS PimFiles, VcaConv, FiniteSetsExt

Card(n)  == Rec("VCARD", n)
Event(n) == Rec("VEVENT", n)
Memo(n)  == Rec("VMEMO", n)

AllFormats == {"vca", "bin", "txt"}
OnlyVca    == {"vca"}
OneOrAll   == {{"addr"}, {"addr", "vcal", "memo"}}
NoMemo     == {{"addr", "vcal"}}
SomeRecs   == {Card(3), Event(3), Memo(3)}

Files(a, v, m) ==
  [k \in Kinds |-> LET os == CASE k = "addr" -> a [] k = "vcal" -> v [] OTHER -> m IN
                   IF os = <<>> THEN Absent ELSE File(os, TRUE)]
SomeFiles ==
  { Files(<<>>, <<>>, <<>>),
    Files(<<Card(1), Memo(1)>>, <<>>, <<>>),
    Files(<<Card(1), Calendar(<<Event(1), Event(2)>>), Memo(1)>>, <<>>, <<>>),
    Files(<<Card(1), Card(2)>>, <<Calendar(<<Event(1)>>)>>, <<Memo(1)>>),
    Files(<<Card(1)>>, <<>>, <<Memo(1), Memo(2)>>) }

ASSUME CalendarsFound

-----------------------------------------------------------------------------
(* files for vcaconv                                                       *)

Obj(n, t, ps) == [n |-> n, t |-> t, ps |-> ps, its |-> <<>>]
Val(id, k)    == Prop(id, <<k>>, NoSub)
VCard(n, fam, giv, rev) ==
  Obj(n, "VCARD", <<Val("REV", rev), Prop("TEL", <<n>>, NoSub),
                    Prop("N", <<>>, ("FAMILY" :> <<fam>>) @@ ("GIVEN" :> <<giv>>))>>)
Dates(n, t, id, start, sum) == Obj(n, t, <<Val("UID", n), Val("SUMMARY", sum), Val(id, start)>>)
Vc(n, prod, its) ==
  [Obj(n, "VCAL", <<>>) EXCEPT !.its = <<Obj(n + 1, "", <<Val("PRODID", prod)>>)>> \o its,
                               !.ps = <<Val("PRODID", prod), Val("VERSION", 1)>>]
SortFiles ==
  LET third  == [VCard(3, 1, 1, 1) EXCEPT !.ps = @ \o <<Val("X-PILOTID", 7), Val("ORG", 1)>>]
      cards  == {VCard(1, 1, 1, 1), VCard(2, 1, 2, 0), third}
      dates  == {Dates(11, "VEVENT", "DTSTART", 2, 1), Dates(12, "VEVENT", "DTSTART", 1, 2),
                 Dates(13, "VTODO", "DUE", 0, 3)}
      memos  == {Obj(4, "VMEMO", <<Val("SUMMARY", 1)>>)}
      second == Vc(30, 1, <<Dates(32, "VEVENT", "DTSTART", 1, 1)>>)
  IN UNION {SetToSeqs(cs \cup memos \cup {Vc(20, 2, d)} \cup s) :
              cs \in kSubset(2, cards), d \in SetToSeqs(dates), s \in {{}, {second}}}

Number(k)  == <<"0", "/", ToString(k)>>
Tel(k, ts) == Prop("TEL", Number(k), [t \in ts |-> <<>>])
Plain(k, ts) == Prop("TEL", <<"0", "1", ToString(k)>>, [t \in ts |-> <<>>])
LongName   == [i \in 1 .. 20 |-> "x"]
Phone(n, name, cats, tels) ==
  Obj(n, "VCARD", <<Prop("N", <<>>, "FAMILY" :> name), Prop("CATEGORIES", cats, NoSub)>> \o tels)
TelLists ==
  {<<Tel(1, {"WORK"}), Tel(2, {"HOME"}), Tel(3, {"CELL"})>>,
   <<Tel(1, {"WORK"}), Tel(1, {"HOME"}), Tel(2, {"WORK"})>>,
   <<Tel(1, {"WORK"}), Plain(1, {"HOME"}), Plain(2, {"CELL"})>>,
   <<Tel(1, {}), Tel(2, {"CELL"})>>, <<Tel(1, {"PREF", "FAX"}), Tel(2, {"HOME"})>>}
PhoneFiles ==
  {<<Phone(1, nm, c, ts), Phone(2, <<"B">>, d, us)>> :
     nm \in {<<"A">>, LongName}, ts, us \in TelLists,
     c \in {<<"Personal">>, <<"Business">>, <<"S35SIM">>},
     d \in {<<"Business">>, <<"NOTHANDY">>, <<>>}}
HandyFiles == PhoneFiles \cup {<<Phone(3, <<"C">>, <<"HANDY">>, <<Tel(3, {"CELL"})>>)>> \o f : f \in PhoneFiles}

RecOf(n, f, id) == [n |-> n, file |-> f, rid |-> id]
ConvFiles ==
  LET recs == {RecOf(n, f, id) : n \in 1 .. 4, f \in {"addr", "memo"}, id \in 0 .. 2}
  IN {rs \in UNION {[1 .. k -> recs] : k \in 0 .. 3} :
        /\ \A i \in DOMAIN rs : rs[i].n = i
        /\ \A i, j \in DOMAIN rs : i # j /\ rs[i].rid # 0
                                    => <<rs[i].file, rs[i].rid>> # <<rs[j].file, rs[j].rid>>}

EitherInit == Init /\ NoJob
EitherNext ==
  \/ vcmd = "none" /\ Next /\ UNCHANGED vvars
  \/ fmt = "txt" /\ runs = 0 /\ ~main["addr"].there /\ ConvNext /\ UNCHANGED pvars
EitherSpec == EitherInit /\ [][EitherNext]_<<pvars, vvars>>
=============================================================================
