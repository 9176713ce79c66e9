------------------------------- MODULE VcaConv -------------------------------
(***************************************************************************)
(* vcaconv (vcaconv.c): it sorts a vCard,vCalendar file, makes cards for a *)
(* mobile phone, or copies all records of a PIM file to one of another     *)
(* format.                                                                 *)
(*                                                                         *)
(* An object of a vCard,vCalendar file has an address n, a type t, its     *)
(* properties ps and, in a calendar, the objects its; other properties of  *)
(* the calendar have the type "".  A record that is converted is known by  *)
(* its file, its record-ID and the n of what it was made from.             *)
(***************************************************************************)
EXTENDS VObj, Integers

CONSTANTS
  VFiles,         (* lists of objects to sort                              *)
  HFiles,         (* lists of cards to make cards for a mobile phone from  *)
  CFiles          (* lists of records to convert                           *)

VARIABLES
  vcmd,           (* the conversion, and then "done"                       *)
  vjob,           (* the conversion that was asked for                     *)
  vgiven,         (* the list read                                         *)
  vlist,          (* the list that is written in the end                   *)
  vtab,           (* sort: addresses yet to be moved; convert: what is to  *)
                  (* be got from the input                                 *)
  vat,            (* imphandy: address of the object looked at, 0 at end   *)
  vhandy          (* imphandy: cards made                                  *)
vvars == <<vcmd, vjob, vgiven, vlist, vtab, vat, vhandy>>

(* Records have a file, a record-ID, which is zero until they have been on *)
(* an IC35, and of their own there, and are told apart by n.               *)
ASSUME RecordsAssumption ==
  \A rs \in CFiles :
    /\ rs \in Seq(ToSet(rs))
    /\ \A i, j \in DOMAIN rs :
         /\ rs[i].n = rs[j].n => i = j
         /\ rs[i].rid # 0 /\ rs[i].rid = rs[j].rid /\ rs[i].file = rs[j].file => i = j

At(os, n) == SelectInSeq(os, LAMBDA o : o.n = n)

-----------------------------------------------------------------------------
(* sortvca                                                                 *)

TypeNo(t) == CASE t = "VCARD" -> 1 [] t = "VMEMO" -> 2 [] t = "VCAL" -> 3
               [] t = "VEVENT" -> 4 [] t = "VTODO" -> 5 [] OTHER -> 0
Num(s)     == IF s = <<>> THEN -1 ELSE s[1]
Key(o, id) == Num(StringValue(o.ps, id))
(* what is missing comes first, but no record-ID is -1, compared unsigned  *)
Is(b) == IF b THEN 1 ELSE 0
Keys(o) ==
  <<TypeNo(o.t)>> \o
  (CASE o.t = "VCARD"  -> <<Is(Has(o.ps, "N")), Num(SubValue(o.ps, "N", "FAMILY")),
                            Num(SubValue(o.ps, "N", "GIVEN")), Key(o, "REV")>>
     [] o.t = "VMEMO"  -> <<Key(o, "SUMMARY"), Key(o, "LAST-MODIFIED")>>
     [] o.t = "VEVENT" -> <<Key(o, "DTSTART"), Key(o, "SUMMARY"), Key(o, "LAST-MODIFIED")>>
     [] o.t = "VTODO"  -> <<Key(o, "DUE"), Key(o, "SUMMARY"), Key(o, "LAST-MODIFIED")>>
     [] o.t = "VCAL"   -> <<Key(o, "VERSION"), Key(o, "PRODID")>>
     [] OTHER          -> <<>>)
  \o (IF o.t = "VCAL" THEN <<>> ELSE <<Is(~Has(o.ps, "X-PILOTID")), Key(o, "X-PILOTID"), Key(o, "UID")>>)
Less(j, k) == \E i \in DOMAIN j : /\ \A h \in 1 .. i - 1 : j[h] = k[h]
                                  /\ j[i] < k[i]
CompareVobj(p, q) == Less(Keys(p), Keys(q))

(* first the properties people read, last the ones of synchronisation      *)
PropSeq == << <<"N", "DTSTART", "DTEND", "DUE", "SUMMARY", "DESCRIPTION">>,
              <<"CATEGORIES", "DCREATED", "LAST-MODIFIED", "REV", "UID",
                "X-PILOTID", "X-PILOTSTAT">> >>
PropidSeq(id) ==
  CASE id \in ToSet(PropSeq[1]) -> SelectInSeq(PropSeq[1], LAMBDA x : x = id) - 7
    [] id \in ToSet(PropSeq[2]) -> SelectInSeq(PropSeq[2], LAMBDA x : x = id)
    [] OTHER                    -> 0
(* between these the others, by their names                                *)
Alphabet == <<"AALARM", "ADR", "BDAY", "CLASS", "COMPLETED", "DALARM", "EMAIL", "FN", "NOTE",
              "ORG", "PRIORITY", "PRODID", "RRULE", "STATUS", "TEL", "TITLE", "URL", "VERSION">>
PropOrder(p) == <<PropidSeq(p.id), SelectInSeq(Alphabet, LAMBDA x : x = p.id), Num(p.val)>>
CompareProps(p, q) == Less(PropOrder(p), PropOrder(q))

(* every property is taken out and put at the end, in sorted order         *)
VobjSort(o) == [o EXCEPT !.ps = SortSeq(@, CompareProps)]

Objects(os) == FlattenSeq([i \in DOMAIN os |-> <<os[i]>> \o os[i].its])
Vcal        == SelectInSeq(vgiven, LAMBDA o : o.t = "VCAL")

StartSort(os) ==
  LET sorted == SortSeq(Objects(os), CompareVobj)
  IN vtab' = [i \in DOMAIN sorted |-> sorted[i].n]

MoveAdded(os, i, o) == Append(os, o)           \* mutant: not taken out
Move(os, i, o)      == Append(DelList(os, i), o)
Object(n) == LET os == Objects(vlist) IN os[At(os, n)]

(* a card or memo, sorted, or a calendar goes to the end of the list; an   *)
(* event to the end of the first calendar, if it is in that                *)
MoveObject(o) ==
  LET c == At(vlist, vgiven[Vcal].n) IN
  CASE o.t \in {"VCARD", "VMEMO"} -> Append(RemoveAt(vlist, At(vlist, o.n)), VobjSort(o))
    [] o.t = "VCAL" -> Append(RemoveAt(vlist, At(vlist, o.n)), o)
    [] o.t \in {"VEVENT", "VTODO"} /\ At(vlist[c].its, o.n) # 0
         -> [vlist EXCEPT ![c].its = Move(@, At(@, o.n), VobjSort(o))]
    [] o.t \in {"VEVENT", "VTODO"} /\ At(vlist[c].its, o.n) = 0
         -> [i \in DOMAIN vlist |->
              [vlist[i] EXCEPT !.its =
                 [k \in DOMAIN @ |-> IF @[k].n = o.n THEN VobjSort(o) ELSE @[k]]]]
    [] OTHER -> vlist

Sort ==
  /\ vcmd = "sortvca" /\ vtab # <<>>
  /\ vlist' = MoveObject(Object(Head(vtab)))
  /\ vtab' = Tail(vtab)
  /\ UNCHANGED <<vcmd, vjob, vgiven, vat, vhandy>>

-----------------------------------------------------------------------------
(* imphandy                                                                *)

HasCategory(o, c) == c \in ToSet(StringValue(o.ps, "CATEGORIES"))
NameValue(o, part) ==
  LET name == SubValue(o.ps, "N", part)
      fam  == SubValue(o.ps, "N", "FAMILY")
  IN CASE name # <<>> -> name
       [] name = <<>> /\ fam # <<>> -> fam
       [] OTHER -> SubValue(o.ps, "N", "GIVEN")

(* the first number of that type, the first preferred one, or the first    *)
(* without type                                                            *)
TelnoFound(o, type) ==
  LET pref == TelWith(o.ps, "PREF")
      dflt == SelectInSeq(o.ps, LAMBDA p : p.id = "TEL" /\ p.sub = NoSub)
      i    == CASE TelWith(o.ps, type) # 0 -> TelWith(o.ps, type)
                [] TelWith(o.ps, type) = 0 /\ pref # 0 -> pref
                [] OTHER -> dflt
  IN IF i = 0 THEN <<>> ELSE o.ps[i].val

(* All but the separators moves to the front, where no NUL is put after    *)
(* it: the number stays as long as it was, and ends as it did.             *)
Digits    == {ToString(d) : d \in 0 .. 9}
Dialled(tel) == {k \in DOMAIN tel : (k = 1 /\ tel[k] = "+") \/ tel[k] \in Digits}
Place(tel, k) == Cardinality({j \in Dialled(tel) : j <= k})
TelnoValue(o, type) ==
  LET tel == TelnoFound(o, type) IN
  [i \in DOMAIN tel |-> IF \E k \in Dialled(tel) : Place(tel, k) = i
                        THEN tel[CHOOSE k \in Dialled(tel) : Place(tel, k) = i] ELSE tel[i]]

MaxName   == 18
MaxSuffix == 4
CutTo(s, n) == SubSeq(s, 1, IF Len(s) < n THEN Len(s) ELSE n)
HandyNameUncut(name, suffix) == CutTo(name \o suffix, MaxName)  \* mutant
HandyName(name, suffix) ==
  IF suffix = <<>> THEN CutTo(name, MaxName)
  ELSE CutTo(CutTo(name, MaxName - MaxSuffix) \o suffix, MaxName)

NewHandyCard(n, name, suffix, tel) ==
  [n |-> n, t |-> "VCARD", its |-> <<>>,
   ps |-> << Prop("N", <<>>, [FAMILY |-> HandyName(name, suffix)]),
             Prop("TEL", tel, [CELL |-> <<>>]),
             Prop("CATEGORIES", <<"HANDY">>, NoSub) >>]

(* which numbers a card has, and what is appended to the name for each;    *)
(* but the first, only numbers that differ from the first                  *)
Mobile == <<"-", "m", "o", "b", "i", "l">>
Wanted(o) ==
  CASE HasCategory(o, "S35SIM")   -> << <<"CELL", <<>> >> >>
    [] ~HasCategory(o, "S35SIM") /\ HasCategory(o, "Personal")
       -> << <<"HOME", <<"!">> >>, <<"WORK", <<"-", "B", "u", "e", "r", "o", "!">> >>,
             <<"CELL", Mobile \o <<"!">> >> >>
    [] OTHER -> << <<"WORK", <<>> >>, <<"HOME", <<"-", "p", "r", "i", "v">> >>,
                   <<"CELL", Mobile>> >>
NamePart(o) ==
  IF HasCategory(o, "S35SIM") \/ HasCategory(o, "Personal") THEN "GIVEN" ELSE "FAMILY"
HandyCards(o) ==
  LET w    == Wanted(o)
      name == NameValue(o, NamePart(o))
      tel  == [i \in DOMAIN w |-> TelnoValue(o, w[i][1])]
  IN FlattenSeq([i \in DOMAIN w |->
       IF name = <<>> \/ tel[i] = <<>> \/ (i > 1 /\ tel[i] = tel[1]) THEN <<>>
       ELSE <<NewHandyCard(10 * o.n + i, name, w[i][2], tel[i])>>])

(* Objects have addresses, cards a name, and what is no card has no number. *)
(* Numbers are strings.                                                    *)
(* Cut where a suffix goes, no name goes on like one: cut at the end it is  *)
(* then none that was cut for a suffix.                                     *)
PlainCard(o) ==
  LET name == NameValue(o, NamePart(o)) IN
  /\ o.n \in Nat \ {0}
  /\ o.t = "VCARD" =>
       /\ name # <<>> /\ name \in Seq(ToSet(name))
       /\ Len(name) > MaxName - MaxSuffix => name[MaxName - MaxSuffix + 1] # "-"
  /\ o.t # "VCARD" => \A i \in 1 .. Len(o.ps) : o.ps[i].id # "TEL"
  /\ o.ps \in Seq(ToSet(o.ps))
  /\ \A p \in ToSet(o.ps) : p.id = "TEL" => p.val \in Seq(ToSet(p.val))
ASSUME CardsAssumption ==
  \A os \in HFiles :
    /\ os \in Seq(ToSet(os))
    /\ \A i \in DOMAIN os : PlainCard(os[i])
    /\ \A i, j \in DOMAIN os : os[i].n = os[j].n => i = j

(* delList unlinks the card, so that no object follows it                  *)
Following(n) == LET i == At(vlist, n) IN IF i = Len(vlist) THEN 0 ELSE vlist[i + 1].n
ImpHandy ==
  /\ vcmd = "imphandy" /\ vat # 0
  /\ LET i == At(vlist, vat)
         o == vlist[i]
     IN \/ /\ o.t = "VCARD" /\ HasCategory(o, "HANDY")
           /\ vlist' = RemoveAt(vlist, i) /\ vat' = 0
           /\ UNCHANGED vhandy
        \/ /\ o.t # "VCARD" \/ (~HasCategory(o, "HANDY") /\ HasCategory(o, "NOTHANDY"))
           /\ vat' = Following(vat)
           /\ UNCHANGED <<vlist, vhandy>>
        \/ /\ o.t = "VCARD" /\ ~HasCategory(o, "HANDY") /\ ~HasCategory(o, "NOTHANDY")
           /\ vhandy' = vhandy \o HandyCards(o)
           /\ vat' = Following(vat)
           /\ UNCHANGED vlist
  /\ UNCHANGED <<vcmd, vjob, vgiven, vtab>>

-----------------------------------------------------------------------------
(* vca2bin and bin2vca: each record got is put to the output               *)

(* in binary format a new record, without record-ID, is never found, in    *)
(* vCard format by the ID that is only the file                            *)
BinGetrecAny(r) == SelectInSeq(vlist, LAMBDA o : o.rid = r.rid)  \* mutant
BinGetrecByID(r) ==
  SelectInSeq(vlist, LAMBDA o : r.rid # 0 /\ o.file = r.file /\ o.rid = r.rid)
VcaGetrecByID(r) == SelectInSeq(vlist, LAMBDA o : o.file = r.file /\ o.rid = r.rid)

BinPutrec(r) ==
  LET i    == BinGetrecByID(r)
      last == SelectLastInSeq(vlist, LAMBDA o : o.file = r.file)
  IN IF i # 0 THEN [vlist EXCEPT ![i] = r]
     ELSE InsertAt(vlist, IF last = 0 THEN Len(vlist) + 1 ELSE last + 1, r)
VcaPutrec(r) ==
  LET i == VcaGetrecByID(r) IN
  IF i # 0 THEN [vlist EXCEPT ![i] = r] ELSE Append(vlist, r)

Convert ==
  /\ vcmd \in {"vca2bin", "bin2vca"} /\ vtab # <<>>
  /\ vlist' = IF vcmd = "vca2bin" THEN BinPutrec(Head(vtab)) ELSE VcaPutrec(Head(vtab))
  /\ vtab' = Tail(vtab)
  /\ UNCHANGED <<vcmd, vjob, vgiven, vat, vhandy>>

-----------------------------------------------------------------------------
NoJob == /\ vcmd = "none" /\ vjob = "none" /\ vgiven = <<>> /\ vlist = <<>>
         /\ vtab = <<>> /\ vat = 0 /\ vhandy = <<>>

Start ==
  /\ vcmd = "none" /\ UNCHANGED vhandy
  /\ \/ /\ vcmd' = "sortvca"
        /\ \E os \in VFiles : /\ vgiven' = os /\ vlist' = os
                              /\ StartSort(os)
        /\ UNCHANGED vat
     \/ /\ vcmd' = "imphandy"
        /\ \E os \in HFiles : /\ vgiven' = os /\ vlist' = os
                              /\ vat' = IF os = <<>> THEN 0 ELSE os[1].n
        /\ UNCHANGED vtab
     \/ /\ vcmd' \in {"vca2bin", "bin2vca"}
        /\ \E rs \in CFiles : vgiven' = rs /\ vtab' = rs /\ vlist' = <<>>
        /\ UNCHANGED vat
  /\ vjob' = vcmd'

Finish ==
  /\ vcmd \notin {"none", "done"} /\ vtab = <<>> /\ vat = 0
  /\ vlist' = vlist \o vhandy
  /\ vcmd' = "done"
  /\ UNCHANGED <<vjob, vgiven, vtab, vat, vhandy>>

ConvNext == Start \/ Sort \/ ImpHandy \/ Convert \/ Finish
ConvSpec == NoJob /\ [][ConvNext]_vvars

-----------------------------------------------------------------------------
Ended(job)  == vcmd = "done" /\ vjob = job
InOrder(os) == \A i \in 1 .. Len(os) - 1 : ~CompareVobj(os[i + 1], os[i])
Dated(os)   == SelectSeq(os, LAMBDA o : o.t \in {"VEVENT", "VTODO"})
Content(os) == [n \in {o.n : o \in ToSet(os)} |-> ToSet(os[At(os, n)].ps)]

(* sortvca writes every object it read once, with all its properties: the  *)
(* list in order, the first calendar's events and to-dos in order, and the *)
(* properties of cards and memos in order.                                 *)
SortedWhole ==
  Ended("sortvca") =>
    /\ Len(Objects(vlist)) = Len(Objects(vgiven))
    /\ Content(Objects(vlist)) = Content(Objects(vgiven))
    /\ InOrder(vlist)
    /\ Vcal # 0 => InOrder(Dated(vlist[At(vlist, vgiven[Vcal].n)].its))
    /\ \A o \in ToSet(vlist) : o.t \in {"VCARD", "VMEMO"} =>
         \A i \in 1 .. Len(o.ps) - 1 : ~CompareProps(o.ps[i + 1], o.ps[i])

(* A card's number is made from the one found: it starts with all that is  *)
(* no separator, in order, and is the number found if that has none.       *)
MadeFrom(tel, s) ==
  /\ DOMAIN s = DOMAIN tel
  /\ \A k \in Dialled(tel) : s[Place(tel, k)] = tel[k]
  /\ Dialled(tel) = DOMAIN tel => s = tel

(* imphandy keeps the cards it read.  When it read none for a mobile phone *)
(* each card that may go there has one for every number it has of the      *)
(* types wanted, made from it, and no others; these have different names   *)
(* even when those are cut.                                                *)
HandyMade ==
  Ended("imphandy") =>
    LET made == ToSet(vhandy) IN
    \/ \E o \in ToSet(vgiven) : HasCategory(o, "HANDY")
    \/ /\ ToSet(vgiven) \subseteq ToSet(vlist)
       /\ \A o \in ToSet(vgiven) :
            LET own  == {c \in made : c.n \div 10 = o.n}
                tels == IF HasCategory(o, "NOTHANDY") THEN {}
                        ELSE {TelnoFound(o, w[1]) : w \in ToSet(Wanted(o))} \ {<<>>}
            IN /\ \A t \in tels : \E c \in own : MadeFrom(t, StringValue(c.ps, "TEL"))
               /\ \A c \in own : \E t \in tels : MadeFrom(t, StringValue(c.ps, "TEL"))
               /\ \A c, d \in own : c # d => SubValue(c.ps, "N", "FAMILY")
                                               # SubValue(d.ps, "N", "FAMILY")

(* Every record read is written once; to vCard format, when all have been  *)
(* on an IC35 and so have a record-ID.                                     *)
ConvertedOnce ==
  \/ Ended("vca2bin")
  \/ Ended("bin2vca") /\ \A r \in ToSet(vgiven) : r.rid # 0
  => IsInjective(vlist) /\ ToSet(vlist) = ToSet(vgiven)
=============================================================================
