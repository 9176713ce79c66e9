------------------------------- MODULE Fields -------------------------------
(***************************************************************************)
(* One record on both sides, over many edits and syncs: the IC35 user and  *)
(* a PIM program edit it, and the sync, export and import commands convert *)
(* it by way of vca_putic35rec() and vca_updic35rec().  Records edited on  *)
(* both sides between two syncs are the subject of SyncFile.               *)
(***************************************************************************)
EXTENDS Convert

CONSTANTS
  Topics,         (* what is edited in a behaviour                         *)
  TypeOf,         (* the type of the record in which it is found           *)
  Progs,          (* calendar programs, with "none"                        *)
  Ic35Input,      (* what the user may enter on the IC35: field values     *)
  PimInput,       (* what a PIM program may write: lists of properties     *)
  MaxEdits        (* bound on edits                                        *)

VARIABLES topic, prog,
          dev,     (* the record in the IC35, as the data it exchanges     *)
          obj,     (* the PIM record                                       *)
          edited,  (* where it was edited after the last sync              *)
          today, edits

vars == <<topic, prog, dev, obj, edited, today, edits>>
Type == TypeOf[topic]

-----------------------------------------------------------------------------
(* What is entered and written.  Strings are lists; a name is a word, the  *)
(* IC35 offers one category at a time, and its subjects are single lines.  *)

IsList(s)   == Len(s) \in Nat /\ s = [i \in 1 .. Len(s) |-> s[i]]
OneLine(s)  == "CR" \notin ToSet(s)
Word(s)     == Len(s) <= 1 /\ " " \notin ToSet(s)
FieldOK(f, s) ==
  /\ IsList(s)
  /\ f = "Subject" => OneLine(s)
  /\ f = "Category" => Len(s) <= 1
  /\ f \in {"FirstName", "LastName"} => Word(s)

(* Lines of a text end in newlines only; the end of a rule is a date, and  *)
(* several categories have a ";" between them.  Of other properties than   *)
(* these two the code uses the first of a name, so a record has one.       *)
Repeated == {"TEL", "EMAIL"}
ValOK(id, s) ==
  /\ IsList(s)
  /\ id \in {"SUMMARY", "NOTE", "DESCRIPTION"} => OneLine(s)
  /\ id = "RRULE" /\ s # <<>> => IsList(s[4])
  /\ id = "CATEGORIES" /\ Len(Parts(s)) > 1 => Contains(s, ";")
SubOK(id, sub) ==
  \A k \in DOMAIN sub : IsList(sub[k]) /\ (id = "N" => Word(sub[k]))
PropOK(p) ==
  DOMAIN p = {"id", "val", "sub"} /\ ValOK(p.id, p.val) /\ SubOK(p.id, p.sub)
Object(ps) ==
  /\ IsList(ps) /\ \A i \in DOMAIN ps : PropOK(ps[i])
  /\ \A i, j \in DOMAIN ps : ps[i].id = ps[j].id /\ ps[i].id \notin Repeated => i = j

ASSUME FieldsAssumption ==
  /\ "none" \in Progs /\ MaxEdits \in Nat
  /\ \A t \in Topics :
       /\ TypeOf[t] \in {"VCARD", "VEVENT", "VTODO", "VMEMO"}
       /\ \A c \in Ic35Input[t] : \A f \in DOMAIN c : FieldOK(f, c[f])
       /\ \A o \in PimInput[t] : Object(o)
-----------------------------------------------------------------------------

Rec       == SetRecData(Type, dev)
Differing == CmpIc35Rec(Type, prog, Rec, obj, today)

AfterPut    == PutIc35Rec(Type, prog, Rec, obj, today)
AfterUpdate == SetRecData(Type, GetRecData(Type, UpdIc35Rec(Type, prog, Rec, obj, today)))

Init ==
  /\ topic \in Topics
  /\ prog \in IF TypeOf[topic] \in {"VEVENT", "VTODO"} THEN Progs ELSE {"none"}
  /\ today = 1 /\ edits = 0
  /\ \/ /\ edited = "ic35" /\ obj = <<>>
        /\ \E c \in Ic35Input[topic] :
             dev = GetRecData(Type, SetFlds(NewIc35Rec(Type), c))
     \/ /\ edited = "pim" /\ obj \in PimInput[topic]
        /\ dev = GetRecData(Type, NewIc35Rec(Type))

Edits(side) == /\ edits < MaxEdits /\ edits' = edits + 1
               /\ edited \in {"none", side} /\ edited' = side
               /\ UNCHANGED <<topic, prog, today>>

Ic35Edits ==
  /\ Edits("ic35")
  /\ \E c \in Ic35Input[topic] : dev' = GetRecData(Type, SetFlds(Rec, c))
  /\ UNCHANGED obj

(* the properties with these names are replaced, the others stay           *)
PimEdits ==
  /\ Edits("pim")
  /\ \E new \in PimInput[topic] :
       obj' = FlattenSeq([j \in DOMAIN obj |->
                IF \E i \in DOMAIN new : new[i].id = obj[j].id THEN <<>> ELSE <<obj[j]>>]) \o new
  /\ UNCHANGED dev

(* sync of a record changed on the IC35, or export                         *)
Put ==
  /\ edited # "pim"
  /\ obj' = AfterPut
  /\ edited' = "none"
  /\ UNCHANGED <<topic, prog, dev, today, edits>>

(* sync of a record changed in the PIM file, or import of one that differs *)
Update ==
  /\ obj # <<>>
  /\ edited = "pim" \/ Differing # {}
  /\ dev' = GetRecData(Type, AfterUpdate)
  /\ edited' = "none"
  /\ UNCHANGED <<topic, prog, obj, today, edits>>

(* of which only the dates of events and to-do records tell               *)
Midnight ==
  /\ Type \in {"VEVENT", "VTODO"}
  /\ edits < MaxEdits /\ edits' = edits + 1
  /\ today = 1 /\ today' = 2
  /\ UNCHANGED <<topic, prog, dev, obj, edited>>

Next == Ic35Edits \/ PimEdits \/ Put \/ Update \/ Midnight
Spec == Init /\ [][Next]_vars

-----------------------------------------------------------------------------
(* What both sides can express.  Outside of it the conversions are not     *)
(* inverse to each other; README.md lists the cases.                       *)

Of(id)    == SelectSeq(obj, LAMBDA p : p.id = id)
Short(s)  == Len(s) <= MaxFld
Fld(f)    == RecFld(Rec, f)

(* marked lines with values, then text that does not begin with a newline  *)
SupportedNote ==
  LET note == StringValue(obj, NoteId(Type))
      n    == NotePropsLen(note, Type)
      text == SubSeq(note, n + 1, Len(note))
  IN /\ text = <<>> \/ text[1] # "NL"
     /\ ToSet(text) \cap NoteMarks(Type) = {}
     /\ \A m \in NoteMarks(Type) :
          Len(SelectSeq(note, LAMBDA t : t = m)) <= 1
     /\ n = 0 \/ note[1] # "NL"
     /\ Short(NotesValue(obj, Type))
     /\ Fld("Notes") = <<>> \/ Fld("Notes")[1] # "CR"

(* several categories only with a standard one on the IC35                 *)
SupportedCategory ==
  \/ Len(Parts(StringValue(obj, "CATEGORIES"))) <= 1
  \/ Type = "VEVENT" \/ prog = "KDE" \/ FirstStd(Fld("Category")) # 0

(* no name removed; one number for each type; emails from the first on, and *)
(* not in front of all other properties                                    *)
SupportedCard ==
  /\ Has(obj, "N") \/ obj = <<>>
  /\ SubValue(obj, "N", "GIVEN") # <<>> => Fld("FirstName") # <<>>
  /\ SubValue(obj, "N", "FAMILY") # <<>> => Fld("LastName") # <<>>
  /\ \A i \in DOMAIN Of("TEL") : Cardinality(DOMAIN Of("TEL")[i].sub) = 1
  /\ \A i, j \in DOMAIN Of("TEL") :
       i # j => DOMAIN Of("TEL")[i].sub # DOMAIN Of("TEL")[j].sub
  /\ Len(Of("EMAIL")) <= 2
  /\ Fld("Email1") = <<>> => Fld("Email2") = <<>> /\ Len(Of("EMAIL")) <= 1
  /\ Len(Of("EMAIL")) = 2 => obj[1].id # "EMAIL"

(* alarms that beep or light, both with KOrganizer; rules with an end      *)
SupportedEvent ==
  /\ Has(obj, "DTEND") \/ obj = <<>>
  /\ Has(obj, "RRULE") => StringValue(obj, "RRULE")[4] # <<>>
  /\ prog = "GNOME" => ~Has(obj, "DESCRIPTION")
  /\ Byte(Rec, "AlarmBefore") # 0 =>
       LET n == Byte(Rec, "Alarm_Repeat") IN
       IF prog = "KDE" THEN ~NoBeep(n) /\ ~NoLED(n) ELSE ~(NoBeep(n) /\ NoLED(n))

Supported ==
  /\ SupportedNote /\ SupportedCategory
  /\ Type = "VCARD" => SupportedCard
  /\ Type = "VEVENT" => SupportedEvent

Exported == edited # "pim"

(* Data for the IC35 is as long as its length bytes say and no field is    *)
(* longer than the IC35 allows; texts of PIM records have no carriage      *)
(* returns, and only telephone numbers and emails occur more than once.    *)
TypeOK ==
  /\ topic \in Topics /\ prog \in Progs
  /\ edited \in {"none", "ic35", "pim"} /\ today \in 1 .. 2 /\ edits \in 0 .. MaxEdits
  /\ DOMAIN dev.lens = DOMAIN FldsOf(Type)
  /\ \A i \in DOMAIN dev.lens : dev.lens[i] \in 0 .. MaxFld
  /\ Len(dev.body) = Last(Offsets(dev.lens))
  /\ \A i \in DOMAIN obj :
       /\ obj[i].id \in {"SUMMARY", "NOTE", "DESCRIPTION"} => ~Contains(obj[i].val, "CR")
       /\ obj[i].id \notin Repeated => \A j \in DOMAIN obj : obj[j].id = obj[i].id => j = i

(* A PIM record written from an IC35 record equals it: the next import     *)
(* finds no difference (ic35rec to vobject and back, vca_cmpic35rec), even *)
(* when a PIM program's properties were there before.                      *)
PutGet == Exported /\ Supported => CmpIc35Rec(Type, prog, Rec, AfterPut, today) = {}

(* Writing the same IC35 record again, at another time, changes nothing:   *)
(* neither the properties nor their order nor the time of modification,    *)
(* so that an export does not let all records look modified.               *)
SamePut(once) == once # <<>> => PutIc35Rec(Type, prog, Rec, once, 3) = once
PutTwice == Exported /\ Supported => SamePut(AfterPut)

(* An IC35 record updated from a PIM record, sent to the IC35 and read     *)
(* back, equals the PIM record: the update is not repeated by the next     *)
(* import.                                                                 *)
UpdateSettles ==
  obj # <<>> /\ Supported => CmpIc35Rec(Type, prog, AfterUpdate, obj, today) = {}

(* What the IC35 cannot hold survives its records: a photo, the further    *)
(* categories, the unit of an organisation.                                *)
OtherCategories(cats) ==
  IF FirstStd(cats) = 0 THEN ToSet(cats) ELSE ToSet(cats) \ {cats[FirstStd(cats)]}
KeepsForeign(put, cats) ==
  /\ StringValue(put, "PHOTO") = StringValue(obj, "PHOTO")
  /\ Len(cats) > 1 => OtherCategories(cats) \subseteq ToSet(StringValue(put, "CATEGORIES"))
  /\ Type = "VCARD" /\ Fld("Company") # <<>> =>
       SubValue(put, "ORG", "UNIT") = SubValue(obj, "ORG", "UNIT")
ForeignKept ==
  Exported /\ Supported => KeepsForeign(AfterPut, Parts(StringValue(obj, "CATEGORIES")))

(* A full name made of both names stays so when they are changed, if the   *)
(* two were different.                                                     *)
NamesInFull ==
  LET fn    == StringValue(obj, "FN")
      first == SubValue(obj, "N", "GIVEN")
      last  == SubValue(obj, "N", "FAMILY")
      whole == first \o <<" ">> \o last
  IN /\ Exported /\ Type = "VCARD"
     /\ fn = whole /\ first # <<>> /\ last # <<>> /\ first # last
     /\ Fld("FirstName") # <<>> /\ Fld("LastName") # <<>>
     => StringValue(AfterPut, "FN") = Fld("FirstName") \o <<" ">> \o Fld("LastName")
=============================================================================
