------------------------------ MODULE Ic35Rec -------------------------------
(***************************************************************************)
(* IC35 records: ic35frec.c.  A record in memory has for each field the    *)
(* string that reading the field returns and the length that is sent to    *)
(* the IC35.  The two differ after the field was set to an empty string:   *)
(* set_ic35recfld() then changes the length only.                          *)
(***************************************************************************)
EXTENDS Naturals, Sequences, SequencesExt

CONSTANTS MaxFld,      (* greatest length of a field, 255 in the code       *)
          Strange      (* the seconds ':' or '<' in times set on the IC35   *)

ASSUME MaxFldAssumption == MaxFld \in Nat \ {0}

(* the fields by file, in the order of their indices                       *)
AddrFlds == <<"LastName", "FirstName", "Company", "TelHome", "TelWork",
  "TelMobile", "TelFax", "Street", "City", "ZIP", "Region", "Country",
  "Email1", "Email2", "URL", "BirthDate", "Notes", "CategoryID", "Def1",
  "Def2", "Category">>
SchedFlds == <<"Subject", "StartDate", "StartTime", "EndTime", "AlarmBefore",
  "Notes", "Alarm_Repeat", "EndDate", "RepEndDate", "RepCount">>
TodoFlds == <<"StartDate", "EndDate", "Completed", "Priority", "Subject",
  "Notes", "CategoryID", "Category">>
MemoFlds == <<"Subject", "Notes", "CategoryID", "Category">>

FldsOf(type) == CASE type = "VCARD" -> AddrFlds [] type = "VEVENT" -> SchedFlds
                  [] type = "VTODO" -> TodoFlds [] type = "VMEMO" -> MemoFlds
ByteFlds == {"CategoryID", "AlarmBefore", "Alarm_Repeat", "RepCount",
             "Completed", "Priority"}

Fields(type)    == ToSet(FldsOf(type))
NewIc35Rec(type) == [f \in Fields(type) |-> [len |-> 0, str |-> <<>>]]

SetFldUncut(fld, s) ==                 \* mutant: no greatest length
  IF s = <<>> THEN [fld EXCEPT !.len = 0] ELSE [len |-> Len(s), str |-> s]
(* an empty value leaves the old string behind; longer ones are cut        *)
SetFld(fld, s) ==
  LET n == IF Len(s) > MaxFld THEN MaxFld ELSE Len(s) IN
  IF n = 0 THEN [fld EXCEPT !.len = 0] ELSE [len |-> n, str |-> SubSeq(s, 1, n)]
SetFlds(rec, new) ==
  [f \in DOMAIN rec |-> IF f \in DOMAIN new THEN SetFld(rec[f], new[f]) ELSE rec[f]]
RecFld(rec, f) == rec[f].str
Byte(rec, f)   == IF rec[f].str = <<>> THEN 0 ELSE rec[f].str[1]

-----------------------------------------------------------------------------
(* The data exchanged with the IC35: the lengths of all fields, then their *)
(* contents.                                                               *)

(* where the fields begin, and the end of the last one                     *)
Offsets(lens) ==
  LET end[i \in 0 .. Len(lens)] == IF i = 0 THEN 0 ELSE end[i - 1] + lens[i]
  IN [i \in 1 .. Len(lens) + 1 |-> end[i - 1]]
Index(flds, f) == SelectInSeq(flds, LAMBDA g : g = f)

GetRecData(type, rec) ==
  LET flds == FldsOf(type) IN
  [lens |-> [i \in DOMAIN flds |-> rec[flds[i]].len],
   body |-> FlattenSeq([i \in DOMAIN flds |->
              SubSeq(rec[flds[i]].str, 1, rec[flds[i]].len)])]

SetRecData(type, data) ==
  LET at == Offsets(data.lens) IN
  [f \in Fields(type) |->
     LET i == Index(FldsOf(type), f) IN
     [len |-> data.lens[i], str |-> SubSeq(data.body, at[i] + 1, at[i + 1])]]

-----------------------------------------------------------------------------
(* cmp_ic35rec: the differing fields of the IC35's record and of the one   *)
(* made from the PIM record, without those it ignores                      *)

Repeat(n)  == n % 16
NoBeep(n)  == (n \div 64) % 2 = 1
NoLED(n)   == n \div 128 = 1

SameString(x, y, f) ==
  IF f \in ByteFlds THEN Byte(x, f) = Byte(y, f) ELSE RecFld(x, f) = RecFld(y, f)

(* a time with strange seconds counts as one with seconds 00               *)
Plain(s) == IF Len(s) = 2 /\ s[2] = Strange THEN <<s[1], 0>> ELSE s

Ignored(ic35, pim, f) ==
  \/ f = "CategoryID"
  \/ f \in {"StartTime", "EndTime"} /\ Plain(RecFld(ic35, f)) = RecFld(pim, f)
  \/ f \in {"RepEndDate", "RepCount"} /\ Repeat(Byte(pim, "Alarm_Repeat")) = 0
  \/ /\ f = "Alarm_Repeat"
     /\ Repeat(Byte(ic35, f)) = Repeat(Byte(pim, f))
     /\ Byte(pim, "AlarmBefore") = 0

CmpDiff(type, ic35, pim) ==
  {f \in Fields(type) : ~SameString(ic35, pim, f) /\ ~Ignored(ic35, pim, f)}
=============================================================================
