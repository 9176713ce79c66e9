------------------------------ MODULE Convert -------------------------------
(***************************************************************************)
(* Conversion of IC35 records to and from vCard, vCalendar and vMemo       *)
(* objects: datavca.c.  The program that wrote the calendar is recognised  *)
(* by PRODID; Gnome Calendar and KOrganizer get properties they do not     *)
(* support in another place.                                               *)
(***************************************************************************)
EXTENDS VObj, Ic35Rec, Integers, FiniteSets

Day      == 1440                 (* minutes                                 *)
DayNames == <<"d1", "d2">>       (* days in to-do records                   *)

Or(s, default) == IF s = <<>> THEN default ELSE s

-----------------------------------------------------------------------------
(* addresses and VCARD                                                     *)

TelTypes == << <<"HOME", "TelHome">>, <<"WORK", "TelWork">>,
               <<"CELL", "TelMobile">>, <<"FAX", "TelFax">> >>
SetTels(v, rec) ==
  LET Set(w, i) == SetTel(w, TelTypes[i][1], RecFld(rec, TelTypes[i][2]))
  IN Set(Set(Set(Set(v, 1), 2), 3), 4)

(* FN: the old names in it are replaced, or it is made from the names      *)
FullNameSwapped(fn, ofirst, olast, first, last) ==      \* mutant: wrong way round
  IF fn # <<>> THEN DupSubst(DupSubst(fn, olast, first), ofirst, last)
  ELSE first \o <<" ">> \o last
FullName(fn, ofirst, olast, first, last) ==
  IF fn # <<>> THEN DupSubst(DupSubst(fn, olast, last), ofirst, first)
  ELSE IF first # <<>> /\ last # <<>> THEN first \o <<" ">> \o last
  ELSE Or(first, last)

SetNames(v, first, last) ==
  LET fn == FullName(StringValue(v.ps, "FN"), SubValue(v.ps, "N", "GIVEN"),
                     SubValue(v.ps, "N", "FAMILY"), first, last)
  IN SetSubs(SetString(v, "FN", fn), "N", [GIVEN |-> first, FAMILY |-> last])

AddressParts(rec) ==
  [STREET |-> RecFld(rec, "Street"), CITY |-> RecFld(rec, "City"),
   REGION |-> RecFld(rec, "Region"), ZIP |-> RecFld(rec, "ZIP"),
   COUNTRY |-> RecFld(rec, "Country"), POSTBOX |-> <<>>, EXT |-> <<>>]
SetAddress(v, rec) ==
  LET parts == AddressParts(rec) IN
  IF \A k \in DOMAIN parts : parts[k] = <<>> THEN DelProp(v, "ADR")
  ELSE SetSubs(SetProp(v, "ADR"), "ADR", parts)
SetCompany(v, rec) ==
  IF RecFld(rec, "Company") = <<>> THEN DelProp(v, "ORG")
  ELSE SetSubs(SetProp(v, "ORG"), "ORG", [ORGNAME |-> RecFld(rec, "Company")])

Ic35AddrToVcard(rec, v) ==
  LET names  == SetNames(SetProp(v, "N"), RecFld(rec, "FirstName"), RecFld(rec, "LastName"))
      adr    == SetAddress(SetString(names, "BDAY", RecFld(rec, "BirthDate")), rec)
      tels   == SetTels(adr, rec)
      emails == SetEmail(SetEmail(tels, 1, RecFld(rec, "Email1")), 2, RecFld(rec, "Email2"))
      url    == SetString(SetCompany(emails, rec), "URL", RecFld(rec, "URL"))
      defs   == SetNoteProp(SetNoteProp(url, "VCARD", "DEF1:", RecFld(rec, "Def1")),
                            "VCARD", "DEF2:", RecFld(rec, "Def2"))
  IN SetCategory(SetNotes(defs, "VCARD", RecFld(rec, "Notes")), RecFld(rec, "Category"))

(* the field of a telephone number, by the first type it has               *)
TelField(ps, p) ==
  LET i == SelectInSeq(TelTypes, LAMBDA t : t[1] \in DOMAIN p.sub) IN
  CASE i # 0 -> TelTypes[i][2]
    [] i = 0 /\ CategoryValue(ps) = <<"Business">> -> "TelWork"
    [] OTHER -> "TelHome"

(* without N the last name is "NoName", and the first stays as it is       *)
NamesOf(ps) ==
  IF Has(ps, "N") THEN [LastName |-> SubValue(ps, "N", "FAMILY"),
                        FirstName |-> SubValue(ps, "N", "GIVEN")]
                  ELSE [LastName |-> <<"NoName">>]

(* of several numbers for a field the last one                             *)
TelsOf(ps) ==
  [f \in {"TelHome", "TelWork", "TelMobile", "TelFax"} |->
     LET at == {i \in DOMAIN ps : ps[i].id = "TEL" /\ TelField(ps, ps[i]) = f}
     IN IF at = {} THEN <<>> ELSE ps[Max(at)].val]
EmailsOfPresent(ps) ==              \* mutant: fields of missing ones not emptied
  LET at == Places(ps, "EMAIL") IN
  [f \in {g \in {"Email1", "Email2"} : (IF g = "Email1" THEN 1 ELSE 2) <= Len(at)} |->
     ps[at[IF f = "Email1" THEN 1 ELSE 2]].val]
EmailsOf(ps) ==
  LET at == Places(ps, "EMAIL")
      Nth(n) == IF n <= Len(at) THEN ps[at[n]].val ELSE <<>>
  IN [Email1 |-> Nth(1), Email2 |-> Nth(2)]

VcardToIc35Addr(ps, rec) ==
  SetFlds(SetFlds(SetFlds(SetFlds(rec, NamesOf(ps)), TelsOf(ps)), EmailsOf(ps)),
    [Street     |-> SubValue(ps, "ADR", "STREET"),
     City       |-> SubValue(ps, "ADR", "CITY"),
     Region     |-> SubValue(ps, "ADR", "REGION"),
     ZIP        |-> SubValue(ps, "ADR", "ZIP"),
     Country    |-> SubValue(ps, "ADR", "COUNTRY"),
     Company    |-> SubValue(ps, "ORG", "ORGNAME"),
     URL        |-> StringValue(ps, "URL"),
     BirthDate  |-> Ymd(StringValue(ps, "BDAY")),
     Def1       |-> NotePropValue(ps, "VCARD", "DEF1:"),
     Def2       |-> NotePropValue(ps, "VCARD", "DEF2:"),
     Notes      |-> NotesValue(ps, "VCARD"),
     CategoryID |-> <<0>>,
     Category   |-> CategoryValue(ps)])

-----------------------------------------------------------------------------
(* schedule and VEVENT: dates are numbers of days, times <<minute of the   *)
(* day, seconds>>, ISO dates with times <<minutes, seconds>>               *)

IsoTime(date, time) == <<date[1] * Day + time[1], Plain(time)[2]>>
DayOf(iso)  == <<iso[1] \div Day>>
TimeOf(iso) == <<iso[1] % Day, iso[2]>>

(* minutes before the start, for the codes AlarmBefNow (1) to 2day (10);   *)
(* 0 is AlarmBefNone                                                       *)
AlarmBefore == <<0, 1, 5, 10, 30, 60, 120, 600, Day, 2 * Day>>
AlarmCode(min) == 1 + Cardinality({i \in 2 .. 10 : AlarmBefore[i] <= min})

RuleTypes == <<"D", "W", "MP", "YD", "MD">>

(* Gnome Calendar has no DESCRIPTION: notes are more lines of the summary  *)
SetEventText(prog, rec, v) ==
  LET subject == RecFld(rec, "Subject")
      notes   == RecFld(rec, "Notes")
  IN IF prog = "GNOME"
     THEN LET w == SetString(v, "SUMMARY",
                     IF notes = <<>> THEN subject
                     ELSE SubstCRLF(subject \o <<"CR", "NL">> \o notes))
          IN IF Has(w.ps, "CLASS") THEN w ELSE SetString(w, "CLASS", <<"PUBLIC">>)
     ELSE SetNotes(SetString(v, "SUMMARY", subject), "VEVENT", notes)

SetRule(rec, v) ==
  LET rep == Repeat(Byte(rec, "Alarm_Repeat")) IN
  IF rep = 0 THEN DelProp(v, "RRULE")
  ELSE SetString(v, "RRULE",
         <<RuleTypes[rep], Byte(rec, "RepCount"),
           IF rep = 2 THEN {RecFld(rec, "StartDate")[1] % 7} ELSE {},
           RecFld(rec, "RepEndDate")>>)

SetAlarm(v, id, wanted, time) ==
  IF ~wanted THEN DelProp(v, id)
  ELSE SetSubs(SetProp(v, id), id,
               [RUNTIME |-> time, SNOOZETIME |-> <<>>, REPEATCOUNT |-> <<"1">>])

(* KOrganizer has display alarms only                                      *)
SetAlarms(prog, rec, v) ==
  LET n == Byte(rec, "Alarm_Repeat")
      before == Byte(rec, "AlarmBefore")
      on == before # 0 /\ ~(NoBeep(n) /\ NoLED(n))
      time == <<RecFld(rec, "StartDate")[1] * Day + RecFld(rec, "StartTime")[1]
                - (IF before <= 1 THEN 0 ELSE AlarmBefore[before]), 0>>
  IN IF ~on THEN DelProp(DelProp(v, "AALARM"), "DALARM")
     ELSE SetAlarm(SetAlarm(v, "AALARM", ~NoBeep(n) /\ prog # "KDE", time),
                   "DALARM", ~NoLED(n) \/ (~NoBeep(n) /\ prog = "KDE"), time)

Ic35SchedToVevent(prog, rec, v) ==
  LET start == SetString(v, "DTSTART",
                 IsoTime(RecFld(rec, "StartDate"), RecFld(rec, "StartTime")))
      end   == SetString(start, "DTEND",
                 IsoTime(RecFld(rec, "EndDate"), RecFld(rec, "EndTime")))
  IN SetAlarms(prog, rec, SetRule(rec, SetEventText(prog, rec, end)))

EventTextOf(prog, ps) ==
  LET text == Or(StringValue(ps, "SUMMARY"), <<"NoSubject">>)
      nl   == Find(text, <<"NL">>)
  IN IF prog = "GNOME" /\ nl # 0
     THEN [Subject |-> SubSeq(text, 1, nl - 1),
           Notes |-> SubstNL(SubSeq(text, nl + 1, Len(text)))]
     ELSE [Subject |-> text, Notes |-> NotesValue(ps, "VEVENT")]

(* a rule without end leaves the end date of the record as it is           *)
RuleOf(ps) ==
  LET rule == StringValue(ps, "RRULE") IN
  IF rule = <<>> THEN [RepCount |-> <<0>>]
  ELSE IF rule[4] = <<>> THEN [RepCount |-> <<rule[2]>>]
  ELSE [RepCount |-> <<rule[2]>>, RepEndDate |-> rule[4]]
RepeatOf(ps) ==
  LET rule == StringValue(ps, "RRULE") IN
  IF rule = <<>> THEN 0 ELSE SelectInSeq(RuleTypes, LAMBDA t : t = rule[1])

(* of two alarms the time of the display alarm counts                      *)
AlarmsOf(prog, ps) ==
  LET aa == Has(ps, "AALARM")
      da == Has(ps, "DALARM")
      beep == aa \/ (da /\ prog = "KDE")
      run == SubValue(ps, IF da THEN "DALARM" ELSE "AALARM", "RUNTIME")
  IN [Alarm_Repeat |-> <<RepeatOf(ps) + (IF beep THEN 0 ELSE 64)
                                      + (IF da THEN 0 ELSE 128)>>,
      AlarmBefore  |-> <<IF aa \/ da
                         THEN AlarmCode(StringValue(ps, "DTSTART")[1] - run[1]) ELSE 0>>]

VeventToIc35Sched(prog, ps, rec, today) ==
  LET Iso(id) == IF Has(ps, id) THEN StringValue(ps, id) ELSE <<today * Day, 0>> IN
  SetFlds(SetFlds(SetFlds(SetFlds(rec, EventTextOf(prog, ps)), RuleOf(ps)), AlarmsOf(prog, ps)),
    [StartDate |-> DayOf(Iso("DTSTART")), StartTime |-> TimeOf(Iso("DTSTART")),
     EndDate   |-> DayOf(Iso("DTEND")),   EndTime   |-> TimeOf(Iso("DTEND"))])

-----------------------------------------------------------------------------
(* to-do and VTODO: dates are names of days, ISO dates have a time as well *)

TodoDates(prog, rec, v) ==
  LET start == Append(RecFld(rec, "StartDate"), "T0000")
      due   == Append(RecFld(rec, "EndDate"), "T2359")
      Mark(w, mark, f) == SetNoteProp(w, "VTODO", mark, RecFld(rec, f))
      classed == IF Has(v.ps, "CLASS") THEN v ELSE SetString(v, "CLASS", <<"PUBLIC">>)
  IN IF prog = "KDE"
     THEN Mark(Mark(Mark(v, "DUE:", "EndDate"), "DTSTART:", "StartDate"),
               "CATEGORIES:", "Category")
     ELSE SetCategory(SetString(IF prog = "GNOME"
                                THEN Mark(classed, "DTSTART:", "StartDate")
                                ELSE SetString(v, "DTSTART", start),
                                "DUE", due), RecFld(rec, "Category"))

Ic35TodoToVtodo(prog, rec, v) ==
  LET text == SetNotes(SetString(v, "SUMMARY", RecFld(rec, "Subject")),
                       "VTODO", RecFld(rec, "Notes"))
      done == SetString(TodoDates(prog, rec, text), "STATUS",
                IF Byte(rec, "Completed") = 0 THEN <<"NEEDS ACTION">> ELSE <<"COMPLETED">>)
  IN SetString(done, "PRIORITY",
       CASE Byte(rec, "Priority") = 2 -> <<1>>
         [] Byte(rec, "Priority") = 0 -> <<5>>
         [] OTHER                     -> <<3>>)

PriorityOf(n) ==
  CASE n >= 5 -> 0 [] n \in 3 .. 4 -> 1 [] n \in 1 .. 2 -> 2 [] OTHER -> 1

(* any other status is announced in the notes, but not named there         *)
VtodoToIc35Todo(prog, ps, rec, today) ==
  LET Marked(mark) == NotePropValue(ps, "VTODO", mark)
      status == StringValue(ps, "STATUS")
      prio   == StringValue(ps, "PRIORITY")
      start  == IF prog \in {"KDE", "GNOME"} THEN Marked("DTSTART:")
                                             ELSE StringValue(ps, "DTSTART")
      due    == IF prog = "KDE" THEN Marked("DUE:") ELSE StringValue(ps, "DUE")
      notes  == NotesValue(ps, "VTODO")
  IN SetFlds(rec,
       [Subject    |-> Or(StringValue(ps, "SUMMARY"), <<"NoSubject">>),
        Category   |-> IF prog = "KDE" THEN Marked("CATEGORIES:") ELSE CategoryValue(ps),
        CategoryID |-> <<0>>,
        StartDate  |-> YmdOrToday(start, today),
        EndDate    |-> YmdOrToday(due, today),
        Completed  |-> <<IF status = <<"COMPLETED">> THEN 1 ELSE 0>>,
        Priority   |-> <<PriorityOf(IF prio = <<>> THEN 0 ELSE prio[1])>>,
        Notes      |-> IF status \in {<<>>, <<"COMPLETED">>, <<"NEEDS ACTION">>}
                       THEN notes ELSE <<"STATUS:">> \o notes])

-----------------------------------------------------------------------------
(* memos                                                                   *)

Ic35MemoToVmemo(rec, v) ==
  SetCategory(SetNotes(SetString(v, "SUMMARY", RecFld(rec, "Subject")),
                       "VMEMO", RecFld(rec, "Notes")), RecFld(rec, "Category"))
VmemoToIc35Memo(ps, rec) ==
  SetFlds(rec, [Subject    |-> Or(StringValue(ps, "SUMMARY"), <<"NoSubject">>),
                Notes      |-> NotesValue(ps, "VMEMO"),
                CategoryID |-> <<0>>,
                Category   |-> CategoryValue(ps)])

-----------------------------------------------------------------------------
(* vca_updic35rec, and vca_cmpic35rec, which updates an empty record       *)
UpdIc35Rec(type, prog, rec, ps, today) ==
  CASE type = "VCARD"  -> VcardToIc35Addr(ps, rec)
    [] type = "VEVENT" -> VeventToIc35Sched(prog, ps, rec, today)
    [] type = "VTODO"  -> VtodoToIc35Todo(prog, ps, rec, <<DayNames[today]>>)
    [] OTHER           -> VmemoToIc35Memo(ps, rec)

CmpIc35Rec(type, prog, rec, ps, today) ==
  CmpDiff(type, rec, UpdIc35Rec(type, prog, NewIc35Rec(type), ps, today))

(* vca_putic35rec into the object with that record-ID, or an empty one; a  *)
(* UID of a PIM program stays                                              *)
Filled(type, prog, rec, v) ==
  CASE type = "VCARD"  -> Ic35AddrToVcard(rec, v)
    [] type = "VEVENT" -> Ic35SchedToVevent(prog, rec, v)
    [] type = "VTODO"  -> Ic35TodoToVtodo(prog, rec, v)
    [] OTHER           -> Ic35MemoToVmemo(rec, v)
SetUid(v) ==
  IF StringValue(v.ps, "UID") \in {<<>>, <<"IC35id">>}
  THEN SetString(v, "UID", <<"IC35id">>) ELSE v
PutIc35Rec(type, prog, rec, ps, now) ==
  SetLong(SetLong(SetUid(SetModtimeIfDirty(Filled(type, prog, rec, Clean(ps)), type, now)),
                  "X-PILOTID", 1), "X-PILOTSTAT", 0).ps
=============================================================================
