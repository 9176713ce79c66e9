-------------------------------- MODULE VObj --------------------------------
(***************************************************************************)
(* vCard and vCalendar objects: the property lists of vobject.c, and the   *)
(* helpers of vcutil.c that set and get properties.                        *)
(*                                                                         *)
(* A character string is a sequence of tokens, each standing for some      *)
(* characters: "NL", "CR", ";", a space, a mark like "DEF1:", or a word.   *)
(* Dates, times and numbers are strings of a single number.  An object is  *)
(* the list of its properties; the sub-properties of one (the types of a   *)
(* telephone number, the parts of a name) are a function from their names. *)
(* The helpers that change an object work on it together with _vobj_dirty. *)
(* Character sets and encodings are left out.                              *)
(***************************************************************************)
EXTENDS Naturals, Sequences, SequencesExt, TLC

NoSub           == [k \in {} |-> <<>>]
Prop(id, s, sb) == [id |-> id, val |-> s, sub |-> sb]
Clean(ps)       == [ps |-> ps, dirty |-> FALSE]

(* the first property of that name, or 0                                   *)
IsAPropertyOf(ps, id) == SelectInSeq(ps, LAMBDA p : p.id = id)
Has(ps, id)           == IsAPropertyOf(ps, id) # 0

(* delList on the circular list of properties, whose entry points to the   *)
(* last one: deleting that makes the first the last                        *)
DelList(ps, i) ==
  IF i = Len(ps) /\ i > 1 THEN SubSeq(ps, 2, i - 1) \o <<ps[1]>>
                          ELSE RemoveAt(ps, i)

StringValue(ps, id) ==
  IF Has(ps, id) THEN ps[IsAPropertyOf(ps, id)].val ELSE <<>>
SubValue(ps, id, k) ==
  IF Has(ps, id) /\ k \in DOMAIN ps[IsAPropertyOf(ps, id)].sub
  THEN ps[IsAPropertyOf(ps, id)].sub[k] ELSE <<>>

-----------------------------------------------------------------------------
(* substitutions in strings                                                *)

OccursAt(s, t, i) == i + Len(t) - 1 <= Len(s) /\ SubSeq(s, i, i + Len(t) - 1) = t
Find(s, t) == SelectInSeq([i \in 1 .. Len(s) |-> i], LAMBDA i : OccursAt(s, t, i))

(* new for the first old in s                                              *)
DupSubst(s, old, new) ==
  LET i == Find(s, old) IN
  IF old = <<>> \/ i = 0 THEN s
  ELSE SubSeq(s, 1, i - 1) \o new \o SubSeq(s, i + Len(old), Len(s))

(* newlines of vCard,vCal to those of the IC35, and back                   *)
SubstNL(s) ==
  FlattenSeq([i \in DOMAIN s |->
    IF s[i] = "NL" /\ ~(i > 1 /\ s[i - 1] = "CR") THEN <<"CR", "NL">> ELSE <<s[i]>>])
SubstCRLF(s) ==
  FlattenSeq([i \in DOMAIN s |->
    IF s[i] # "CR" /\ ~(i < Len(s) /\ s[i + 1] = "NL") THEN <<s[i]>> ELSE <<>>])

-----------------------------------------------------------------------------
(* set properties; _vobj_dirty notes whether that changed anything         *)

ChangeAt(v, i, s) ==
  IF v.ps[i].val = s THEN v
  ELSE [ps |-> [v.ps EXCEPT ![i].val = s], dirty |-> TRUE]
DelAt(v, i) == [ps |-> DelList(v.ps, i), dirty |-> TRUE]
AddProp(v, p) == [ps |-> Append(v.ps, p), dirty |-> TRUE]

SetProp(v, id) == IF Has(v.ps, id) THEN v ELSE AddProp(v, Prop(id, <<>>, NoSub))
DelProp(v, id) == IF Has(v.ps, id) THEN DelAt(v, IsAPropertyOf(v.ps, id)) ELSE v

SetString(v, id, s) ==
  IF s = <<>> THEN DelProp(v, id)
  ELSE IF Has(v.ps, id) THEN ChangeAt(v, IsAPropertyOf(v.ps, id), s)
  ELSE AddProp(v, Prop(id, s, NoSub))

(* SetString on sub-properties of the first property of that name          *)
SetSubs(v, id, new) ==
  LET i == IsAPropertyOf(v.ps, id)
      old == v.ps[i].sub
      Val(k) == IF k \in DOMAIN new THEN new[k] ELSE old[k]
      sub == [k \in {j \in DOMAIN new \cup DOMAIN old : Val(j) # <<>>} |-> Val(k)]
  IN IF sub = old THEN v
     ELSE [ps |-> [v.ps EXCEPT ![i].sub = sub], dirty |-> TRUE]

(* not noted in _vobj_dirty                                                *)
SetLong(v, id, n) ==
  [v EXCEPT !.ps = IF Has(@, id) THEN [@ EXCEPT ![IsAPropertyOf(@, id)].val = <<n>>]
                                 ELSE Append(@, Prop(id, <<n>>, NoSub))]

(* the telephone number with that type: the first of several               *)
TelWith(ps, type) ==
  SelectInSeq(ps, LAMBDA p : p.id = "TEL" /\ type \in DOMAIN p.sub)
SetTel(v, type, s) ==
  LET i == TelWith(v.ps, type) IN
  CASE i # 0 /\ s # <<>> -> ChangeAt(v, i, s)
    [] i # 0 /\ s = <<>> -> DelAt(v, i)
    [] i = 0 /\ s = <<>> -> v
    [] OTHER             -> AddProp(v, Prop("TEL", s, [k \in {type} |-> <<>>]))

(* the email address with that number                                      *)
Places(ps, id) == FlattenSeq([i \in DOMAIN ps |-> IF ps[i].id = id THEN <<i>> ELSE <<>>])
SetEmail(v, n, s) ==
  LET at == Places(v.ps, "EMAIL") IN
  CASE n <= Len(at) /\ s # <<>> -> ChangeAt(v, at[n], s)
    [] n <= Len(at) /\ s = <<>> -> DelAt(v, at[n])
    [] n > Len(at) /\ s = <<>>  -> v
    [] OTHER                    -> AddProp(v, Prop("EMAIL", s, [INTERNET |-> <<>>]))

-----------------------------------------------------------------------------
(* NOTE and DESCRIPTION, which hold properties without support in the PIM  *)
(* programs as marked lines in front of the text                           *)

NoteId(type)   == IF type \in {"VCARD", "VMEMO"} THEN "NOTE" ELSE "DESCRIPTION"
NoteMarks(type) == CASE type = "VCARD" -> {"DEF1:", "DEF2:"}
                     [] type = "VTODO" -> {"DTSTART:", "DUE:", "CATEGORIES:"}
                     [] OTHER          -> {}

(* _NotePropsLen: the marked lines at the beginning, up to the first line  *)
(* that is none; nothing if the last of them has no newline                *)
NotePropsLen(s, type) ==
  LET first == IF s # <<>> /\ s[1] = "NL" THEN 2 ELSE 1
      text  == {i \in first .. Len(s) + 1 :
                  /\ i = first \/ s[i - 1] = "NL"
                  /\ i = Len(s) + 1 \/ s[i] \notin NoteMarks(type)}
  IN IF text = {} THEN 0 ELSE Min(text) - 1

SetNotesAlone(v, type, s) ==                   \* mutant: marked lines dropped
  SetString(v, NoteId(type), SubstCRLF(s))
SetNotes(v, type, s) ==
  LET old == StringValue(v.ps, NoteId(type)) IN
  SetString(v, NoteId(type), SubSeq(old, 1, NotePropsLen(old, type)) \o SubstCRLF(s))

NotesValue(ps, type) ==
  LET note == StringValue(ps, NoteId(type)) IN
  SubstNL(SubSeq(note, NotePropsLen(note, type) + 1, Len(note)))

(* a marked line anywhere in the note: what is between the mark and the    *)
(* next newline                                                            *)
After(s, t)  == LET i == Find(s, t) IN
                IF i = 0 THEN <<>> ELSE SubSeq(s, i + Len(t), Len(s))
Before(s, t) == LET i == Find(s, t) IN IF i = 0 THEN s ELSE SubSeq(s, 1, i - 1)
NotePropValue(ps, type, mark) ==
  Before(After(SubstNL(<<"NL">> \o StringValue(ps, NoteId(type))), <<"CR", "NL", mark>>),
         <<"CR", "NL">>)

MarkedLine(mark, s) == IF s = <<>> THEN <<>> ELSE <<mark>> \o s \o <<"CR", "NL">>
SetNotePropAgain(v, type, mark, s) ==          \* mutant: old line not looked for
  SetString(v, NoteId(type),
    SubstCRLF(MarkedLine(mark, s) \o SubstNL(StringValue(v.ps, NoteId(type)))))
SetNoteProp(v, type, mark, s) ==
  LET note == SubstNL(StringValue(v.ps, NoteId(type)))
      old  == NotePropValue(v.ps, type, mark)
      new  == MarkedLine(mark, s)
  IN SetString(v, NoteId(type),
       SubstCRLF(IF old # <<>> THEN DupSubst(note, MarkedLine(mark, old), new)
                               ELSE new \o note))

-----------------------------------------------------------------------------
(* categories: the IC35 has one, a vCard several separated by ";"          *)

StdCategories == {"Address", "Business", "Personal", "Unfiled"}
Parts(s) == FlattenSeq([i \in DOMAIN s |-> IF s[i] = ";" THEN <<>> ELSE <<s[i]>>])
FirstStd(s) == SelectInSeq(s, LAMBDA t : t \in StdCategories)

CategoryValue(ps) ==
  LET cats == Parts(StringValue(ps, "CATEGORIES")) IN
  CASE cats = <<>>         -> <<"Unfiled">>
    [] FirstStd(cats) # 0  -> <<cats[FirstStd(cats)]>>
    [] OTHER               -> <<cats[1]>>

SetCategoryOnly(v, new) == SetString(v, "CATEGORIES", new)  \* mutant: others dropped
SetCategory(v, new) ==
  LET old  == StringValue(v.ps, "CATEGORIES")
      cats == Parts(old)
      std  == FirstStd(cats)
      seen == IF std = 0 THEN cats ELSE SubSeq(cats, 1, std)
  IN IF ~Contains(old, ";") THEN SetString(v, "CATEGORIES", new)
     ELSE IF new # <<>> /\ Contains(seen, new[1]) THEN v
     ELSE IF std # 0 THEN SetString(v, "CATEGORIES", DupSubst(old, <<cats[std]>>, new))
     ELSE SetString(v, "CATEGORIES", new \o <<";">> \o old)

-----------------------------------------------------------------------------
(* dates: the day of an ISO date, or today                                 *)

Ymd(s)               == IF s = <<>> THEN <<>> ELSE <<s[1]>>
YmdOrToday(s, today) == IF s = <<>> THEN today ELSE Ymd(s)

(* REV or LAST-MODIFIED is the time of this sync if anything changed       *)
SetModtimeIfDirty(v, type, now) ==
  LET w == IF type \in {"VEVENT", "VTODO"} /\ ~Has(v.ps, "DCREATED")
           THEN SetString(v, "DCREATED", <<now>>) ELSE v
  IN IF ~v.dirty THEN v
     ELSE SetString(w, IF type = "VCARD" THEN "REV" ELSE "LAST-MODIFIED", <<now>>)
=============================================================================
