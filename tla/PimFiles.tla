------------------------------ MODULE PimFiles ------------------------------
(***************************************************************************)
(* The PIM files on disk: pim_open() reads up to three of them into memory,*)
(* pim_close() renames each to its backup "~" and writes it new (dataio.c, *)
(* datavca.c, databin.c, datatxt.c).  ic35sync may be killed at any point, *)
(* a file may fail to open, a write may be short, and a PIM program may    *)
(* write the address file while ic35sync talks to the IC35.                *)
(*                                                                         *)
(* An object is a record, or a calendar with the records in it.  A file is *)
(* the sequence of its objects, of which the last may be incomplete.       *)
(***************************************************************************)
EXTENDS VObj, FiniteSets, Integers

CONSTANTS
  Formats,        (* "vca", "bin", "txt"                                   *)
  Given,          (* sets of files named on the command line               *)
  Found,          (* files before the first run: functions from Kinds      *)
  NewRecs,        (* records that may be put, and one a PIM program adds   *)
  MaxRuns, MaxFaults, MaxPim        (* bounds                              *)

Kinds  == {"addr", "vcal", "memo"}
Absent == [there |-> FALSE, objs |-> <<>>, whole |-> TRUE]

(* The address file is always named; the files hold records and calendars, *)
(* and one that is not there is empty.                                     *)
ASSUME FormatsAssumption == Formats \subseteq {"vca", "bin", "txt"}
ASSUME GivenAssumption == \A g \in Given : g \subseteq Kinds /\ "addr" \in g
ASSUME FoundAssumption ==
  \A fs \in Found :
    /\ fs = [k \in Kinds |-> fs[k]]
    /\ \A k \in Kinds :
         /\ fs[k].objs \in Seq(ToSet(fs[k].objs))
         /\ \A o \in ToSet(fs[k].objs) : o = [t |-> o.t, id |-> o.id, items |-> o.items]
         /\ ~fs[k].there => fs[k] = Absent

File(os, w) == [there |-> TRUE, objs |-> os, whole |-> w]

Rec(t, n)     == [t |-> t, id |-> n, items |-> <<>>]
Calendar(its) == [t |-> "VCAL", id |-> 0, items |-> its]
ASSUME NewRecsAssumption ==
  \A r \in NewRecs : /\ r.t \in {"VCARD", "VEVENT", "VTODO", "VMEMO"}
                     /\ r = Rec(r.t, r.id)

Recs(os) == {o \in ToSet(os) : o.t # "VCAL"} \cup UNION {ToSet(o.items) : o \in ToSet(os)}

VARIABLES
  fmt, given,
  main, back,     (* the files and their backups                           *)
  pc,             (* idle, open, backup, write                             *)
  list, vcal,     (* the objects in memory; the place of what is taken for *)
                  (* the calendar, 0 for none, or Freed                    *)
  todo, step,     (* files yet to be backed up, and what is done next      *)
  opened,         (* files open for writing                                *)
  failed,         (* files that could not be opened                        *)
  runs, faults, pim,
  kept,           (* records this run found or a PIM program wrote         *)
  saved           (* records in memory when the files were written, if all *)
                  (* went well and nobody changed the files since          *)
pvars == <<fmt, given, main, back, pc, list, vcal, todo, step, opened,
           failed, runs, faults, pim, kept, saved>>

Unknown == [known |-> FALSE, recs |-> {}]
Readable(f) == IF f.whole THEN f.objs ELSE Front(f.objs)
FileRecs(fs) == UNION {Recs(Readable(fs[k])) : k \in Kinds}

-----------------------------------------------------------------------------
(* open                                                                    *)

(* of the calendar file only the first object stays: addList() cuts off    *)
(* what follows                                                            *)
FirstOf(os) == IF os = <<>> THEN <<>> ELSE <<os[1]>>
VcaList(fs) == fs["addr"].objs \o FirstOf(fs["vcal"].objs) \o fs["memo"].objs
VcalOf(fs) ==
  IF fs["vcal"].objs # <<>> THEN Len(fs["addr"].objs) + 1
  ELSE SelectInSeq(fs["addr"].objs, LAMBDA o : o.t = "VCAL")

Named(fs) == [k \in Kinds |-> IF k \in given THEN fs[k] ELSE Absent]

(* an incomplete object is an error in vCard format, the end in binary; and *)
(* so is an event in anything but a calendar                               *)
Nested(f)  == \E o \in ToSet(f.objs) : o.t # "VCAL" /\ o.items # <<>>
OpenOk(fs) == fmt = "bin" \/ \A k \in Kinds : fs[k].whole /\ ~Nested(fs[k])
ListOf(fs) == IF fmt = "bin" THEN Readable(fs["addr"]) ELSE VcaList(fs)

ToBackup == IF fmt = "vca" THEN given ELSE {"addr"}

Open ==
  /\ pc = "idle" /\ runs < MaxRuns /\ fmt # "txt"
  /\ runs' = runs + 1
  /\ OpenOk(Named(main))
  /\ pc' = "open"
  /\ list' = ListOf(Named(main))
  /\ vcal' = IF fmt = "bin" THEN 0 ELSE VcalOf(Named(main))
  /\ kept' = FileRecs(Named(main))
  /\ UNCHANGED <<fmt, given, main, back, todo, step, opened, failed, faults, pim, saved>>

(* the program ends with an error                                          *)
OpenError ==
  /\ pc = "idle" /\ runs < MaxRuns /\ fmt # "txt"
  /\ ~OpenOk(Named(main))
  /\ runs' = runs + 1
  /\ UNCHANGED <<fmt, given, main, back, pc, list, vcal, todo, step, opened, failed,
                 faults, pim, kept, saved>>

(* text is written from the beginning and never read                       *)
OpenTxt ==
  /\ pc = "idle" /\ runs < MaxRuns /\ fmt = "txt"
  /\ runs' = runs + 1
  /\ pc' = "backup" /\ todo' = ToBackup /\ step' = "remove"
  /\ list' = <<>> /\ vcal' = 0 /\ opened' = {} /\ failed' = {}
  /\ kept' = FileRecs(Named(main))
  /\ saved' = Unknown
  /\ UNCHANGED <<fmt, given, main, back, faults, pim>>

-----------------------------------------------------------------------------
(* records in memory                                                       *)

FileOf(t) == CASE t = "VCARD" -> "addr" [] t = "VMEMO" -> "memo" [] OTHER -> "vcal"

Freed == -1

AddEventAlone(r) ==                            \* mutant: a calendar for each
  list' = Append(list, Calendar(<<r>>)) /\ vcal' = Len(list) + 1 /\ UNCHANGED pc
(* an event goes into the calendar, or whatever is taken for it.  When the *)
(* memory of that was freed the program may crash, or the event gets lost, *)
(* or goes into whatever has that memory now                               *)
AddEvent(r) ==
  \/ vcal = 0 /\ list' = Append(list, Calendar(<<r>>)) /\ vcal' = Len(list) + 1 /\ UNCHANGED pc
  \/ vcal > 0 /\ list' = [list EXCEPT ![vcal].items = Append(@, r)] /\ UNCHANGED <<vcal, pc>>
  \/ vcal = Freed /\ list' = list /\ UNCHANGED vcal /\ pc' \in {pc, "idle"}
  \/ /\ vcal = Freed /\ UNCHANGED <<vcal, pc>>
     /\ \E i \in DOMAIN list : list' = [list EXCEPT ![i].items = Append(@, r)]

(* after the last record of the same type, or at the end                   *)
BinAdd(r) ==
  LET i == SelectLastInSeq(list, LAMBDA o : o.t = r.t) IN
  /\ list' = InsertAt(list, IF i = 0 THEN Len(list) + 1 ELSE i + 1, r)
  /\ UNCHANGED <<vcal, pc>>

Put ==
  /\ pc = "open"
  /\ \E r \in NewRecs \ (Recs(list) \cup FileRecs(main) \cup FileRecs(back)) :
       CASE fmt = "bin" -> BinAdd(r)
         [] fmt = "vca" /\ FileOf(r.t) = "vcal" -> AddEvent(r)
         [] OTHER -> list' = Append(list, r) /\ UNCHANGED <<vcal, pc>>
  /\ UNCHANGED <<fmt, given, main, back, todo, step, opened, failed, runs,
                 faults, pim, kept, saved>>

(* a record that is taken for the calendar is freed and still taken for it; *)
(* an event is only found in a calendar, and then vcal points to that      *)
Delete ==
  /\ pc = "open" /\ fmt # "txt"
  /\ \/ \E i \in DOMAIN list :
          /\ list[i].t # "VCAL"
          /\ list' = RemoveAt(list, i)
          /\ vcal' = IF i = vcal THEN Freed ELSE IF i < vcal THEN vcal - 1 ELSE vcal
     \/ /\ vcal > 0 /\ list[vcal].t = "VCAL"
        /\ \E i \in DOMAIN list[vcal].items :
             list' = [list EXCEPT ![vcal].items = DelList(@, i)]
        /\ UNCHANGED vcal
  /\ UNCHANGED <<fmt, given, main, back, pc, todo, step, opened, failed, runs,
                 faults, pim, kept, saved>>

-----------------------------------------------------------------------------
(* close                                                                   *)

Close ==
  /\ pc = "open"
  /\ IF fmt = "txt" THEN pc' = "write" /\ UNCHANGED <<todo, step, opened, failed>>
     ELSE /\ pc' = "backup" /\ todo' = ToBackup /\ step' = "remove"
          /\ opened' = {} /\ failed' = {}
  /\ saved' = Unknown
  /\ UNCHANGED <<fmt, given, main, back, list, vcal, runs, faults, pim, kept>>

(* backup_and_openwr, one file after the other, one system call at a time  *)
Current == IF "addr" \in todo THEN "addr" ELSE IF "vcal" \in todo THEN "vcal" ELSE "memo"
Backup(s, next) == /\ pc = "backup" /\ step = s /\ step' = next
                   /\ UNCHANGED <<fmt, given, list, vcal, runs, pim, kept, saved>>

RemoveOld ==
  /\ Backup("remove", "rename")
  /\ back' = [back EXCEPT ![Current] = Absent]
  /\ UNCHANGED <<main, pc, todo, opened, failed, faults>>

RenameNot ==                                   \* mutant: renamed only if new
  /\ Backup("rename", "open")
  /\ UNCHANGED <<main, back, pc, todo, opened, failed, faults>>
Rename ==
  /\ Backup("rename", "open")
  /\ IF main[Current].there
     THEN /\ back' = [back EXCEPT ![Current] = main[Current]]
          /\ main' = [main EXCEPT ![Current] = Absent]
     ELSE UNCHANGED <<main, back>>
  /\ UNCHANGED <<pc, todo, opened, failed, faults>>

AfterBackup ==
  IF todo # {Current} THEN "backup" ELSE IF fmt = "txt" THEN "open" ELSE "write"

OpenWrite ==
  /\ Backup("open", "remove")
  /\ main' = [main EXCEPT ![Current] = File(<<>>, TRUE)]
  /\ opened' = opened \cup {Current}
  /\ todo' = todo \ {Current} /\ pc' = AfterBackup
  /\ UNCHANGED <<back, failed, faults>>

(* only reported by vca_close; bin_close and txt_open end the run          *)
OpenFails ==
  /\ faults < MaxFaults /\ faults' = faults + 1
  /\ Backup("open", "remove")
  /\ failed' = failed \cup {Current}
  /\ todo' = todo \ {Current}
  /\ pc' = IF fmt = "vca" THEN AfterBackup ELSE "idle"
  /\ UNCHANGED <<main, back, opened>>

(* a file that is not named or could not be opened is replaced by the one  *)
(* before it                                                               *)
FpNone(k) == IF k \in opened THEN k ELSE "none"      \* mutant: by none
Fp(k) ==
  IF k \in opened THEN k
  ELSE IF k = "memo" /\ "vcal" \in opened THEN "vcal"
  ELSE IF k # "addr" /\ "addr" \in opened THEN "addr" ELSE "none"
Dest(o) == IF fmt = "vca" THEN Fp(FileOf(o.t)) ELSE "addr"
Output(k) ==
  LET sel[n \in 0 .. Len(list)] ==
        IF n = 0 THEN <<>>
        ELSE IF Dest(list[n]) = k THEN Append(sel[n - 1], list[n]) ELSE sel[n - 1]
  IN sel[Len(list)]

Write ==
  /\ pc = "write" /\ pc' = "idle"
  /\ main' = [k \in Kinds |-> IF k \in opened THEN File(Output(k), TRUE) ELSE main[k]]
  /\ saved' = IF failed \subseteq {"vcal"} /\ fmt # "txt"
              THEN [known |-> TRUE, recs |-> Recs(list)] ELSE Unknown
  /\ UNCHANGED <<fmt, given, back, list, vcal, todo, step, opened, failed, runs,
                 faults, pim, kept>>

(* killed while it writes, or the disk is full, which is not noticed       *)
Cut(os, n, whole) == File(SubSeq(os, 1, n), whole \/ n = 0)
WriteCut ==
  /\ pc = "write" \/ (pc = "open" /\ fmt = "txt")
  /\ pc' = "idle"
  /\ faults < MaxFaults /\ faults' = faults + 1
  /\ \E n \in [opened -> 0 .. Len(list)], whole \in BOOLEAN :
       /\ \A k \in opened : n[k] <= Len(Output(k))
       /\ main' = [k \in Kinds |->
                    IF k \in opened THEN Cut(Output(k), n[k], whole) ELSE main[k]]
  /\ UNCHANGED <<fmt, given, back, list, vcal, todo, step, opened, failed, runs,
                 pim, kept, saved>>

Killed ==
  /\ pc = "backup" \/ (pc = "open" /\ fmt # "txt")
  /\ pc' = "idle"
  /\ faults < MaxFaults /\ faults' = faults + 1
  /\ UNCHANGED <<fmt, given, main, back, list, vcal, todo, step, opened, failed,
                 runs, pim, kept, saved>>

(* a PIM program adds or removes a record of the address file              *)
PimWrites ==
  /\ pc \in {"idle", "open"} /\ fmt = "vca"
  /\ pim < MaxPim /\ pim' = pim + 1
  /\ main["addr"].whole
  /\ LET os == main["addr"].objs IN
     \/ \E r \in NewRecs : /\ r.t = "VCARD" /\ r \notin Recs(list) \cup FileRecs(back) \cup Recs(os)
                           /\ main' = [main EXCEPT !["addr"] = File(Append(os, r), TRUE)]
                           /\ kept' = kept \cup {r}
     \/ \E i \in DOMAIN os : /\ os[i].t = "VCARD"
                             /\ main' = [main EXCEPT !["addr"] = File(RemoveAt(os, i), TRUE)]
                             /\ kept' = kept \ Recs(<<os[i]>>)
  /\ saved' = Unknown
  /\ UNCHANGED <<fmt, given, back, pc, list, vcal, todo, step, opened, failed,
                 runs, faults>>

Init ==
  /\ fmt \in Formats /\ given \in Given
  /\ main \in Found /\ back = [k \in Kinds |-> Absent]
  /\ \A k \in Kinds \ given : ~main[k].there
  /\ fmt # "vca" => given = {"addr"} /\ \A o \in ToSet(main["addr"].objs) : o.t # "VCAL"
  /\ pc = "idle" /\ list = <<>> /\ vcal = 0
  /\ todo = {} /\ step = "remove" /\ opened = {} /\ failed = {}
  /\ runs = 0 /\ faults = 0 /\ pim = 0 /\ kept = {} /\ saved = Unknown

Next == \/ Open \/ OpenError \/ OpenTxt \/ Put \/ Delete \/ Close
        \/ RemoveOld \/ Rename \/ OpenWrite \/ OpenFails
        \/ Write \/ WriteCut \/ Killed \/ PimWrites
Spec == Init /\ [][Next]_pvars

-----------------------------------------------------------------------------
(* Files in which the records are where they belong, or all in the address *)
(* file, and events and to-dos in one calendar.                            *)
CalendarsFound ==
  "vca" \in Formats =>
    \A fs \in Found :
      /\ \A o \in ToSet(fs["addr"].objs) : o.t \in {"VCARD", "VMEMO", "VCAL"}
      /\ \A o \in ToSet(fs["vcal"].objs) : o.t = "VCAL"
      /\ \A o \in ToSet(fs["memo"].objs) : o.t = "VMEMO"
      /\ \A k, l \in Kinds : \A i \in DOMAIN fs[k].objs, j \in DOMAIN fs[l].objs :
           fs[k].objs[i].t = "VCAL" /\ fs[l].objs[j].t = "VCAL" => k = l /\ i = j

(* A memo file that could not be opened has its memos in the calendar file *)
MemosMoved == \E fs \in {main, back} :
                \E o \in ToSet(fs["vcal"].objs) : o.t = "VMEMO"

(* The lists are well formed: what is being worked on is named, and all    *)
(* events and to-dos are in the one calendar that vcal points to, which    *)
(* vca_putic35rec, vca_delrec and the iterator rely on; unless memos are   *)
(* in the calendar file, whose first object is taken for the calendar even *)
(* when it was deleted.                                                    *)
TypeOK ==
  /\ pc \in {"idle", "open", "backup", "write"}
  /\ step \in {"remove", "rename", "open"}
  /\ pc = "backup" => todo # {}
  /\ opened \cup failed \subseteq given
  /\ \/ {i \in DOMAIN list : list[i].t = "VCAL"} = {vcal} \ {0}
     \/ MemosMoved

(* What a run found in the files when it started, and what a PIM program   *)
(* wrote to the address file before they were renamed, is in a file or its *)
(* backup until the next run starts, whatever goes wrong on the way.       *)
LastCopy == kept \subseteq FileRecs(main) \cup FileRecs(back)

(* When nothing went wrong, or only the calendar file could not be opened, *)
(* the next run reads the records that this one had in memory, whichever   *)
(* of the files are given; unless it put an event into a memo that was     *)
(* taken for the calendar, which no run can read.                          *)
ReadBack ==
  saved.known /\ ~(\E k \in given : Nested(main[k])) =>
    /\ OpenOk(Named(main))
    /\ Recs(ListOf(Named(main))) = saved.recs
=============================================================================
