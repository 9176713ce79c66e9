# Verification of ic35link

ic35link connects a Siemens IC35 organiser to a PC over a serial line.
`ic35sync` exchanges addresses, memos, to-dos and appointments with PIM files,
in one direction (`export`, `import`) or in both (`sync`); `ic35mgr` backs the
organiser up, restores it, and moves files to and from its memory cards.  This
directory holds TLA+ models of the program, the TLC runs that check them and
theorems about them checked with TLAPS.

## 1. The system

### Components

| component | source | state it keeps | operations |
|---|---|---|---|
| commands of ic35sync | `ic35sync.c` | record table with one planned action per record, loop counters, "initial export", "IC35 same as PIM", result | `exportfile`, `importfile`, `syncfile`, `ic35status`, `main` |
| PIM files | `dataio.c`, `datavca.c`, `vcutil.c` | list of vObjects in memory, its iterator, files on disk, time stamps of the last and of this run | `pim_open`, `pim_getrec`, `pim_getrec_byID`, `pim_putic35rec`, `pim_delrec`, `pim_set_recid`, `pim_set_recstat`, `pim_close` |
| other PIM formats | `databin.c`, `datatxt.c` | array of binary records; text output only | the same operations through a table of functions |
| record conversion | `datavca.c`, `vcutil.c` | "object changed" (`_vobj_dirty`) | conversion of IC35 records to and from vCard/vCalendar properties, `Set...`/`...Value` of properties |
| record codec | `ic35frec.c` | a record's fields | `set_/get_ic35recdata`, `set_/get_ic35recfld`, `cmp_ic35rec` |
| tools | `vcaconv.c` | list of objects being sorted or converted | sort a file, make cards for a mobile phone, convert one format to another |
| sync transactions | `syntrans.c` | one receive buffer | `connect`, `authenticate`, `open_file`, `read_frec`, `read_mod_frec`, `write_frec`, `update_frec`, `delete_frec`, `commit_frec`, ... |
| sync link protocol | `synproto.c` | one transmit buffer | level 1 PDUs with acknowledge, level 2 and 4 commands and responses |
| serial line | `comio.c` | time-out, input the driver still holds | `com_send`, `com_sendw`, `com_recv`, `com_settimeout` |
| connection set-up | `genproto.c` | welcome state, "had SIGINT" | `welcome` |
| manager protocol | `mgrproto.c` | none | commands with acknowledge, blocks with checksum and retry |
| manager transactions | `mgrtrans.c` | header blocks of the database | backup, restore, memory card files and directories |
| commands of ic35mgr | `ic35mgr.c` | paths while walking a file tree | `backup`, `restore`, `mmcdir`, `mmcget`, `mmcput`, `mmcgettree`, `mmcputtree`, ... |
| utilities, log | `util.c` | log mask and file | printing, paths |
| vCard parser, vObjects | `vcc.c`, `vcc.y`, `vobject.c` | third-party library | parse, print, property trees |

### How they interact

Each program is one sequential process.  `ic35sync` calls `pim_open`, connects,
and then walks over the four IC35 files; every transaction with the organiser
is a call that sends one or more commands and waits, with a time-out, for the
responses.  The two sides therefore interleave only at transactions, but
*between* runs both replicas change freely: the user edits the organiser, which
marks the record new, modified or deleted, and the user's PIM programs edit the
files.  What one run leaves behind on both sides, complete or not, is what the
next one starts from.

### What is hard

* Both replicas change between runs, in any combination, and a record is
  identified on the PIM side only by the record-ID written into it.
* A transaction may fail, or be executed although its answer is lost.  Then the
  run gives up, keeps what it did so far, and does not write its stamp.
* The PIM files are written when the run ends; the organiser is changed record
  by record.  A run killed in between has changed one side only.
* VCARDs have no reliable change status: a revision time is compared with the
  stamp of the last complete sync, and the sync itself sets revision times.
* Phase 1b commits and phase 3b deletes record-IDs collected in earlier loops.
* `pim_delrec` frees the object on which the iterator stands.
* PIM files are renamed to their backups and written new, up to three of them one
  after the other; each step may fail or be the last.
* Both sides express different things: the IC35 has one category and at most 255
  bytes for a field, PIM programs do not know all its fields.  What one side
  cannot hold must survive a change made on that side, and converting a record
  again must not change it again.
* The sync link has no sequence numbers and never flushes its input: an answer
  that comes after the time-out is read as the answer to the next command.
* The manager protocol sends single bytes without number or frame.  It repeats a
  command or an acknowledge that was not answered, so that an answer that was
  only late, or a second acknowledge, meets a receiver that waits for something
  else.
* Its checksum is a sum of bytes: two errors may cancel.
* A transfer of a file tree goes on after a failure, but not to the second memory
  card after a failure of the first, and has one result for all its files and
  directories.

`PROJECT.json` lists every such hazard at its line under "hazards", with the
properties that cover it.

### What makes each part correct

* *sync*: a change is forgotten by the organiser only when the PIM records have it;
  nothing is deleted that the user did not delete; nothing is overwritten that was
  not edited on both sides; the stamp is written only when both sides match; after
  any failures repeated runs bring both sides together.
* *PIM files*: no two records share a record-ID; an update changes exactly one
  record; no record is lost from file and backup both, whatever happens in a run;
  what was written is what the next run reads.
* *link and transactions*: a transaction is one step on the IC35, made at most once,
  and its result is its own; every wait ends.
* *manager protocol*: a block is stored once, whole and in order, as long as its
  checksum tells.
* *ic35mgr*: what fails is reported by the exit code, with the exceptions of section
  4; nothing is written to the organiser from a file that does not match it.
* *record conversion*: conversion and back yields the record; doing it again changes
  nothing; what the other side cannot express stays.
* *tools*: sorting keeps every object; each record is converted once.

## 2. Modules

| module | models | how |
|---|---|---|
| `Ic35Base` | organiser, PIM records, user, frame of a run | `dev` maps a record-ID to contents and change flag; `pim` and `file` map a place in the PIM files, in memory and on disk, to record-ID, contents, status, and whether REV is newer than the stamp |
| `SyncFile` | `exportfile`, `syncfile` | one action per transaction and one per step between loops; `pc` names the loop |
| `ImportFile` | `importfile` | the same; `op` is the action collected for each PIM record |
| `Ic35Sync` | the program | composes the three, states the properties and fairness, and maps to the contract |
| `ReplicaContract` | what a run promises | abstract specification: sessions on two replicas, without files, phases, or failures |
| `SyncHistory` | `Ic35Sync` over many runs | history variables that follow its steps: what the user deleted and edited |
| `Ic35SyncProofs`, `HistoryProofs` | | theorems about `Ic35Sync`, its contract and what its stamp means, and about `SyncHistory` |
| `SyncLink` | level 1 of `synproto.c` over `comio.c` | operators: what sending a PDU does to the line, what `com_recv` may then read |
| `SyncTrans` | `sendcmd`, `recvrsp`, all transactions of `syntrans.c`, `welcome` of `genproto.c`, and the IC35 as they see it | one action per exchange of PDUs; a transaction's local variables are `loc`, what the IC35 does with a command is `IcExecutes` |
| `TransContract` | what callers of `syntrans.c` rely on | abstract specification: a transaction is one step, made at most once |
| `VObj` | property lists of `vobject.c`, helpers of `vcutil.c` | operators on an object and `_vobj_dirty` |
| `Ic35Rec` | `ic35frec.c` | a field is the string read from it and the length sent to the IC35 |
| `Convert` | the conversions of `datavca.c` | one operator per record type and direction, made of those for the fields |
| `Fields` | `vca_putic35rec`, `vca_updic35rec`, `vca_cmpic35rec` over many edits | one record on both sides, edited and converted to and fro |
| `PimFiles` | `pim_open` to `pim_close`, on disk, for the three formats | one action per system call of `backup_and_openwr`; `fopen` may fail, writes may be cut, the run may be killed |
| `VcaConv` | sorting, mobile phone cards, conversion of formats (`vcaconv.c`) | one action per step of the loops over objects |
| `MgrLink` | `mgrproto.c` over `comio.c`, and the IC35 and the line as it sees them | one action per call of `com_send` and `com_recv`, one per byte the IC35 reads; `call` is the activation of `Mcmdrsp`, `tries` the retries of `_xmitblk` |
| `Database` | `readdatabase`, `writedatabase` of `mgrtrans.c`, `backup` and `restore` of `ic35mgr.c` | extends `MgrLink` by the loops over blocks, the file, and the commands one after another |
| `MmcFiles` | `mmcget`, `mmcput`, `mmcdel`, `mmcgettree`, `mmcputtree`, `mmcdir` of `ic35mgr.c` over the file and directory calls of `mgrtrans.c` | one action per call that may fail; `card` is the loop over both cards, `stack` the activations of the recursive tree function |
| `SyncTransProofs`, `FieldsProofs`, `PimFilesProofs`, `VcaConvProofs`, `DatabaseProofs`, `MmcFilesProofs` | | theorems about the modules of these names |
| `MCIc35Sync`, `MCSyncHistory`, `MCSyncTrans`, `MCFields`, `MCPimFiles`, `MCMmcFiles` | | instances for TLC |

How they fit together: `SyncFile` and `ImportFile` take a transaction with the
organiser for one step that may fail, with or without its effect, and
`TransContract` states that; `SyncTrans` over `SyncLink` implements it.
They take contents for opaque values, compared and copied as a whole, which
`Fields` justifies for records both sides can express.  They save and kill a run
record by record; `PimFiles` refines that to files, backups and system calls.

Correspondence of the state, for a reader of the C code:

| here | there |
|---|---|
| `dev[id]`, flags clean/new/mod/del | record in the organiser, `ic35recchg()` 0, `IC35_NEW`, `IC35_MOD`, `IC35_DEL` |
| `pim[s]` | element of `vcalist`: `X-PILOTID`, contents, `X-PILOTSTAT`, `REV` |
| `newer` | `oldic35dt() < REV`; writing the stamp makes every `REV` old |
| `nrec`, `irec` | the variables of that name |
| `mleft` | records `read_mod_frec` has yet to deliver |
| `tab` | records `get_ic35rec` would return, in phase 1b, 3b or import |
| `todo` | records `pim_getrec` has yet to visit and that are not clean |
| `op` | `ic35op` of the entries of the record table |
| `same` | `ic35_same_as_PIM` |
| `line` | what the IC35 sent and `com_recv` has not read: an acknowledge, the id of a data PDU, its body |
| `ic` | the IC35: connected or not, its pending response, blocks of a record under way |
| `did` | history: has the IC35 executed the present transaction, on which record |
| `obj` in `Fields` | the properties of one vObject, in order; a string is a sequence of tokens, a date or time one number |
| `main`, `back` | the PIM files and their backups "~": lists of objects, the last perhaps incomplete |
| `list`, `vcal` in `PimFiles` | `vcalist`, `vcal` of `datavca.c`, or the array of `databin.c` |
| `toIc`, `toPc` | bytes on their way, and those the driver holds for `com_recv` |
| `mode`, `iblk`, `ibuf`, `db` | the IC35: what it waits for, which block, what came of it, its database |
| `blk`, `tries`, `buf` | `i` of the loops over blocks, `retry` of `_xmitblk`, `buff` |
| `file` in `Database` | what was written to the backup file; `fseek` and `fread` address it by place |
| `stack` | `dirp` and `rval` of each activation of the tree functions; `left` are the entries from `dirindex` on |
| `target` | the file where it is copied to: as it was, created or cut, whole |
| `made`, `Odd` | directories there are on the card; entries whose attributes are more than directory or archive |
| `vcal = Freed` | `vcal` points to an object that was deleted |
| `unseen` | history: a checksum agreed with data it was not made of, or `fclose` lost what was buffered |

A byte on the manager's line is an origin, a block and a place in it.  `chksum` of
`genproto.c` adds the bytes up; the model knows which data a sum was made of and
leaves its value open.  `SumAgrees` says what follows for a comparison: a sum agrees
with the data it was made of; it does not when one garbled byte is the whole
difference; in any other case, as with two garbled bytes of which one gained what
the other lost, it may or may not.  A sum that agrees with other data is remembered
in `unseen`.  `_recvblk` looks for the checksum at the end of the data when it did
not come, and in one of the two cases takes its bytes in the wrong order; as a block
that is short is refused anyway, both end as a mismatch here.  `mdisconnect` is one
step: it resets the IC35 and closes the line, whatever was on it.

What the model assumes of the IC35 in `SyncTrans`, as far as the code lets one
see: it executes a command when its PDU arrives, answers a request until it is
told that the exchange is over, and forgets the blocks of a record that is not
completed when another command comes.

### Failures

`CallFails` lets every transaction fail without effect; `AnswerLost` lets every
one that changes the organiser succeed there while the program sees a failure.
`WriteSysInfo` may fail unnoticed.  `Crash` kills the run at any step, also in
the middle of `pim_close`, when only some of the records were written.

In `SyncTrans` a PDU may be lost or garbled in either direction, an answer may
come after the time-out (it then stays on the line), and SIGINT may end the
welcome loop.  A body whose id was read for something else is read byte by byte,
and its bytes may look like an acknowledge or the beginning of a PDU.

In `PimFiles` the run may be killed between any two system calls, a `fopen` for
writing may fail, a write may be cut, at a record or in it, and a PIM program may
write the address file while the run talks to the organiser.

In `MgrLink` the line loses or garbles a byte (`LineFault`) and `com_recv` runs
into its time-out before an answer, or in the middle of a block, and returns what
has come so far (`Late`); in `Database` `fwrite` may write less than asked, which is
reported, and `fclose`, which is not (`CloseFails`).  In `MmcFiles` every call, to the
IC35 or to the local file system, and `malloc` may fail (`Failing`).  A file that
could not be closed is not whole, and the program goes on as if it were (`CopyEnds`).
Without memory for the path of a file `mmcgettree` passes a null pointer on, and the
run ends (`Crash`).

In `PimFiles` what happens after an object was freed that `vcal` still points to
(`Freed`) is left open: the event is lost, goes into another object, or the run ends.

## 3. Runs

| run | question | bounds |
|---|---|---|
| `AllCommands` | export, import and sync in any order: unique record-IDs, what the stamp means, is phase 2 complete, which change marks stay, is the evidence collected in phases 1a and 3a still true when used | two files, one of VCARDs with the owner's address; 4 record-IDs, 6 places, 3 edits, 1 failure, 1 kill |
| `Contract` | does every step of every command keep the contract | 2 record-IDs, 3 places, deletion marks, 3 edits, 1 failure, 1 kill |
| `History` | over many syncs, is anything deleted or overwritten without the user's doing | 2 record-IDs, 3 places, 4 edits, 2 failures |
| `Converges` | does every run end, and do repeated runs make both sides equal | VCARDs, 4 record-IDs, 6 places, 2 edits, 2 failures |
| `Link` | is every transaction one step on the IC35, with a result of its own, and does it end | 2 record-IDs, 4 calls, records of up to 3 bytes in blocks of 2, 3 welcome tries, 1 PDU lost or garbled, 1 late answer |
| `Fields` | what do conversions lose or change, for records edited on either side | 13 groups of fields of the four record types, those of events and to-dos for an unnamed program, Gnome Calendar and KOrganizer; 2 edits or midnights between conversions, `MaxFld` 6 |
| `PimFiles` | does a record survive in file or backup, does the next run read what was written; is sorting and converting complete | 2 runs, 1 failure, 1 write of a PIM program, one or all three files; lists of 3 to 5 objects to sort, 2 cards, 3 records to convert |
| `Database` | does a backup or restore that reports success hold every block, does a failed one leave no cut block in the IC35, does every command end | 2 blocks of 3 bytes, 1 retry of a command, 2 of a block, 2 faults, of which 1 may be a time-out |
| `MmcFiles` | which files arrive and which failures are reported, in a tree and alone; does every command end | two cards, one with 4 directories on 3 levels and 4 files, one with a file; a directory and a file with other attributes; files of 2 reads, 3 failing calls |
| `FreedIterator`, `EditLost`, `SecondFile` | counterexamples, see section 4 | as small as they allow |

Why these bounds: the longest chain of dependent events in the sync is *edit
here, edit there, failing sync, sync, sync*.  Two edits reach each
conflict of one record; four edits allow a record made and changed on both
sides and another one to be mistaken for it.  A failure in each of
two runs reaches retries of retries.  Four record-IDs in two files let a lost
answer leave a record behind and be followed by another write.  The number of
runs is not bounded.  Places always outnumber record-IDs, as the PIM files have no
limit; `PlacesLeft` keeps a place for every record-ID.  Symmetry is used on
contents only, and in no run with a temporal property.

For `Link`: three bytes in blocks of two (80 and the IC35's own block size in
reality) make a first and a last block in both directions; four calls are a
connect, a transaction whose answer comes late, the one that reads it, and what
follows.  Each kind of fault happens once; section 4 says what more of them do.

For `Fields`: a record differs in one group of fields at a time, which the code
treats independently but for alarms with times and notes with the properties
kept in them; those are in one group.  `MaxFld` stands for 255 and is exceeded by
one of the notes.  Two edits make one before and one after a conversion on the
other side.  A text is at most six tokens: marks, newlines and words, whatever
`vcutil.c` tells apart.

For `PimFiles`: the second run meets what a failure in the first one left behind;
of three files one can fail before, between and after the others.

For `Database`: three bytes are the fewest for which losing one leaves a block that
`_recvblk` still tries to match (two bytes), and garbling one is told from losing
one; two blocks are the fewest for which one may be taken for another, and of which
one is not the last; two faults (`Bounded` counts bytes lost or garbled, failing
writes and time-outs together) reach a garbled block whose acknowledge is lost as
well, or two bytes of a block that cancel in its sum.  Any number of commands follow
each other, so that a restore may find what a failed backup left; but once something
went wrong unseen nothing is claimed any more, and the run follows this command to
its end only.  The constant `MaxRetry` is 5 in the code and 2 here: with two faults
a third try always succeeds.  For `MmcFiles`: two subdirectories in one place let
the result of the second hide that of the first, three levels let it get lost on the
way up, and three failures are one for each level; the second card is there for what
the first one does to it.

Deadlock is checked where the program can always go on: in the sync, `MmcFiles` and
`Link` runs.  `Fields`, `PimFiles` and `SecondFile` stop when their edits or runs
are used up, `Database` when a command has ended in which something went wrong unseen.

### Fairness

In `SyncTrans`, `Database` and `MmcFiles` `FairSpec` is weak fairness of the program
(with the IC35, which reads what it has been sent): every wait has a time-out.
Faults have no fairness, and starting a command none.  Nothing says that the
IC35 answers before the time-out, but for the bound on late answers, and in the
welcome loop not even that the user ever starts it.

For the sync commands:
`FairSpec` is weak fairness of the program's next step: the program is
sequential, never waits without a time-out and never waits for the user.
`SyncingSpec` adds that the user, once idle, runs `sync` again.  Edits, failures
and kills are bounded and have no fairness: `Converges` is about the time after
the last one.  It is checked without kills, since a run killed between commit
and `pim_close` leaves a difference no later sync sees (below).

## 4. What the runs show

Every property is also checked to be violated by a plausible bug in the code:
operators marked `mutant` stand before the definitions they replace.

### Sync

The passing runs confirm the order of phases: what `syncfile` collects in
phases 1a and 3a stays true until used, for any interleaving of changes made
before; the stamp is reached only over matching replicas; lost answers at worst
leave a record twice on the organiser, until phase 3 deletes the copy no PIM
record refers to (`orphan` in `SyncHistory`).  With the exceptions named, what
README lines 144 to 151 of the repository promise holds.  The exceptions:

* `EditLost`: a VCARD edited in the PIM file and deleted on the organiser
  survives the first sync as unresolved; its stamp makes REV old, and the second
  sync deletes the card and its edit.
* `FreedIterator`: phase 2 goes on from a freed record after deleting one, and may
  miss the others.
* Phase 1b tells the organiser to forget a new record before the PIM file has it
  (`ic35sync.c:587`).  Killed in between, the next sync deletes it there, as no PIM
  record refers to it.  `History` is therefore without kills.
* A record modified in the PIM file and deleted on the organiser stays in the PIM
  file only (`Unresolved`).
* A sync that fails after updating a VCARD leaves a REV later than the stamp, so
  that the next sync overrides an edit on the organiser with contents no one
  edited.  `OverrideNeedsEdit` is checked for memos, and fails when `History` is
  given VCARDs.
* The initial export of VCARDs leaves their change marks, as their new REV makes
  phase 1a see a conflict (`MarksLeftAreConflicts` excepts them).
* Import leaves a PIM record dirty that equals its IC35 record (`Action`); the
  next sync lets it override an edit on the organiser.

### Transactions

`OneStep` holds with one PDU lost and one late answer although nothing is
numbered: after a late acknowledge every command reads the answer of the one
before, which has another id, and fails.  Commands may then be executed that are
reported as failed; this is what `AnswerLost` in `SyncFile` allows for.  The bounds
matter.  Read off the model with larger ones: with two losses a response can be
taken for that of the next command, as `_read_frec` does not look at the result of
`sendcmd` (`syntrans.c`: the exit PDU lost, then the init PDU of `fgetmore`), and
wrong data is returned as good; so with three late answers, or with one late
data PDU whose text contains the bytes F0 F1 of acknowledges: `TextBytes` in
`Link.cfg` has no F0.

How much of this depends on the bounds is proved (section 5): as long as no answer
is late, every result is the transaction's own for any number of lost PDUs, but
that of a record read in several blocks, which holds for one.  After a late
answer results may be wrong, but the IC35 still changes only by the transaction
being done, with one exception.  TLC finds it with two late answers and two
lost PDUs (6 answers may be late, 2 PDUs lost, 4 calls, one record-ID): a write fails
after its first block, which stays in the IC35; the first block of the next write
is lost while acknowledges that came late are taken for its own; and the second
block of that write is added to the first block of the one before.
`NoStrayStep` in `SyncTransProofs` therefore excepts the blocks that continue a
write, and `TypeOK` bounds a record's length only while nothing was late.

`NotLeftConnected` excepts lost and late answers: SIGINT while the IC35 says that
it is ready closes the line and leaves it connected.

### Records

`PutGet` and `UpdateSettles` say that a converted record compares equal, in both
directions, so that the next import finds nothing to do; `PutTwice` that an export
does not let all records look modified; `ForeignKept` that a photo, further
categories and an organisation's unit survive changes on the IC35.  They are
claimed where both sides can express a record (`Supported` in `Fields`).
Outside of it, met on the way:

* names: `datavca.c:218` reads the property of the name parts where the full name
  is meant, so that FN is never parsed and a card without N becomes "NoName", in
  contrast to the comments in lines 81 and 219; removing one of two names can
  delete FN until the next put; with equal names ("Ann Ann") the wrong one is
  replaced in FN (`NamesInFull` wants them different).
* telephone and email: a number with HOME and FAX is read as home and deleted by a
  put; a number without type is duplicated or comes back; an empty first
  email moves the second one up, and a third one is taken for it; two emails in
  front of all other properties change places when the last property is deleted,
  as the list of properties is circular.
* categories: of several non-standard ones the first is taken and a new one is put
  in front of them.
* notes: marked lines (DEF1, DUE, ...) that are not in front, or the last of them
  without newline, count as text; a leading newline is dropped; a note longer
  than the IC35 holds is cut in the PIM file as well after an unrelated edit.
* events: an alarm with both mute flags set is lost; KOrganizer has display alarms
  only; the end date of a rule without end stays as it was; weekly rules get the
  weekday of their start; Gnome Calendar's further summary lines and a
  DESCRIPTION exclude each other; missing dates are today's, and change at
  midnight (`Midnight`).
* to-dos: for a STATUS other than two known ones `datavca.c:728` to 730 append to
  the value instead of the note, which gets "STATUS:" only (line 609 announces more);
  priorities and completion are normalised.
* `cmp_ic35rec` ignores the category-ID and the strange seconds some times have.

### PIM files and tools

`LastCopy`: what a run found, or a PIM program wrote before the files were renamed,
is in file or backup until the next run starts, for any single failure.  That is
all: after a failed `fopen` of the address file the VCARDs are in its backup only,
the next run takes the missing file for empty, removes the backup, and its sync
deletes the unmodified records on the organiser.  `ReadBack` says that an
undisturbed run is read back, also with an unopened calendar file; a memo file that
could not be opened has its memos in the calendar file, whose first object is then
taken for the calendar (`MemosMoved`).  An event put by the next run goes into the
memo (`datavca.c:1228`, `1259`) and is written inside it; the parser knows no event
in a memo (`vcc.y:311`), so that the calendar file cannot be opened any more.
`ReadBack` excepts this case only (`Nested`).  A memo that is deleted while it is
taken for the calendar leaves `vcal` pointing to freed memory (`Freed`).  A file
truncated between two records is read as one with fewer records; a truncated binary
record is dropped silently; a second calendar in the calendar file is dropped too.
Files with one calendar each are assumed.

`SecondFile` is a counterexample: with one file for calendar and memos, `vca_open`
cuts off what follows the calendar, and memos written there are not read back.

`SortedWhole` checks the program's own order: an object without X-PILOTID comes
last, as its record-ID is -1 and compared without sign (`vcaconv.c:127`), and
properties outside the two lists are ordered by their names.

`TelnoValue`: separators are taken out of a number in place, and no new end is set
(`vcaconv.c:443` to `449`), so that "0/1" becomes "011": a number with separators
ends in digits that were not in it.  `HandyMade` therefore says that a card's number
begins with the digits of the one it is made from, and is that number when it has no
separators.

`HandyMade` leaves out inputs that already have cards for the phone: the loop of
`imphandy` deletes the element it stands on, whose link is cleared, and stops
(`vcaconv.c:516`, `vobject.c:644`).  A long name loses the end of
the suffix that tells its numbers apart.  What is left of the suffix still tells the
numbers apart, but for one case the proof shows: the first number of a card has no
suffix, and a name whose 15th character on reads like one (`-pri`, `-mob`) is cut
to the same 18 characters with and without it (`vcaconv.c:480`).  `CardsAssumption`
excludes names with a `-` there.  `bin2vca` takes all records without
record-ID for one (`ConvertedOnce` excepts them).

### Manager

Within the bounds of the run a backup or restore that reports success is complete,
as long as no checksum agrees by chance and `fclose` loses nothing: the checksums
and the counted retries keep both sides on the same block although bytes carry no
number.  The sum of `genproto.c:117` tells one garbled byte, not two that cancel:
given them, a block that was never sent is stored in the file or in the IC35 and
exit code 0 returned.  The four properties are then false of the program and do not
claim to hold (`unseen`), nor when `fclose` loses data at `mgrtrans.c:774`.  The
limits of the argument show beyond the bounds.  `BackupWhole` leaves out runs with a late
answer: after it `Mcmdrsp` has acknowledged twice, the IC35 is a block ahead, and
what it repeats after a mismatch is another block than the one that was garbled
(`BackupGenuine` still holds: each block is whole).  With more failures than the run
allows the same happens elsewhere: `BackupWhole` fails with three faults and no late
answer, `RestoreWhole` with one fault and two late answers.  All of this depends on
how the IC35 takes a second acknowledge, which the code does not say; the model
takes the worst case, that it is taken for the next block's.  What holds beyond all
bounds, with the same exception, is that no block of a backup is made up of parts
(`GenuineBlocks`).
`BlocksWhole` fails with one fault and two late answers like `RestoreWhole`.  For
larger `MaxRetry` a restore would fail even without late answers (read off the
model, not checked): each garbled answer to `info` is asked for again and may leave
bytes on the line, and with enough of them what is read as the checksum of one try
is what an earlier one left.  The bound on errors is thus part of these properties,
not of the check only.

What does the harm is always an answer of one byte (`gotcmd`, `gotdata`, `gotack`)
that is lost, garbled or late, for then `Mcmdrsp` repeats a command that the IC35
has already obeyed.  Nothing else does: `WholeBackup`, `WholeRestore` and
`WholeBlocks` prove the three properties for any sizes and any number of errors in
everything but these answers, that is in the blocks, the checksums and what the
program sends, failing writes included, until something goes wrong unseen.  The line
is then empty whenever a command goes out: of a block that was cut short nothing
remains to be taken for an answer.

The comment in `mgrtrans.c:799` says that restore aborts when the file does not
match the IC35; line 871 prints the mismatch and restores the file, and so does the
model.

For file trees `OthersArrive` confirms that on one card a failure costs no file but
those below it.  Of two cards the first that fails ends the command, and the other
one is never looked at, but then the command returns the failure (`ic35mgr.c:180`,
`563`).  `mmcgettree` passes over entries that have more attributes than directory
or archive, such as read-only ones (`ic35mgr.c:522`), without a word and with exit
code 0 (`LeftOut`).  `mmcdir` asks for the label of the first card whichever it
lists (`ic35mgr.c:175`).  And `DirFailureKept` that directories that fail to open or
close are reported from any depth.  Other failures are not: results of files are
ignored (`ic35mgr.c:519`), a directory that cannot be read further counts as read,
one for whose path there is no memory is left out, and `mmcputtree` overwrites the
result of one directory by the next.  `mmcput` empties the file on the card before
it opens the local one, and exits with 0 when that fails, or when there is no memory
for its buffer (636; 441 for `mmcget`).  What `fclose` and `mmc_closefile` return is
ignored (429, 445, 638), so that a file may be incomplete with exit code 0.
`SingleReported` excepts these three.

## 5. Proofs

`Ic35SyncProofs` proves, for any numbers of files, records, places, contents and
any bounds, from the named assumptions on constants in `Ic35Base`:

* `TypeCorrect`: `Spec => []TypeOK`.
* `IdsUnique`: `Spec => []PimIdsUnique`.  Inductive invariant `IdInv`: besides
  uniqueness in memory and on disk, every record-ID in a PIM record has been born
  on the organiser.  Without it a record-ID just given by the organiser could
  already be in use.
* `CommitsMirrored`: `Spec => []CommitMirrored`.  Inductive invariant `MirrorInv`:
  the table is empty until phase 1a starts to fill it, and during phases 1a and
  1b all of it is mirrored.  It needs `IdInv`: taking over one record must not
  disturb the PIM record of another.
* `DeletesSettled`: `Spec => []DeleteSettled`.  Inductive invariant `SettleInv`:
  phase 1a has counted all records with a change mark (`ChangesCounted`), and
  from then on each of them is in some PIM record (`ChangesKnown`); so what phase
  3a misses in the PIM records has no mark.  This answers the question the
  source asks at lines 485 and 709 of `ic35sync.c`.
* `AllPushed`: `Spec => []Phase2Complete`, when PIM programs drop deleted records
  instead of marking them; with marks `FreedIterator` refutes it.  Inductive
  invariants: `NoMarks`, no record is marked deleted, and `PushInv`, in phase 2 every
  dirty record is yet to be visited or equal to the one on the organiser.

The same module proves `ContractKept`, that `Spec` implements the step relation of
`ReplicaContract`, for files without VCARDs.  Its inductive invariant `CInv` adds to
those above which command is at which `pc`, that a record-ID is in the records of its
own file, that an initial export in a sync finds no changed PIM records, and that
what was collected (`mleft`, `todo`, `tab`, `op`) still stands for what it was
collected for.  There is one lemma for each kind of step of the
contract and each kind of program step that it does not see.

It proves two theorems more, when PIM programs drop deleted records
(`PimMarksDeleted = FALSE`; with marks, `FreedIterator` shows a sync that leaves
modified records behind), for any commands, files, failures and kills:

* `StampMirrors`: `Spec => []StampMeansMirror`, and `MarksAreConflicts`:
  `Spec => []MarksLeftAreConflicts`.  Their common inductive invariant `StampInv` says
  for each phase what the loops left to do and what they have settled: phase 1b
  leaves change marks at conflicts only (`MarksInv`), phase 2 has written all modified
  records (`AllPushedInv`), a clean PIM record equals the one on the organiser
  (`CleanMatch`, without kills), and the files done stay so while the next is worked
  on (`DoneSettled`, `DoneMarks`).  It stands on the invariants above.

`HistoryProofs` proves about `SyncHistory`, over any number of runs:

* `DeviceDeletes` and `FileDeletes`: nothing vanishes on either side that the user
  did not delete.  Inductive invariant `HistInv`: marks of deletion tell of what the
  user deleted (`MarkDeleted`, `PimMarkDeleted`), a run takes no other record from
  the PIM records (`RunKeeps`), a record without change mark is in them or was never
  known to them (`CleanKnown`), and one that is gone while they have it was deleted
  (`GoneDeleted`).  Assumed: no kills, which refute them, and no import, which
  deletes on purpose.  VCARDs are included.
* `OverridesEdited` and `EditsSurvive`: what is overwritten was edited on both
  sides, and no edit gets lost.  Inductive invariant `EditInv`: the dirty PIM
  records are those the user edited.  Assumed (`SyncOnly`): sync only, no VCARDs
  (`EditLost` refutes it with them), no deletion marks, no kills.

`MmcFilesProofs` proves, for every tree, number of calls per file and bound on
failures, from `TreeAssumption` and, for `OthersDoArrive`, `RootedAssumption`
(the root is above every file):

* `SinglesReported`: `Spec => []SingleReported`. `OthersArrive` and `SingleReported`
  name their exceptions, which are what the code does not report (section 4); the
  theorems say that there are no others.
* `DirFailuresKept`: `Spec => []DirFailureKept`.  The inductive invariant `MmcInv`
  adds `Position`, what the program works on at each place, and `DirFailureHeld`: a
  failure met is in the result of some activation on the stack, or returned.
  `ReturnsKeeps` shows that leaving a directory hands it on.
* `OthersDoArrive`: `Spec => []OthersArrive`.  The inductive invariant is
  `ArriveInv`: of every file neither whole nor excused by a failure, the file or a
  directory above it is still to be done, as an entry not yet read in some
  activation or as what is worked on; or its card is still to come, or will never
  be, and the command failed.  `UpAndDown` goes from a directory about to be opened
  to the entry of it that leads to the file; `Above` is a least fixed point rather
  than a recursion so that this can be proved.

* `TypeCorrect`: `Spec => []TypeOK`.  The recursion of the tree functions has no
  limit in the code.  That the stack is bounded follows from `Nested`: the
  directories open in it form a path from a card, in which none comes twice, as a
  card has no parent.

`SyncTransProofs` proves about `SyncTrans`, for any number of tries and calls, sizes
of records and blocks, and bounds on faults:

* `ResultsRight`: until an answer is late, every step is one of `TransContract`, for
  any number of lost PDUs (one while the blocks of a record are read).
* `NoStrayChange`: whatever is lost or late, the IC35 changes only by the
  transaction being done, and once, with the exception of section 4.
* `ContractOfTrans`: `Spec => OneStep`, the refinement the run checks, when no
  answer is late (`MaxLate = 0`) and one PDU is lost or every record is one block.
  `OneStep` is false for larger bounds; the run's own bounds, with one late answer,
  stay with TLC.
* `NotLeftOn`: `Spec => []NotLeftConnected`, with SIGINT at any moment.
* `TypeCorrect`: `Spec => []TypeOK`.

  The inductive invariant `Inv` consists of `Shape`; `CmdInv`, which command belongs
  to which place of which transaction; `DidInv`, what of the command the IC35 has
  done; `InTimeInv`, what the line and the IC35 hold when nothing was late: the
  answer to what was sent last or nothing; and `OffInv`, the same for a line being
  closed when nothing was lost either.  The parts without condition are those that
  `NoStrayChange` is left with after a late answer.

`FieldsProofs` proves about `Fields`, for any fields entered on the IC35, any properties
written by PIM programs and any number of edits, from `FieldsAssumption`:

* `FieldsTyped`: `Spec => []TypeOK`.
* `ForeignStays`: `Spec => []ForeignKept`.  The proof makes no use of `Supported`: what
  is foreign to the IC35 stays also where the conversions are not inverse to each other.
* `FullNamesStay`: `Spec => []NamesInFull`.  It is enough that the two old names differ.
  A new name may be an old one: the old last name is found at the end of the full name
  and then the old first name at its beginning (`NamesSwapped`).

The inductive invariant `FieldsInv` says that the PIM record is an `Object` and the
IC35 `Held` the data of a record whose fields are in bounds (`Good`).  None of the
three theorems' properties is inductive alone: what a setter does to a list of
properties depends on which are in it, and lengths and bytes must agree for the
fields to be read back. Its lemmas are, from below: strings and how a piece of one
is found and replaced; what each setter of `VObj` changes, namely its own property
and no other (`Does`); what is read from properties, notes and categories; that what
is sent to the IC35 is read from it again, field by field (`DataSo`); and the two
directions for each type of record (`PutSo`, `UpdSo`).

`FieldsAssumption` is about inputs only.  Strings are finite lists; a first or last
name is one word; a property other than telephone numbers and email addresses occurs
once, for the code looks for the first of a name (`isAPropertyOf`) and deletes one;
lines of a PIM record's texts end in newlines, as the parser leaves them; the IC35
offers one category to choose. The inputs of the run satisfy it, which TLC checks.
Outside of it, for names of several words or cards with two addresses, nothing is
claimed.

`PimFilesProofs` proves, for any files, records, formats, number of runs, failures
and kills:

* `NoLastCopyLost`: `Spec => []LastCopy`.  Inductive invariant `CopyInv`: while a
  run is under way, each record that was found can be read from a file not yet
  renamed, or from the backup of one that is; it rests on which files are renamed,
  and which are still to be, at each place (`FilesInv`, `ListsInv`).
* `WrittenIsRead`: `Spec => []ReadBack`, from two assumptions about files: they have
  one calendar, and everything is where it belongs or all in the address file
  (`CalendarsFound`); whoever names a file for events names one for memos
  (`MemosNamed`, without which `SecondFile` refutes it).  An event in a memo is
  excepted, as in the run.  Inductive invariants: `InMain`, the files hold one
  calendar; `InList`, the list in memory does, and `vcal` points to it or to a memo
  of the calendar file; `DoneInv`, a file already written is open for writing, or
  gone; `OtherInv`, the other formats have no calendars.
* `TypeCorrect`: `Spec => []TypeOK`, from `CalendarsFound`.

  What a file is to hold is a fold over the list (`Output`), written as a recursive
  function; facts about it are proved by induction, for which the module has a
  lemma about sets of numbers (`LeastNat`), as the library's take an operator.

`VcaConvProofs` proves `EachConverted`: `ConvSpec => []ConvertedOnce`, for any records
whose record-IDs, but zero, are their own in their file (`RecordsAssumption`).  The
inductive invariant `ConvInv` says that what is written and what is yet to be got
are two halves of what was read (`Halves`), each record in one of them and once.
That a new record is put behind the last of its file rather than at the end
(`bin_putic35rec`) is why it needs `Inserted`, about any place in the list.

It proves `HandyNumbers` too: `ConvSpec => []HandyMade`, for any list of cards that
satisfies `CardsAssumption`; of the numbers it needs how they are shortened in place
(`Place`).  The invariant `HandyInv` says that the cards made are those of the first
k objects of the list and that it stands at the next (`FirstDone`), unless there was
a card for the phone.  What is made for one object (`CardsComplete`) rests on
`SuffixesTell`: whatever is cut off, a suffix is seen up to its second character,
and by that the suffixes differ.

`DatabaseProofs` proves `GenuineBlocks`: `Spec => []BackupGenuine`, for any number
and size of blocks, retries, faults and late answers.  The inductive invariant says
which bytes can be on the line (`LineInv`) and that during a backup the checksums on
it are those of blocks the IC35 holds (`AskedInv`); which call of `Mcmdrsp` is under
way for which command (`CallInv`); that no byte of a checksum gets into the file or,
by a restore, into the IC35 (`FileInv`, `RestoreInv`); and that each block received
so far is one of the database, at its place (`BlocksInv`).  All of this is true as
long as nothing went wrong unseen: the theorem is about every step of which that can
be said (`NothingUnseen`), and its statement has the exception of the property.

The same module proves `WholeBackup`, `WholeRestore` and `WholeBlocks`:
`Spec /\ [][AnswersKept]_vars` implies `[]BackupWhole`, `[]RestoreWhole` and `[]BlocksWhole`.
`AnswersKept` says of the line that no answer byte at the head of what comes is lost
or garbled and that nothing is late; faults in all other bytes remain, as many as
`MaxFaults` allows, which is any number.  Without it the three are false (section
4). The inductive invariant is `InStep`: at each place in the command it says what
the IC35 is doing, which block it holds and what can be on the line (`At`,
`Checking`, `Unheard`, `Answered`).  The properties alone say nothing about the
line, on which a byte left over would be taken for the next answer.  TLC checked
`InStep` under `AnswersKept` on several sizes before.  On top of it `SavedInv` says
what has been copied so far and `WholeInv` that each block in the IC35, and each
full one in the file, is one of the two originals; the latter is what a restore of
the leftovers of a failed backup needs.

Each proof has one lemma or step per action; lemmas on the operators that change
PIM records (`PutIds`, `PimIds`) are shared.

Only model-checked:

* liveness (`RunEnds`, `Converges`, `CallEnds`, `CommandEnds`), which is beyond the
  prover;
* `BackupWhole`, `RestoreWhole` and `BlocksWhole` when answers of one byte are lost
  or late too: there they are false beyond small bounds (section 4), and a theorem
  would have to count errors against bytes left on the line;
* `OneStep` with a late answer, for the same reason;
* `PutGet`, `PutTwice` and `UpdateSettles` of `Fields`.  `FieldsProofs` shows that
  each property is left alone by the setters of all others, but for these three the
  conversions to and fro have to be composed for every field, with all that marked
  lines in front of a note can look like to the setter of another;
* `SortedWhole`: the library defines sorting by a choice that no list satisfies in
  which two different objects compare equal, and TLC replaces it.

## 6. Not modelled

See "components" in `PROJECT.json`.  `ic35status` only reads.  The layout of text
output, of binary records and of PDUs, character sets and quoted-printable
encoding, the settings of the serial line, option parsing and logging are left
out; no property is about them.  Of a PIM program's writes those to the address
file while a run is under way are in `PimFiles`; those in the moments of
`pim_close` are not.  Edits on the organiser during a run are
taken to be impossible.  The parser (`vcc.y` and `vcc.c`, generated from it) and memory management
and output of the object library are third-party code; what the program relies
on in them is external in `PimFiles` and `VObj`.

## 7. Plan

What would add most from here:

1. Theorems: a restore and a backup are whole for a bounded number of lost answers
   and any sizes, with the bytes left on the line bounded by the errors so far;
   `UpdateSettles` from the lemmas of `FieldsProofs`, first for the fields with a
   property of their own.
2. `SyncTrans` with the order of bytes in a late data PDU, to say which texts make a
   response be taken for another's.
3. `ContractKept` with VCARDs, for the contract with the exceptions of section 4.
