------------------------------ MODULE MmcFiles ------------------------------
(***************************************************************************)
(* Files of the two memory cards: mmcget, mmcput, mmcgettree, mmcputtree,  *)
(* mmcdir and mmcdel of ic35mgr.c over the file and directory calls of     *)
(* mgrtrans.c.  A call to the IC35, to open, read, write, close, succeeds  *)
(* or fails; so does one to the local file system, and malloc().           *)
(***************************************************************************)
EXTENDS Naturals, Sequences, FiniteSets

CONSTANTS
  Dirs, Files,  (* directories and files of both cards, or the local ones  *)
                (* of the same names                                       *)
  Card,         (* the directory of each card                              *)
  Parent,       (* where each file and each other directory is             *)
  Odd,          (* those with more attributes than directory or archive,   *)
                (* and locally what is no regular file                     *)
  NChunks,      (* read or write calls a file needs                        *)
  MaxFaults     (* bound on failing calls                                  *)

Roots == {Card[1], Card[2]}
ASSUME TreeAssumption ==
  /\ Card \in [1 .. 2 -> Dirs] /\ Card[1] # Card[2]
  /\ Dirs \cap Files = {} /\ IsFiniteSet(Dirs \cup Files)
  /\ Parent \in [(Dirs \ Roots) \cup Files -> Dirs] /\ Odd \subseteq DOMAIN Parent
  /\ NChunks \in Nat \ {0} /\ MaxFaults \in Nat

(* The directories above a file or directory: the least set with its       *)
(* parent, and the parent of each of its members.                          *)
UpClosed(S, n) == /\ n \notin Roots => Parent[n] \in S
                  /\ \A d \in S \ Roots : Parent[d] \in S
Above == [n \in Dirs \cup Files |->
            {d \in Dirs : \A S \in SUBSET Dirs : UpClosed(S, n) => d \in S}]

ASSUME RootedAssumption == \A n \in DOMAIN Parent : Above[n] \cap Roots # {}

VARIABLES
  cmd, pc, rval, (* command or "none", place in it, result so far          *)
  arg,           (* the file or directory it works on                      *)
  card,          (* the card, when it works on both; else 0                *)
  target,        (* how far each file has come to where the command copies *)
                 (* it, or whether it is listed or deleted                 *)
  made,          (* the directories there are on the cards                 *)
  stack,         (* activations of the tree function: directory, entries   *)
                 (* not yet read, result                                   *)
  cur, chunks,   (* file being copied, calls left for it                   *)
  failed         (* history: <<call, file or directory>> that failed       *)

vars == <<cmd, pc, rval, arg, card, target, made, stack, cur, chunks, failed>>

Trees    == {"gettree", "puttree", "dir"}
Singles  == {"get", "put", "del"}
Entries(d) == {n \in DOMAIN Parent : Parent[n] = d}
NoFile   == Card[1]

Failing(call, n) ==
  Cardinality(failed) < MaxFaults /\ failed' = failed \cup {<<call, n>>}

Top == stack[Len(stack)]
SetTop(frame) == [stack EXCEPT ![Len(stack)] = frame]

Init ==
  /\ cmd = "none" /\ pc = "idle" /\ rval = "OK" /\ arg = Card[1] /\ card = 0
  /\ target = [f \in Files |-> "absent"] /\ made = Dirs
  /\ stack = <<>> /\ cur = NoFile /\ chunks = 0 /\ failed = {}

Begin(c) ==
  /\ pc = "idle" /\ cmd' = c
  /\ target' = [f \in Files |-> "absent"]
  /\ made' \in IF c = "puttree" THEN {Roots, Dirs} ELSE {Dirs}
  /\ UNCHANGED <<stack, chunks>>

(* The path is sound, the IC35 connected and the card present.             *)
Start(c, n) ==
  /\ Begin(c) /\ rval' = "OK" /\ arg' = n /\ card' = 0 /\ cur' = n /\ failed' = {}
  /\ CASE c \in {"gettree", "puttree"} -> n \in Dirs /\ pc' = "opendir"
       [] c \in {"get", "put"} -> n \in Files /\ pc' = "open"
       [] c = "del" -> n \in Files /\ pc' = "delete"
       [] OTHER -> FALSE

(* mmcdir, and mmcgettree without a path: both cards                       *)
StartBoth(c) ==
  /\ c \in {"gettree", "dir"} /\ Begin(c)
  /\ rval' = "OK" /\ arg' = Card[1] /\ card' = 1 /\ pc' = "card"
  /\ cur' = NoFile /\ failed' = {}

(* no connection, or mmc_status fails, or finds no card where the path     *)
(* names one                                                               *)
StartFails(c) ==
  /\ Begin(c) /\ rval' = "ERR" /\ pc' = "end"
  /\ arg' = Card[1] /\ card' = 0 /\ cur' = NoFile /\ failed' = {<<"connect", Card[1]>>}

-----------------------------------------------------------------------------
(* One card after the other: the first failure ends the command.           *)
CardDone(rc) ==
  /\ rval' = rc
  /\ IF rc = "OK" /\ card = 1 THEN card' = 2 /\ arg' = Card[2] /\ pc' = "card"
     ELSE pc' = "end" /\ UNCHANGED <<card, arg>>

(* mmc_status finds the card, or none, or fails                            *)
CardStatus ==
  /\ pc = "card"
  /\ \/ /\ UNCHANGED <<failed, rval, card, arg>>
        /\ pc' = (IF cmd = "dir" THEN "label" ELSE "opendir") /\ cur' = arg
     \/ Failing("absent", arg) /\ CardDone("OK") /\ UNCHANGED cur
     \/ Failing("status", arg) /\ CardDone("ERR") /\ UNCHANGED cur
  /\ UNCHANGED <<cmd, target, made, stack, chunks>>

(* mmcdir asks for the label of the first card, whichever it lists         *)
CardLabel ==
  /\ pc = "label"
  /\ \/ pc' = "opendir" /\ UNCHANGED <<failed, rval, card, arg>>
     \/ Failing("label", arg) /\ CardDone("ERR")
  /\ UNCHANGED <<cmd, target, made, stack, cur, chunks>>

-----------------------------------------------------------------------------
(* mmcget, mmcput: one file                                                *)

(* return from the copy of a file: the trees ignore its result             *)
CopyReturnsAbort(rc) ==        \* mutant: a failing file ends its directory
  /\ cur' = NoFile /\ chunks' = 0
  /\ IF cmd \in Trees
     THEN /\ pc' = "readdir" /\ UNCHANGED rval
          /\ stack' = IF rc = "OK" THEN stack
                      ELSE SetTop([Top EXCEPT !.left = {}, !.rval = "ERR"])
     ELSE pc' = "end" /\ rval' = rc /\ UNCHANGED stack

CopyReturns(rc) ==
  /\ cur' = NoFile /\ chunks' = 0
  /\ IF cmd \in Trees THEN pc' = "readdir" /\ UNCHANGED <<rval, stack>>
     ELSE pc' = "end" /\ rval' = rc /\ UNCHANGED stack

Same == UNCHANGED <<cmd, arg, card>>

(* _ic35mmcpath(path, 1): mmcputtree opens each directory of the path, or  *)
(* creates it, and ignores whether it could.  None can be made within one  *)
(* that is not there.                                                      *)
MakeDirs ==
  /\ pc = "mkdir" /\ pc' = "open" /\ Same
  /\ \/ UNCHANGED failed /\ made' = made \cup Above[cur]
     \/ \E d \in Above[cur] \ made :
          Failing("mkdir", d) /\ made' = made \cup Above[d]
  /\ UNCHANGED <<rval, target, stack, cur, chunks>>

(* mmc_openfile and mmc_statfile; opened for mmcput, the file is created   *)
(* or truncated                                                            *)
OpenFile ==
  /\ pc = "open" /\ Same /\ UNCHANGED made
  /\ \/ /\ UNCHANGED failed /\ pc' = "fopen" /\ Above[cur] \subseteq made
        /\ target' = [target EXCEPT ![cur] =
                        IF cmd \in {"put", "puttree"} THEN "part" ELSE @]
        /\ UNCHANGED <<rval, stack, cur, chunks>>
     \/ Failing("open", cur) /\ CopyReturns("ERR") /\ UNCHANGED target
     \/ /\ ~(Above[cur] \subseteq made) /\ UNCHANGED failed
        /\ CopyReturns("ERR") /\ UNCHANGED target

(* malloc of the buffer, then fopen of the local file: a failure is        *)
(* reported, but not returned                                              *)
OpenLocal ==
  /\ pc = "fopen" /\ Same /\ UNCHANGED made
  /\ \/ /\ UNCHANGED failed /\ pc' = "copy" /\ chunks' = NChunks
        /\ target' = [target EXCEPT ![cur] = "part"]
        /\ UNCHANGED <<rval, stack, cur>>
     \/ /\ \E call \in {"nomem", "fopen"} : Failing(call, cur)
        /\ CopyReturns("OK") /\ UNCHANGED target

CopyUnreported ==              \* mutant: a failing call is taken for the end
  /\ pc = "copy" /\ chunks > 0 /\ Same /\ UNCHANGED made
  /\ \/ UNCHANGED failed /\ chunks' = chunks - 1
        /\ UNCHANGED <<pc, rval, target, stack, cur>>
     \/ Failing("copy", cur) /\ CopyReturns("OK") /\ UNCHANGED target

CopyOnceMore ==                \* mutant: one call too many
  /\ pc = "copy" /\ Same /\ UNCHANGED made
  /\ \/ UNCHANGED failed /\ chunks' = chunks - 1
        /\ UNCHANGED <<pc, rval, target, stack, cur>>
     \/ Failing("copy", cur) /\ CopyReturns("ERR") /\ UNCHANGED target

Copy ==
  /\ pc = "copy" /\ chunks > 0 /\ Same /\ UNCHANGED made
  /\ \/ UNCHANGED failed /\ chunks' = chunks - 1
        /\ UNCHANGED <<pc, rval, target, stack, cur>>
     \/ Failing("copy", cur) /\ CopyReturns("ERR") /\ UNCHANGED target

(* end of file; what fclose and mmc_closefile return is ignored, so what   *)
(* they could not write is missing                                         *)
CopyEnds ==
  /\ pc = "copy" /\ chunks = 0
  /\ \/ target' = [target EXCEPT ![cur] = "whole"] /\ UNCHANGED failed
     \/ UNCHANGED target /\ Failing("close", cur)
  /\ CopyReturns("OK") /\ Same /\ UNCHANGED made

DeleteFile ==
  /\ pc = "delete" /\ Same /\ UNCHANGED <<made, stack, chunks>>
  /\ cur' = NoFile /\ pc' = "end"
  /\ \/ UNCHANGED failed /\ rval' = "OK" /\ target' = [target EXCEPT ![cur] = "whole"]
     \/ Failing("delete", cur) /\ rval' = "ERR" /\ UNCHANGED target

-----------------------------------------------------------------------------
(* mmcgettree, mmcputtree, mmcdirlist: an activation per directory         *)

ReturnsLast(rc, rest) ==       \* mutant: the last result counts everywhere
  IF rest = <<>> THEN stack' = <<>> /\ CardDone(rc)
  ELSE /\ pc' = "readdir" /\ UNCHANGED <<rval, card, arg>>
       /\ stack' = [rest EXCEPT ![Len(rest)].rval = rc]

(* The result of a directory goes to its parent; mmcputtree assigns it,    *)
(* the others keep the first failure.                                      *)
Returns(rc, rest) ==
  IF rest = <<>> THEN stack' = <<>> /\ CardDone(rc)
  ELSE LET parent == rest[Len(rest)] IN
       /\ pc' = "readdir" /\ UNCHANGED <<rval, card, arg>>
       /\ stack' = [rest EXCEPT ![Len(rest)].rval =
                      IF cmd # "puttree" /\ parent.rval # "OK" THEN @ ELSE rc]

OpenDir ==
  /\ pc = "opendir" /\ cur' = NoFile /\ UNCHANGED <<cmd, target, made, chunks>>
  /\ \/ /\ UNCHANGED <<failed, rval, card, arg>> /\ pc' = "readdir"
        /\ stack' = Append(stack, [dir |-> cur, left |-> Entries(cur), rval |-> "OK"])
     \/ Failing("opendir", cur) /\ Returns("ERR", stack)

(* mmcgettree takes what is a directory or a file and no more, mmcputtree  *)
(* directories and regular files, mmcdir all                               *)
Skips(n) == n \in Odd /\ (cmd = "gettree" \/ (cmd = "puttree" /\ n \in Files))

Entry(n) ==
  /\ IF Skips(n) THEN UNCHANGED <<pc, cur, target>>
     ELSE \/ n \in Dirs /\ pc' = "opendir" /\ cur' = n /\ UNCHANGED target
          \/ n \in Files /\ cmd = "gettree" /\ pc' = "open" /\ cur' = n /\ UNCHANGED target
          \/ n \in Files /\ cmd = "puttree" /\ pc' = "mkdir" /\ cur' = n /\ UNCHANGED target
          \/ /\ n \in Files /\ cmd = "dir" /\ UNCHANGED <<pc, cur>>
             /\ target' = [target EXCEPT ![n] = "whole"]
  /\ Same /\ UNCHANGED <<rval, made, chunks, failed>>

ReadDirAgain(n) ==             \* mutant: the index of the directory is not counted
  /\ pc = "readdir" /\ n \in Top.left /\ UNCHANGED stack
  /\ Entry(n)

(* the next entry: a directory to go into, a file to copy or to list       *)
ReadDir(n) ==
  /\ pc = "readdir" /\ n \in Top.left
  /\ stack' = SetTop([Top EXCEPT !.left = @ \ {n}])
  /\ Entry(n)

(* no memory for the path of a directory: mmcgettree and mmcdir leave it   *)
(* out without a word                                                      *)
NoMemory(n) ==
  /\ pc = "readdir" /\ cmd # "puttree" /\ n \in Top.left \cap Dirs /\ ~Skips(n)
  /\ Failing("nomem", n)
  /\ stack' = SetTop([Top EXCEPT !.left = @ \ {n}])
  /\ Same /\ UNCHANGED <<pc, rval, target, made, cur, chunks>>

(* none for the path of a file: mmcgettree writes to where NULL points     *)
Crash(n) ==
  /\ pc = "readdir" /\ cmd = "gettree" /\ n \in Top.left \cap Files /\ ~Skips(n)
  /\ Failing("nomem", n)
  /\ pc' = "idle" /\ cmd' = "none" /\ stack' = <<>>
  /\ UNCHANGED <<rval, arg, card, target, made, cur, chunks>>

(* mmc_readdir returns NULL at the end, and when the IC35 does not answer  *)
ReadDirFails ==
  /\ pc = "readdir" /\ Top.left # {}
  /\ Failing("readdir", Top.dir)
  /\ stack' = SetTop([Top EXCEPT !.left = {}])
  /\ Same /\ UNCHANGED <<pc, rval, target, made, cur, chunks>>

(* mmcputtree: no memory, or stat fails, and the directory is left with an *)
(* error                                                                   *)
StatFails(n) ==
  /\ pc = "readdir" /\ cmd = "puttree" /\ n \in Top.left
  /\ Failing("stat", Top.dir)
  /\ stack' = SetTop([Top EXCEPT !.left = {}, !.rval = "ERR"])
  /\ Same /\ UNCHANGED <<pc, rval, target, made, cur, chunks>>

(* mmcputtree: a local name is none for the IC35, or that of a directory   *)
(* is not: the directories up to it are made, and the one with the file is *)
(* left at once                                                            *)
BadName(n) ==
  /\ pc = "readdir" /\ cmd = "puttree" /\ n \in Top.left \cap Files /\ ~Skips(n)
  /\ Failing("name", Top.dir)
  /\ \E d \in Above[n] \cup {n} : made' = made \cup Above[d]
  /\ Returns("ERR", SubSeq(stack, 1, Len(stack) - 1))
  /\ UNCHANGED <<cmd, target, cur, chunks>>

CloseDir ==
  /\ pc = "readdir" /\ Top.left = {}
  /\ LET rest == SubSeq(stack, 1, Len(stack) - 1) IN
     \/ UNCHANGED failed /\ Returns(Top.rval, rest)
     \/ Failing("closedir", Top.dir) /\ Returns("ERR", rest)
  /\ UNCHANGED <<cmd, target, made, cur, chunks>>

(* mdisconnect, and exit                                                   *)
Exit ==
  /\ pc = "end" /\ pc' = "idle" /\ cmd' = "none"
  /\ UNCHANGED <<rval, arg, card, target, made, stack, cur, chunks, failed>>

Program ==
  \/ CardStatus \/ CardLabel
  \/ MakeDirs \/ OpenFile \/ OpenLocal \/ Copy \/ CopyEnds \/ DeleteFile
  \/ OpenDir \/ ReadDirFails \/ CloseDir \/ Exit
  \/ \E n \in DOMAIN Parent : \/ ReadDir(n) \/ NoMemory(n) \/ Crash(n)
                              \/ StatFails(n) \/ BadName(n)

Next ==
  \/ Program
  \/ \E c \in Trees \cup Singles :
       StartFails(c) \/ StartBoth(c) \/ \E n \in Files \cup Dirs : Start(c, n)

Spec == Init /\ [][Next]_vars
(* Every call returns, with an error at the latest when its time is up.    *)
FairSpec == Spec /\ WF_vars(Program)
-----------------------------------------------------------------------------
Copied == {"absent", "part", "whole"}
TypeOK ==
  /\ cmd \in Trees \cup Singles \cup {"none"}
  /\ pc \in {"idle", "end", "card", "label", "mkdir", "open", "fopen", "copy", "delete",
             "opendir", "readdir"}
  /\ rval \in {"OK", "ERR"} /\ target \in [Files -> Copied]
  /\ arg \in Files \cup Dirs /\ card \in 0 .. 2
  /\ Roots \subseteq made /\ made \subseteq Dirs
  /\ stack \in Seq([dir : Dirs, left : SUBSET (Dirs \cup Files), rval : {"OK", "ERR"}])
  /\ Len(stack) <= Cardinality(Dirs)
  /\ cur \in Files \cup Dirs /\ chunks \in 0 .. NChunks

Failed(calls, n) == \E c \in calls : <<c, n>> \in failed

(* A file the command is to transfer or list, and one it leaves out for    *)
(* its attributes or those of a directory above it.                        *)
Wanted(f)  == card = 0 => arg \in Above[f]
LeftOut(f) == \E n \in {f} \cup Above[f] : Skips(n) /\ (card = 0 => arg \in Above[n])

(* A failing file does not keep the files after it from being copied, a    *)
(* failing directory only those below it, a failing card only the other    *)
(* one, and then mmcgettree and mmcdir end with an error.  Of all others   *)
(* everything is there when the command ends, but for what it leaves out   *)
(* by its attributes.                                                      *)
OthersArrive ==
  pc = "end" /\ cmd \in Trees /\ <<"connect", Card[1]>> \notin failed =>
    \A f \in Files :
      Wanted(f) =>
        \/ target[f] = "whole" \/ LeftOut(f)
        \/ Failed({"open", "fopen", "nomem", "copy", "close"}, f)
        \/ \E d \in Above[f] :
             Failed({"absent", "status", "label", "opendir", "readdir", "nomem", "stat",
                     "name", "mkdir"}, d)
        \/ Card[2] \in Above[f] /\ card = 1 /\ rval = "ERR"

(* mmcget, mmcput and mmcdel exit with 0 only when the file is whole at    *)
(* its destination, or gone; but for a local file that cannot be opened    *)
(* and a buffer there is no memory for, where mmcput has already emptied   *)
(* the file on the card, and what fails at the close.                      *)
SingleReported ==
  pc = "end" /\ cmd \in Singles /\ rval = "OK" =>
    target[arg] = "whole" \/ Failed({"fopen", "nomem", "close"}, arg)

(* mmcgettree and mmcdir report a directory that fails to open or close at *)
(* any depth, and a card that fails, whatever succeeds after it.           *)
DirFailureKept ==
  pc = "end" /\ cmd \in {"gettree", "dir"}
    /\ (\E d \in Dirs : Failed({"opendir", "closedir", "status", "label"}, d)) => rval = "ERR"

(* Every command ends, also in a tree of which every call fails.           *)
CommandEnds == (pc # "idle") ~> (pc = "idle")
=============================================================================
