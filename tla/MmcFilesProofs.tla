--------------------------- MODULE MmcFilesProofs ---------------------------
(***************************************************************************)
(* For every pair of trees, number of calls per file and number of         *)
(* failures: a single transfer that exits with 0 is whole, but for what    *)
(* the code does not report; a directory or a card that fails is reported  *)
(* by mmcgettree and mmcdir; and a failure leaves no file out but its own, *)
(* those below its directory, and the second card's, then with an error.   *)
(* Every variable keeps to its type, and the tree functions end their      *)
(* recursion within as many calls as there are directories.                *)
(***************************************************************************)
EXTENDS MmcFiles, TLAPS, SequenceTheorems, FiniteSetTheorems

Frame == [dir : Dirs, left : SUBSET (Dirs \cup Files), rval : {"OK", "ERR"}]

(* With both cards in turn it works on the one whose turn it is; it ends   *)
(* with the first only after an error.                                     *)
CardKept ==
  /\ card \in 0 .. 2 /\ arg \in Files \cup Dirs
  /\ card # 0 => arg = Card[card] /\ arg \in Dirs
  /\ pc = "end" /\ card = 1 => rval = "ERR"

(* Where the program is decides what it works on: a file while it copies   *)
(* or deletes, an open directory while it reads one.                       *)
Position ==
  /\ cmd \in Trees \cup Singles \cup {"none"} /\ rval \in {"OK", "ERR"}
  /\ pc \in {"idle", "end", "card", "label", "mkdir", "open", "fopen", "copy", "delete",
             "opendir", "readdir"}
  /\ target \in [Files -> Copied]
  /\ stack \in Seq(Frame)
  /\ pc \in {"idle", "end", "card", "label"} \/ cmd \notin Trees => stack = <<>>
  /\ pc \in {"mkdir", "open", "fopen", "copy", "delete"} => cur \in Files
  /\ pc \in {"open", "fopen", "copy"} /\ cmd \in Trees => stack # <<>>
  /\ pc = "mkdir" => cmd = "puttree" /\ stack # <<>>
  /\ pc = "delete" => cmd = "del"
  /\ pc \in {"opendir", "readdir"} => cmd \in Trees
  /\ pc = "opendir" => cur \in Dirs
  /\ pc = "readdir" => stack # <<>>
  /\ pc \in {"card", "label"} => cmd \in Trees /\ card # 0
  /\ pc = "label" => cur = arg
  /\ CardKept /\ Roots \subseteq made /\ made \subseteq Dirs
  /\ cmd \in Trees => arg \in Dirs
  /\ pc \in {"open", "fopen", "copy", "delete"} /\ cmd \notin Trees => cur = arg

(* A failure met is kept by an activation still under way, or returned.    *)
ErrIn(s) == \E i \in 1 .. Len(s) : s[i].rval = "ERR"
DirFailed == \E d \in Dirs : Failed({"opendir", "closedir", "status", "label"}, d)
Held == IF pc = "end" THEN rval = "ERR" ELSE ErrIn(stack)
DirFailureHeld == cmd \in {"gettree", "dir"} /\ DirFailed => Held

MmcInv == Position /\ SingleReported /\ DirFailureHeld

-----------------------------------------------------------------------------
LEMMA CardDoneKeeps ==
  ASSUME NEW rc \in {"OK", "ERR"}, CardDone(rc), CardKept
  PROVE  /\ CardKept' /\ rval' = rc /\ pc' \in {"end", "card"}
         /\ rc = "ERR" => pc' = "end"
         /\ pc' = "card" => card = 1 /\ card' = 2
         /\ pc' = "end" => card' = card
         /\ card = 0 <=> card' = 0
         /\ card = 0 => arg' = arg
  BY TreeAssumption DEF CardDone, CardKept

(* Leaving a directory: the activations that remain are well formed, and   *)
(* the tree functions that keep the first failure lose none.               *)
LEMMA ReturnsKeeps ==
  ASSUME NEW rc \in {"OK", "ERR"}, NEW rest \in Seq(Frame), Returns(rc, rest),
         rval \in {"OK", "ERR"}, CardKept
  PROVE  /\ stack' \in Seq(Frame) /\ rval' \in {"OK", "ERR"}
         /\ pc' \in {"end", "readdir", "card"}
         /\ pc' = "readdir" <=> stack' # <<>>
         /\ pc' = "card" => card' # 0
         /\ CardKept' /\ (card = 0 <=> card' = 0) /\ (card = 0 => arg' = arg)
         /\ cmd # "puttree" /\ (rc = "ERR" \/ ErrIn(rest)) => Held'
<1>1. CASE rest = <<>>
  <2>1. stack' = <<>> /\ CardDone(rc)
    BY <1>1 DEF Returns
  <2>2. ~ErrIn(rest)
    BY <1>1 DEF ErrIn
  <2> QED
    BY <2>1, <2>2, CardDoneKeeps DEF Held
<1>2. CASE rest # <<>>
  <2> DEFINE n == Len(rest)
             new == IF cmd # "puttree" /\ rest[n].rval # "OK" THEN rest[n].rval ELSE rc
             top == [rest[n] EXCEPT !.rval = new]
  <2>1. n \in Nat \ {0} /\ rest \in [1 .. n -> Frame]
    BY <1>2
  <2>2. rest[n] \in Frame
    BY <2>1
  <2>3. new \in {"OK", "ERR"} /\ top \in Frame /\ top.rval = new
    BY <2>2 DEF Frame
  <2>4. /\ pc' = "readdir" /\ UNCHANGED <<rval, card, arg>>
        /\ stack' = [rest EXCEPT ![n] = top]
    BY <1>2 DEF Returns
  <2>8. CardKept'
    BY <2>4 DEF CardKept
  <2>5. /\ stack' \in Seq(Frame) /\ Len(stack') = n /\ stack'[n].rval = new
        /\ \A i \in 1 .. n - 1 : stack'[i] = rest[i]
    BY <2>1, <2>3, <2>4, ExceptSeq
  <2>6. ASSUME cmd # "puttree", rc = "ERR" \/ ErrIn(rest)
        PROVE  ErrIn(stack')
    <3>1. CASE new = "ERR"
      <4>1. n \in 1 .. Len(stack')
        BY <2>1, <2>5
      <4> QED
        BY <4>1, <3>1, <2>5 DEF ErrIn
    <3>2. CASE new = "OK"
      <4>1. rest[n].rval = "OK" /\ rc = "OK"
        BY <3>2, <2>6, <2>2 DEF Frame
      <4>2. PICK i \in 1 .. n : rest[i].rval = "ERR"
        BY <4>1, <2>6 DEF ErrIn
      <4>3. i \in 1 .. n - 1
        BY <4>1, <4>2, <2>1
      <4> QED
        BY <4>2, <4>3, <2>1, <2>5 DEF ErrIn
    <3> QED
      BY <2>3, <3>1, <3>2
  <2>7. stack' # <<>>
    BY <2>1, <2>5
  <2> HIDE DEF n, new, top
  <2> QED
    BY <2>4, <2>5, <2>6, <2>7, <2>8 DEF Held, CardKept
<1> QED
  BY <1>1, <1>2

(* The activation on top, and those below it.                              *)
LEMMA TopAndRest ==
  ASSUME stack \in Seq(Frame), stack # <<>>
  PROVE  /\ Top \in Frame
         /\ SubSeq(stack, 1, Len(stack) - 1) \in Seq(Frame)
         /\ ErrIn(stack) => Top.rval = "ERR" \/ ErrIn(SubSeq(stack, 1, Len(stack) - 1))
<1> DEFINE n == Len(stack)
           rest == SubSeq(stack, 1, n - 1)
<1>1. n \in Nat \ {0} /\ Top = stack[n] /\ Top \in Frame
  BY DEF Top
<1>2. rest \in Seq(Frame) /\ Len(rest) = n - 1
      /\ \A i \in 1 .. n - 1 : rest[i] = stack[i]
  <2>1. \A i \in 1 .. n - 1 : stack[i] \in Frame
    BY <1>1
  <2>2. n - 1 \in Int /\ 1 \in Int /\ (n - 1) - 1 + 1 = n - 1
    BY <1>1
  <2> HIDE DEF n
  <2>3. /\ rest \in Seq(Frame)
        /\ Len(rest) = IF 1 <= n - 1 THEN (n - 1) - 1 + 1 ELSE 0
        /\ \A i \in 1 .. (n - 1) - 1 + 1 : rest[i] = stack[1 + i - 1]
    BY <2>1, <2>2, SubSeqProperties
  <2> QED
    BY <2>2, <2>3, <1>1
<1>3. ASSUME ErrIn(stack) PROVE Top.rval = "ERR" \/ ErrIn(rest)
  <2>1. PICK i \in 1 .. n : stack[i].rval = "ERR"
    BY <1>3 DEF ErrIn
  <2>2. CASE i = n
    BY <2>1, <2>2, <1>1
  <2>3. CASE i \in 1 .. n - 1
    BY <2>1, <2>3, <1>1, <1>2 DEF ErrIn
  <2> QED
    BY <2>2, <2>3, <1>1
<1> QED
  BY <1>1, <1>2, <1>3

(* Changing the activation on top without resetting its result.            *)
LEMMA SetTopKeeps ==
  ASSUME stack \in Seq(Frame), stack # <<>>,
         NEW frame \in Frame, Top.rval = "ERR" => frame.rval = "ERR"
  PROVE  /\ SetTop(frame) \in Seq(Frame) /\ SetTop(frame) # <<>>
         /\ ErrIn(stack) => ErrIn(SetTop(frame))
<1> DEFINE n == Len(stack)
           s == SetTop(frame)
<1>1. n \in Nat \ {0} /\ stack \in [1 .. n -> Frame]
  OBVIOUS
<1>2. s \in Seq(Frame) /\ Len(s) = n /\ s[n] = frame
      /\ \A i \in 1 .. n - 1 : s[i] = stack[i]
  <2>1. n \in 1 .. Len(stack) /\ n = Len(stack) /\ n \in Nat /\ s = [stack EXCEPT ![n] = frame]
    BY <1>1 DEF SetTop
  <2> HIDE DEF s, n
  <2>2. /\ s \in Seq(Frame) /\ Len(s) = Len(stack)
        /\ \A j \in 1 .. Len(stack) : s[j] = IF j = n THEN frame ELSE stack[j]
    BY <2>1, ExceptSeq
  <2> QED
    BY <2>1, <2>2
<1> HIDE DEF s
<1>3. ASSUME ErrIn(stack) PROVE ErrIn(s)
  <2>1. PICK i \in 1 .. n : stack[i].rval = "ERR"
    BY <1>3 DEF ErrIn
  <2>2. CASE i = n
    <3>1. n \in 1 .. Len(s) /\ s[n].rval = "ERR"
      BY <2>1, <2>2, <1>1, <1>2 DEF Top
    <3> QED
      BY <3>1 DEF ErrIn
  <2>3. CASE i \in 1 .. n - 1
    <3>1. i \in 1 .. Len(s) /\ s[i].rval = "ERR"
      BY <2>1, <2>3, <1>1, <1>2
    <3> QED
      BY <3>1 DEF ErrIn
  <2>4. i = n \/ i \in 1 .. n - 1
    <3>1. n \in Nat /\ i \in 1 .. n
      BY <1>1
    <3> HIDE DEF n
    <3> QED
      BY <3>1
  <2> QED
    BY <2>2, <2>3, <2>4
<1>4. s # <<>>
  BY <1>1, <1>2
<1> QED
  BY <1>2, <1>3, <1>4 DEF s

-----------------------------------------------------------------------------
LEMMA PositionInit == Init => Position
BY TreeAssumption, EmptySeq DEF Init, Position, CardKept, Copied, Trees, Singles, Roots, NoFile

LEMMA PositionStep == Position /\ [Next]_vars => Position'
<1> SUFFICES ASSUME Position, [Next]_vars PROVE Position'
  OBVIOUS
<1> USE TreeAssumption
<1>0. /\ CardKept /\ cmd \in Trees \cup Singles \cup {"none"} /\ rval \in {"OK", "ERR"}
      /\ Roots \subseteq Dirs /\ Card[1] \in Dirs
      /\ \A n : n \in Dirs \cup Files => Above[n] \subseteq Dirs
  BY DEF Position, Roots, Above
<1>1. ASSUME NEW c \in Trees \cup Singles, StartFails(c) PROVE Position'
  BY <1>0, <1>1 DEF StartFails, Begin, Position, CardKept, Copied, Trees, Singles, NoFile
<1>2. ASSUME NEW c \in Trees \cup Singles, NEW n \in Files \cup Dirs, Start(c, n)
      PROVE  Position'
  BY <1>0, <1>2 DEF Start, Begin, Position, CardKept, Copied, Trees, Singles
<1>21. ASSUME NEW c \in Trees \cup Singles, StartBoth(c) PROVE Position'
  BY <1>0, <1>21 DEF StartBoth, Begin, Position, CardKept, Copied, Trees, Singles, NoFile
<1>3. CASE OpenFile
  BY <1>0, <1>3 DEF OpenFile, Same, CopyReturns, Position, CardKept, Copied, Trees, Singles
<1>4. CASE OpenLocal
  BY <1>0, <1>4 DEF OpenLocal, Same, CopyReturns, Position, CardKept, Copied, Trees, Singles
<1>5. CASE Copy
  BY <1>0, <1>5 DEF Copy, Same, CopyReturns, Position, CardKept, Copied, Trees, Singles
<1>6. CASE CopyEnds
  BY <1>0, <1>6 DEF CopyEnds, Same, CopyReturns, Position, CardKept, Copied, Trees, Singles
<1>7. CASE DeleteFile
  BY <1>0, <1>7 DEF DeleteFile, Same, Position, CardKept, Copied, Trees, Singles
<1>22. CASE MakeDirs
  <2>1. cur \in Files
    BY <1>22 DEF MakeDirs, Position
  <2>2. Roots \subseteq made' /\ made' \subseteq Dirs
    BY <1>0, <1>22, <2>1 DEF MakeDirs, Position
  <2> QED
    BY <1>22, <2>1, <2>2 DEF MakeDirs, Same, Position, CardKept
<1>23. ASSUME NEW rc \in {"OK", "ERR"}, CardDone(rc), stack = <<>>,
              UNCHANGED <<cmd, target, made, stack>>, cmd \in Trees
       PROVE  Position'
  BY <1>0, <1>23, CardDoneKeeps DEF Position, CardKept
<1>24. CASE CardStatus
  <2>1. /\ pc = "card" /\ cmd \in Trees /\ stack = <<>> /\ card # 0
        /\ UNCHANGED <<cmd, target, made, stack>>
    BY <1>24 DEF CardStatus, Position
  <2>2. CASE UNCHANGED <<rval, card, arg>> /\ pc' \in {"label", "opendir"} /\ cur' = arg
    BY <1>0, <2>1, <2>2 DEF Position, CardKept
  <2>3. CASE CardDone("OK") \/ CardDone("ERR")
    BY <1>23, <2>1, <2>3
  <2> QED
    BY <1>24, <2>2, <2>3 DEF CardStatus
<1>25. CASE CardLabel
  <2>1. /\ pc = "label" /\ cmd \in Trees /\ stack = <<>> /\ card # 0 /\ cur = arg
        /\ UNCHANGED <<cmd, target, made, stack, cur>>
    BY <1>25 DEF CardLabel, Position
  <2>2. CASE UNCHANGED <<rval, card, arg>> /\ pc' = "opendir"
    BY <1>0, <2>1, <2>2 DEF Position, CardKept
  <2>3. CASE CardDone("ERR")
    BY <1>23, <2>1, <2>3
  <2> QED
    BY <1>25, <2>2, <2>3 DEF CardLabel
<1>26. ASSUME NEW rc \in {"OK", "ERR"}, NEW rest \in Seq(Frame), Returns(rc, rest),
              cmd \in Trees, UNCHANGED <<cmd, target>>, Roots \subseteq made', made' \subseteq Dirs
       PROVE  Position'
  <2>1. /\ stack' \in Seq(Frame) /\ rval' \in {"OK", "ERR"}
        /\ pc' \in {"end", "readdir", "card"} /\ (pc' = "readdir" <=> stack' # <<>>)
        /\ pc' = "card" => card' # 0
        /\ CardKept' /\ (card = 0 <=> card' = 0) /\ (card = 0 => arg' = arg)
    BY <1>0, <1>26, ReturnsKeeps
  <2>2. arg' \in Dirs
    BY <2>1, <1>26 DEF CardKept, Position
  <2> QED
    BY <1>26, <2>1, <2>2 DEF Position
<1>8. CASE OpenDir
  <2>1. /\ pc = "opendir" /\ cmd \in Trees /\ UNCHANGED <<cmd, target, made>> /\ cur \in Dirs
        /\ Roots \subseteq made' /\ made' \subseteq Dirs /\ stack \in Seq(Frame)
    BY <1>8 DEF OpenDir, Position
  <2>2. CASE Returns("ERR", stack)
    BY <1>26, <2>1, <2>2
  <2>3. CASE /\ pc' = "readdir" /\ UNCHANGED <<rval, card, arg>>
             /\ stack' = Append(stack, [dir |-> cur, left |-> Entries(cur), rval |-> "OK"])
    <3>1. [dir |-> cur, left |-> Entries(cur), rval |-> "OK"] \in Frame
      BY <2>1 DEF Frame, Entries
    <3>2. stack' \in Seq(Frame) /\ stack' # <<>>
      BY <2>1, <2>3, <3>1, AppendProperties
    <3> QED
      BY <2>1, <2>3, <3>2 DEF Position, CardKept
  <2> QED
    BY <1>8, <2>2, <2>3 DEF OpenDir
<1>9. CASE ReadDirFails
  <2>1. [Top EXCEPT !.left = {}] \in Frame /\ stack # <<>> /\ stack \in Seq(Frame)
    BY <1>9, TopAndRest DEF ReadDirFails, Position, Frame
  <2>2. [Top EXCEPT !.left = {}].rval = Top.rval
    BY <2>1, TopAndRest DEF Frame
  <2>3. stack' \in Seq(Frame) /\ stack' # <<>>
    BY <1>9, <2>1, <2>2, SetTopKeeps DEF ReadDirFails
  <2> QED
    BY <1>9, <2>3 DEF ReadDirFails, Same, Position, CardKept
<1>10. CASE CloseDir
  <2>1. /\ Top.rval \in {"OK", "ERR"}
        /\ SubSeq(stack, 1, Len(stack) - 1) \in Seq(Frame)
    BY <1>10, TopAndRest DEF CloseDir, Position, Frame
  <2>2. /\ cmd \in Trees /\ UNCHANGED <<cmd, target>>
        /\ Roots \subseteq made' /\ made' \subseteq Dirs
        /\ \E rc \in {"OK", "ERR"} : Returns(rc, SubSeq(stack, 1, Len(stack) - 1))
    BY <1>10, <2>1 DEF CloseDir, Position
  <2> QED
    BY <1>26, <2>1, <2>2
<1>11. CASE Exit
  BY <1>11 DEF Exit, Position, CardKept, Trees
<1>12. ASSUME NEW n \in DOMAIN Parent, ReadDir(n) PROVE Position'
  <2>1. /\ [Top EXCEPT !.left = @ \ {n}] \in Frame /\ stack # <<>>
        /\ stack \in Seq(Frame) /\ n \in Dirs \cup Files
    BY <1>12, TopAndRest DEF ReadDir, Position, Frame
  <2>2. [Top EXCEPT !.left = @ \ {n}].rval = Top.rval
    BY <2>1, TopAndRest DEF Frame
  <2>3. stack' \in Seq(Frame) /\ stack' # <<>>
    BY <1>12, <2>1, <2>2, SetTopKeeps DEF ReadDir
  <2>4. pc = "readdir" /\ cmd \in Trees /\ Entry(n)
    BY <1>12 DEF ReadDir, Position
  <2> QED
    BY <2>1, <2>3, <2>4 DEF Entry, Same, Position, CardKept, Copied, Trees
<1>27. ASSUME NEW n \in DOMAIN Parent, NoMemory(n) PROVE Position'
  <2>1. /\ [Top EXCEPT !.left = @ \ {n}] \in Frame /\ stack # <<>> /\ stack \in Seq(Frame)
    BY <1>27, TopAndRest DEF NoMemory, Position, Frame
  <2>2. [Top EXCEPT !.left = @ \ {n}].rval = Top.rval
    BY <2>1, TopAndRest DEF Frame
  <2>3. stack' \in Seq(Frame) /\ stack' # <<>>
    BY <1>27, <2>1, <2>2, SetTopKeeps DEF NoMemory
  <2> QED
    BY <1>27, <2>3 DEF NoMemory, Same, Position, CardKept
<1>28. ASSUME NEW n \in DOMAIN Parent, Crash(n) PROVE Position'
  BY <1>28, EmptySeq DEF Crash, Position, CardKept, Trees
<1>13. ASSUME NEW n \in DOMAIN Parent, StatFails(n) PROVE Position'
  <2>1. /\ [Top EXCEPT !.left = {}, !.rval = "ERR"] \in Frame
        /\ stack # <<>> /\ stack \in Seq(Frame)
    BY <1>13, TopAndRest DEF StatFails, Position, Frame
  <2>2. [Top EXCEPT !.left = {}, !.rval = "ERR"].rval = "ERR"
    BY <2>1, TopAndRest DEF Frame
  <2>3. stack' \in Seq(Frame) /\ stack' # <<>>
    BY <1>13, <2>1, <2>2, SetTopKeeps DEF StatFails
  <2> QED
    BY <1>13, <2>3 DEF StatFails, Same, Position, CardKept
<1>14. ASSUME NEW n \in DOMAIN Parent, BadName(n) PROVE Position'
  <2>1. /\ SubSeq(stack, 1, Len(stack) - 1) \in Seq(Frame)
        /\ Returns("ERR", SubSeq(stack, 1, Len(stack) - 1))
        /\ cmd \in Trees /\ UNCHANGED <<cmd, target>>
    BY <1>14, TopAndRest DEF BadName, Position
  <2>2. PICK d \in Above[n] \cup {n} : made' = made \cup Above[d]
    BY <1>14 DEF BadName
  <2>3. d \in Dirs \cup Files
    BY <1>0, <2>2
  <2>4. Roots \subseteq made' /\ made' \subseteq Dirs
    BY <1>0, <2>2, <2>3 DEF Position
  <2> QED
    BY <1>26, <2>1, <2>4
<1>15. CASE UNCHANGED vars
  BY <1>15 DEF vars, Position, CardKept
<1> QED
  BY <1>1, <1>2, <1>3, <1>4, <1>5, <1>6, <1>7, <1>8, <1>9, <1>10, <1>11, <1>12, <1>13, <1>14,
     <1>15, <1>21, <1>22, <1>24, <1>25, <1>27, <1>28 DEF Next, Program

(* A single transfer ends only with its file whole, with an error, or with *)
(* one that is not returned.                                               *)
LEMMA SingleStep == Position /\ SingleReported /\ [Next]_vars => SingleReported'
<1> SUFFICES ASSUME Position, SingleReported, [Next]_vars PROVE SingleReported'
  OBVIOUS
<1> USE DEF SingleReported, Trees, Singles
<1>1. ASSUME NEW c \in Trees \cup Singles, StartFails(c) PROVE SingleReported'
  BY <1>1 DEF StartFails
<1>2. ASSUME NEW c \in Trees \cup Singles,
             StartBoth(c) \/ \E n \in Files \cup Dirs : Start(c, n)
      PROVE  SingleReported'
  BY <1>2 DEF Start, StartBoth
<1>3. CASE OpenFile
  BY <1>3 DEF OpenFile, Same, CopyReturns
<1>4. CASE OpenLocal
  <2>1. cur = arg \/ cmd \in Trees
    BY <1>4 DEF OpenLocal, Position
  <2>2. CASE pc' = "copy"
    BY <2>2
  <2>3. ASSUME NEW call \in {"nomem", "fopen"}, Failing(call, cur) PROVE SingleReported'
    BY <1>4, <2>1, <2>3 DEF Failing, Failed, OpenLocal, Same, CopyReturns
  <2> QED
    BY <1>4, <2>2, <2>3 DEF OpenLocal
<1>5. CASE Copy
  BY <1>5 DEF Copy, Same, CopyReturns
<1>6. CASE CopyEnds
  <2>1. cur \in Files /\ target \in [Files -> Copied] /\ (cur = arg \/ cmd \in Trees)
    BY <1>6 DEF CopyEnds, Position
  <2>2. cmd' = cmd /\ arg' = arg
    BY <1>6 DEF CopyEnds, Same
  <2>3. CASE target' = [target EXCEPT ![cur] = "whole"]
    <3>1. target'[cur] = "whole"
      BY <2>1, <2>3
    <3> QED
      BY <2>1, <2>2, <3>1
  <2>4. CASE Failing("close", cur)
    BY <2>1, <2>2, <2>4 DEF Failing, Failed
  <2> QED
    BY <1>6, <2>3, <2>4 DEF CopyEnds
<1>7. CASE DeleteFile
  <2>1. cur \in Files /\ target \in [Files -> Copied] /\ cur = arg
    BY <1>7 DEF DeleteFile, Position
  <2>2. CASE target' = [target EXCEPT ![cur] = "whole"]
    <3>1. target'[arg'] = "whole"
      BY <1>7, <2>1, <2>2 DEF DeleteFile, Same
    <3> QED
      BY <3>1
  <2>3. CASE rval' = "ERR"
    BY <2>3
  <2> QED
    BY <1>7, <2>2, <2>3 DEF DeleteFile
<1>8. ASSUME pc \in {"opendir", "readdir", "card", "label", "mkdir"}, cmd' = cmd
      PROVE  SingleReported'
  BY <1>8 DEF Position
<1>9. CASE OpenDir \/ ReadDirFails \/ CloseDir \/ CardStatus \/ CardLabel \/ MakeDirs
           \/ \E n \in DOMAIN Parent : ReadDir(n) \/ NoMemory(n) \/ StatFails(n) \/ BadName(n)
  BY <1>8, <1>9 DEF OpenDir, ReadDirFails, CloseDir, ReadDir, Entry, NoMemory, StatFails, BadName,
     CardStatus, CardLabel, MakeDirs, Same
<1>10. CASE Exit \/ \E n \in DOMAIN Parent : Crash(n)
  BY <1>10 DEF Exit, Crash
<1>11. CASE UNCHANGED vars
  BY <1>11 DEF vars, Failed
<1> QED
  BY <1>1, <1>2, <1>3, <1>4, <1>5, <1>6, <1>7, <1>9, <1>10, <1>11 DEF Next, Program

-----------------------------------------------------------------------------
(* A failing call of another kind adds no failure of a directory.          *)
LEMMA OtherFailing ==
  ASSUME NEW call, call \notin {"opendir", "closedir", "status", "label"}, NEW n,
         Failing(call, n)
  PROVE  DirFailed' = DirFailed
BY DEF Failing, DirFailed, Failed

LEMMA HeldStep == Position /\ DirFailureHeld /\ [Next]_vars => DirFailureHeld'
<1> SUFFICES ASSUME Position, DirFailureHeld, [Next]_vars PROVE DirFailureHeld'
  OBVIOUS
<1>1. ASSUME NEW c \in Trees \cup Singles, StartFails(c) PROVE DirFailureHeld'
  BY <1>1 DEF StartFails, DirFailureHeld, Held
<1>2. ASSUME NEW c \in Trees \cup Singles,
             StartBoth(c) \/ \E n \in Files \cup Dirs : Start(c, n)
      PROVE  DirFailureHeld'
  BY <1>2 DEF Start, StartBoth, DirFailureHeld, DirFailed, Failed

(* steps within a file                                                     *)
<1>3. ASSUME pc \notin {"idle", "end"}, cmd' = cmd, DirFailed' = DirFailed,
             \/ cmd \notin Trees
             \/ pc' # "end" /\ (ErrIn(stack) => ErrIn(stack'))
      PROVE  DirFailureHeld'
  BY <1>3 DEF DirFailureHeld, Held, Trees
<1>4. ASSUME pc \notin {"idle", "end"}, cmd' = cmd, DirFailed' = DirFailed,
             NEW rc, CopyReturns(rc)
      PROVE  DirFailureHeld'
  BY <1>3, <1>4 DEF CopyReturns
<1>5. CASE OpenFile
  <2>1. CASE UNCHANGED failed /\ pc' = "fopen" /\ UNCHANGED stack
    BY <1>3, <1>5, <2>1 DEF OpenFile, Same, DirFailed, Failed
  <2>2. CASE (UNCHANGED failed \/ Failing("open", cur)) /\ CopyReturns("ERR")
    <3>1. DirFailed' = DirFailed
      BY <2>2, OtherFailing DEF DirFailed, Failed
    <3> QED
      BY <1>4, <1>5, <2>2, <3>1 DEF OpenFile, Same
  <2> QED
    BY <1>5, <2>1, <2>2 DEF OpenFile
<1>6. CASE OpenLocal
  <2>1. CASE UNCHANGED failed /\ pc' = "copy" /\ UNCHANGED stack
    BY <1>3, <1>6, <2>1 DEF OpenLocal, Same, DirFailed, Failed
  <2>2. ASSUME NEW call \in {"nomem", "fopen"}, Failing(call, cur), CopyReturns("OK")
        PROVE  DirFailureHeld'
    BY <1>4, <1>6, <2>2, OtherFailing DEF OpenLocal, Same
  <2> QED
    BY <1>6, <2>1, <2>2 DEF OpenLocal
<1>7. CASE Copy
  <2>1. CASE UNCHANGED <<failed, pc, stack>>
    BY <1>3, <1>7, <2>1 DEF Copy, Same, DirFailed, Failed
  <2>2. CASE Failing("copy", cur) /\ CopyReturns("ERR")
    BY <1>4, <1>7, <2>2, OtherFailing DEF Copy, Same
  <2> QED
    BY <1>7, <2>1, <2>2 DEF Copy
<1>8. CASE CopyEnds
  <2>1. DirFailed' = DirFailed
    BY <1>8, OtherFailing DEF CopyEnds, DirFailed, Failed
  <2> QED
    BY <1>4, <1>8, <2>1 DEF CopyEnds, Same
<1>9. CASE DeleteFile
  BY <1>9 DEF DeleteFile, Same, Position, DirFailureHeld

(* steps within a directory                                                *)
<1>10. ASSUME pc = "readdir"
       PROVE  /\ stack \in Seq(Frame) /\ stack # <<>> /\ Top \in Frame
              /\ SubSeq(stack, 1, Len(stack) - 1) \in Seq(Frame)
              /\ ErrIn(stack) => \/ Top.rval = "ERR"
                                 \/ ErrIn(SubSeq(stack, 1, Len(stack) - 1))
  BY <1>10, TopAndRest DEF Position
<1>11. ASSUME pc = "readdir", cmd' = cmd, pc' # "end", DirFailed' = DirFailed,
              NEW frame \in Frame, stack' = SetTop(frame),
              Top.rval = "ERR" => frame.rval = "ERR"
       PROVE  DirFailureHeld'
  BY <1>3, <1>10, <1>11, SetTopKeeps
<1>12. ASSUME pc = "readdir", cmd' = cmd, NEW rc \in {"OK", "ERR"},
              Returns(rc, SubSeq(stack, 1, Len(stack) - 1)),
              rc = "ERR" \/ (DirFailed' = DirFailed /\ rc = Top.rval)
       PROVE  DirFailureHeld'
  <2>1. rval \in {"OK", "ERR"} /\ pc # "end" /\ CardKept
    BY <1>12 DEF Position
  <2> SUFFICES ASSUME cmd \in {"gettree", "dir"}, DirFailed' PROVE Held'
    BY <1>12 DEF DirFailureHeld
  <2>2. rc = "ERR" \/ ErrIn(SubSeq(stack, 1, Len(stack) - 1))
    BY <1>10, <1>12, <2>1 DEF DirFailureHeld, Held
  <2> QED
    BY <1>10, <1>12, <2>1, <2>2, ReturnsKeeps
<1>13. CASE OpenDir
  <2>1. /\ pc = "opendir" /\ cmd' = cmd /\ stack \in Seq(Frame) /\ rval \in {"OK", "ERR"}
        /\ CardKept
    BY <1>13 DEF OpenDir, Position
  <2>2. CASE Returns("ERR", stack)
    BY <2>1, <2>2, ReturnsKeeps DEF DirFailureHeld
  <2>3. CASE /\ UNCHANGED failed /\ pc' = "readdir"
             /\ stack' = Append(stack, [dir |-> cur, left |-> Entries(cur), rval |-> "OK"])
    <3> DEFINE new == [dir |-> cur, left |-> Entries(cur), rval |-> "OK"]
    <3>1. new \in Frame
      BY <1>13, TreeAssumption DEF OpenDir, Position, Frame, Entries
    <3> HIDE DEF new
    <3>2. Len(stack') = Len(stack) + 1 /\ \A i \in 1 .. Len(stack) : stack'[i] = stack[i]
      BY <2>1, <2>3, <3>1, AppendProperties DEF new
    <3>3. ErrIn(stack) => ErrIn(stack')
      BY <2>1, <3>2, LenProperties DEF ErrIn
    <3> QED
      BY <1>3, <2>1, <2>3, <3>3 DEF DirFailed, Failed
  <2> QED
    BY <1>13, <2>2, <2>3 DEF OpenDir
<1>14. CASE ReadDirFails
  <2>1. /\ [Top EXCEPT !.left = {}] \in Frame
        /\ [Top EXCEPT !.left = {}].rval = Top.rval
    BY <1>10, <1>14 DEF ReadDirFails, Frame
  <2>2. /\ pc = "readdir" /\ pc' = pc /\ cmd' = cmd /\ DirFailed' = DirFailed
        /\ stack' = SetTop([Top EXCEPT !.left = {}])
    BY <1>14, OtherFailing DEF ReadDirFails, Same
  <2> QED
    BY <1>11, <2>1, <2>2
<1>15. ASSUME NEW n \in DOMAIN Parent, ReadDir(n) \/ NoMemory(n) PROVE DirFailureHeld'
  <2>1. /\ pc = "readdir" /\ pc' # "end" /\ cmd' = cmd /\ DirFailed' = DirFailed
        /\ stack' = SetTop([Top EXCEPT !.left = @ \ {n}])
    BY <1>15, OtherFailing DEF ReadDir, Entry, NoMemory, Same, DirFailed, Failed
  <2>2. /\ [Top EXCEPT !.left = @ \ {n}] \in Frame
        /\ [Top EXCEPT !.left = @ \ {n}].rval = Top.rval
    BY <1>10, <2>1 DEF Frame
  <2> QED
    BY <1>11, <2>1, <2>2
<1>16. ASSUME NEW n \in DOMAIN Parent, StatFails(n) \/ BadName(n) \/ Crash(n)
       PROVE  DirFailureHeld'
  BY <1>16 DEF StatFails, BadName, Crash, Same, DirFailureHeld
<1>17. CASE CloseDir
  <2>1. CASE UNCHANGED failed /\ Returns(Top.rval, SubSeq(stack, 1, Len(stack) - 1))
    <3>1. DirFailed' = DirFailed /\ pc = "readdir" /\ cmd' = cmd
      BY <1>17, <2>1 DEF CloseDir, DirFailed, Failed
    <3>2. Top.rval \in {"OK", "ERR"}
      BY <1>10, <3>1 DEF Frame
    <3> QED
      BY <1>12, <2>1, <3>1, <3>2
  <2>2. CASE Returns("ERR", SubSeq(stack, 1, Len(stack) - 1))
    BY <1>12, <1>17, <2>2 DEF CloseDir
  <2> QED
    BY <1>17, <2>1, <2>2 DEF CloseDir
<1>18. CASE Exit
  BY <1>18 DEF Exit, DirFailureHeld

(* steps between the cards, where no activation is under way: nothing has  *)
(* failed before, or the command ends with an error                        *)
<1>20. ASSUME pc \in {"card", "label"}, cmd' = cmd,
              DirFailed' = DirFailed \/ (pc' = "end" /\ rval' = "ERR")
       PROVE  DirFailureHeld'
  <2>1. ~ErrIn(stack)
    BY <1>20 DEF Position, ErrIn
  <2> QED
    BY <1>20, <2>1 DEF DirFailureHeld, Held
<1>21. CASE CardStatus \/ CardLabel
  <2>1. pc \in {"card", "label"} /\ cmd' = cmd
    BY <1>21 DEF CardStatus, CardLabel
  <2>2. CASE UNCHANGED failed \/ Failing("absent", arg)
    BY <1>20, <2>1, <2>2, OtherFailing DEF DirFailed, Failed
  <2>3. CASE CardDone("ERR")
    BY <1>20, <2>1, <2>3 DEF CardDone
  <2> QED
    BY <1>21, <2>2, <2>3 DEF CardStatus, CardLabel
<1>22. CASE MakeDirs
  <2>1. cmd = "puttree" /\ cmd' = cmd
    BY <1>22 DEF MakeDirs, Same, Position
  <2> QED
    BY <2>1 DEF DirFailureHeld
<1>19. CASE UNCHANGED vars
  BY <1>19 DEF vars, DirFailureHeld, DirFailed, Failed, Held, ErrIn
<1> QED
  BY <1>1, <1>2, <1>5, <1>6, <1>7, <1>8, <1>9, <1>13, <1>14, <1>15, <1>16, <1>17,
     <1>18, <1>19, <1>21, <1>22 DEF Next, Program

-----------------------------------------------------------------------------
(* What is still to be done: entries not yet read, the one worked on, and  *)
(* the cards whose turn is still to come.                                  *)
InLeft(s, n) == \E i \in 1 .. Len(s) : n \in s[i].left
LeftIn(s)    == \A i \in 1 .. Len(s) : s[i].left \subseteq Entries(s[i].dir)
Pending(n) ==
  \/ pc \in {"opendir", "mkdir", "open", "fopen", "copy"} /\ cur = n
  \/ InLeft(stack, n)
Coming(f) ==
  card # 0 /\ \E i \in 1 .. 2 : /\ Card[i] \in Above[f]
                                /\ i > card \/ (i = card /\ pc \in {"card", "label"})
FileFails == {"open", "fopen", "nomem", "copy", "close"}
DirFails  == {"absent", "status", "label", "opendir", "readdir", "nomem", "stat", "name", "mkdir"}
Accounted(f) ==
  \/ target[f] = "whole" \/ LeftOut(f) \/ Failed(FileFails, f)
  \/ \E d \in Above[f] : Failed(DirFails, d)

(* Before a file is opened on the card its directories are there, or one   *)
(* could not be made.                                                      *)
Reachable ==
  /\ cmd \in {"gettree", "dir"} => made = Dirs
  /\ pc = "open" /\ cmd \in Trees =>
       Above[cur] \subseteq made \/ \E d \in Above[cur] : Failed({"mkdir"}, d)

(* Of every file that is not accounted for, itself or a directory above it *)
(* is still to be done, or its card.                                       *)
ArriveInv ==
  /\ LeftIn(stack) /\ Reachable
  /\ cmd \in Trees /\ <<"connect", Card[1]>> \notin failed =>
       \A f \in Files : Wanted(f) => \/ Accounted(f) \/ Coming(f)
                                     \/ \E n \in {f} \cup Above[f] : Pending(n)

(* The open directories are a path down from the one the command works on: *)
(* each is in the one before, and none is open twice.                      *)
Path(s, a) ==
  /\ s # <<>> => s[1].dir = a
  /\ \A i \in 1 .. Len(s) : /\ s[i].dir = a \/ a \in Above[s[i].dir]
                            /\ i > 1 => /\ s[i].dir \in DOMAIN Parent
                                        /\ Parent[s[i].dir] = s[i - 1].dir
  /\ \A i, j \in 1 .. Len(s) : s[i].dir = s[j].dir => i = j

Nested ==
  /\ cur \in Files \cup Dirs /\ chunks \in 0 .. NChunks
  /\ Path(stack, arg)
  /\ pc = "opendir" => IF stack = <<>> THEN cur = arg
                       ELSE cur \in DOMAIN Parent /\ Parent[cur] = Top.dir

(* The tree: going up from a file one stays above it, and every directory  *)
(* above it has an entry that leads to the file.                           *)
LEMMA UpAndDown ==
  ASSUME NEW f \in Files
  PROVE  /\ Above[f] \subseteq Dirs
         /\ \A n \in {f} \cup Above[f] : n \notin Roots => Parent[n] \in Above[f]
         /\ \A d \in Above[f] : \E n \in {f} \cup Above[f] : n \notin Roots /\ n \in Entries(d)
<1> USE TreeAssumption
<1>1. Above[f] \subseteq Dirs /\ f \notin Roots /\ f \notin Dirs
  BY DEF Above, Roots
<1>0. Above[f] = {d \in Dirs : \A S \in SUBSET Dirs : UpClosed(S, f) => d \in S}
  BY DEF Above
<1>2. ASSUME NEW n \in {f} \cup Above[f], n \notin Roots PROVE Parent[n] \in Above[f]
  <2>1. Parent[n] \in Dirs
    BY <1>1, <1>2
  <2>2. ASSUME NEW S \in SUBSET Dirs, UpClosed(S, f) PROVE Parent[n] \in S
    BY <1>0, <1>1, <1>2, <2>2 DEF UpClosed
  <2> QED
    BY <1>0, <2>1, <2>2
<1>3. ASSUME NEW d \in Above[f]
      PROVE  \E n \in {f} \cup Above[f] : n \notin Roots /\ n \in Entries(d)
  <2>1. SUFFICES ASSUME \A n \in {f} \cup Above[f] : n \notin Roots => Parent[n] # d
                 PROVE  FALSE
    BY <1>1 DEF Entries
  <2> DEFINE S == Above[f] \ {d}
  <2>2. UpClosed(S, f) /\ S \in SUBSET Dirs
    BY <1>1, <1>2, <2>1 DEF UpClosed
  <2> QED
    BY <1>0, <2>2
<1> QED
  BY <1>1, <1>2, <1>3

(* A directory is below those above the one it is in, and not below it.   *)
LEMMA AboveParent ==
  ASSUME NEW n \in DOMAIN Parent
  PROVE  /\ Parent[n] \in Above[n] /\ Above[Parent[n]] \subseteq Above[n]
         /\ n \notin Above[n]
<1> USE TreeAssumption
<1>1. /\ n \in Dirs \cup Files /\ n \notin Roots /\ Parent[n] \in Dirs /\ Roots \subseteq Dirs
      /\ \A m : m \in Dirs \cup Files =>
           Above[m] = {d \in Dirs : \A S \in SUBSET Dirs : UpClosed(S, m) => d \in S}
  BY DEF Above, Roots
<1>2. Parent[n] \in Above[n] /\ Above[Parent[n]] \subseteq Above[n]
  <2>1. ASSUME NEW S \in SUBSET Dirs, UpClosed(S, n)
        PROVE  Parent[n] \in S /\ UpClosed(S, Parent[n])
    BY <1>1, <2>1 DEF UpClosed
  <2> QED
    BY <1>1, <2>1
<1>3. ASSUME NEW d \in Dirs \ Roots PROVE Above[d] \subseteq {Parent[d]} \cup Above[Parent[d]]
  <2> DEFINE p == Parent[d]
             S == {p} \cup Above[p]
  <2>1. d \in DOMAIN Parent /\ p \in Dirs /\ Above[p] \subseteq Dirs
    BY <1>1
  <2>2. ASSUME NEW e \in S \ Roots PROVE Parent[e] \in S
    <3> SUFFICES ASSUME NEW T \in SUBSET Dirs, UpClosed(T, p) PROVE Parent[e] \in T
      BY <1>1, <2>1, <2>2
    <3>1. CASE e = p
      BY <2>2, <3>1 DEF UpClosed
    <3>2. CASE e \in Above[p]
      <4>1. e \in T
        BY <1>1, <2>1, <3>2
      <4> QED
        BY <2>2, <4>1 DEF UpClosed
    <3> QED
      BY <2>2, <3>1, <3>2
  <2>3. S \in SUBSET Dirs /\ UpClosed(S, d)
    BY <2>1, <2>2 DEF UpClosed
  <2> HIDE DEF S
  <2>4. Above[d] \subseteq S
    BY <1>1, <2>3
  <2> QED
    BY <2>4 DEF S
<1>4. ASSUME n \in Above[n] PROVE FALSE
  <2> DEFINE C == {d \in Dirs : d = n \/ n \in Above[d]}
  <2>1. n \in Dirs \ Roots
    BY <1>1, <1>4
  <2>2. Parent[n] \in C
    BY <1>1, <1>3, <1>4, <2>1
  <2>3. ASSUME NEW r \in Roots PROVE r \notin C
    <3>1. UpClosed({}, r)
      BY <2>3 DEF UpClosed
    <3>2. Above[r] = {}
      BY <1>1, <2>3, <3>1
    <3> QED
      BY <2>1, <2>3, <3>2
  <2>4. ASSUME NEW d \in C \ Roots PROVE Parent[d] \in C
    <3>1. d \in Dirs \ Roots /\ Parent[d] \in Dirs
      BY <2>4
    <3>2. CASE d = n
      BY <2>2, <3>2
    <3>3. CASE n \in Above[d]
      BY <1>3, <3>1, <3>3
    <3> QED
      BY <2>4, <3>2, <3>3
  <2>5. C \in SUBSET Dirs /\ UpClosed(C, n)
    BY <2>2, <2>4 DEF UpClosed
  <2> HIDE DEF C
  <2>6. Above[n] \subseteq C
    BY <1>1, <2>5
  <2> QED
    BY <2>3, <2>6, RootedAssumption
<1> QED
  BY <1>2, <1>4

(* Every file is on a card.                                                *)
LEMMA OnCard ==
  ASSUME NEW f \in Files
  PROVE  \E i \in 1 .. 2 : Card[i] \in Above[f]
<1>1. f \in DOMAIN Parent
  BY TreeAssumption DEF Roots
<1> QED
  BY <1>1, RootedAssumption DEF Roots

LEMMA ReturnsLeft ==
  ASSUME NEW rc, NEW rest \in Seq(Frame), Returns(rc, rest), rc \in {"OK", "ERR"}
  PROVE  /\ LeftIn(rest) => LeftIn(stack')
         /\ \A n : InLeft(rest, n) => InLeft(stack', n)
<1>1. CASE rest = <<>>
  BY <1>1 DEF Returns, LeftIn, InLeft
<1>2. CASE rest # <<>>
  <2> DEFINE k == Len(rest)
             new == IF cmd # "puttree" /\ rest[k].rval # "OK" THEN rest[k].rval ELSE rc
             top == [rest[k] EXCEPT !.rval = new]
  <2>1. k \in 1 .. Len(rest) /\ k \in Nat /\ rest[k] \in Frame
    BY <1>2
  <2>2. top \in Frame /\ top.left = rest[k].left /\ top.dir = rest[k].dir
    BY <2>1 DEF Frame
  <2>3. pc' = "readdir" /\ stack' = [rest EXCEPT ![k] = top]
    BY <1>2 DEF Returns
  <2> HIDE DEF top, k
  <2>4. /\ Len(stack') = Len(rest)
        /\ \A i \in 1 .. Len(rest) : stack'[i] = IF i = k THEN top ELSE rest[i]
    BY <2>1, <2>2, <2>3, ExceptSeq
  <2>5. \A i \in 1 .. Len(rest) : stack'[i].left = rest[i].left /\ stack'[i].dir = rest[i].dir
    BY <2>2, <2>4
  <2> QED
    BY <2>3, <2>4, <2>5 DEF LeftIn, InLeft
<1> QED
  BY <1>1, <1>2

LEMMA TopLeft ==
  ASSUME stack \in Seq(Frame), stack # <<>>, LeftIn(stack)
  PROVE  /\ Top.left \subseteq Entries(Top.dir)
         /\ LeftIn(SubSeq(stack, 1, Len(stack) - 1))
         /\ \A n : InLeft(stack, n) =>
              n \in Top.left \/ InLeft(SubSeq(stack, 1, Len(stack) - 1), n)
<1> DEFINE k == Len(stack)
           rest == SubSeq(stack, 1, k - 1)
<1>1. k \in Nat \ {0} /\ Top = stack[k] /\ k \in 1 .. Len(stack)
  BY DEF Top
<1>2. Len(rest) = k - 1 /\ \A i \in 1 .. k - 1 : rest[i] = stack[i]
  <2>1. \A i \in 1 .. k - 1 : stack[i] \in Frame
    BY <1>1
  <2>2. k - 1 \in Int /\ 1 \in Int /\ (k - 1) - 1 + 1 = k - 1
    BY <1>1
  <2> HIDE DEF k
  <2>3. /\ Len(rest) = IF 1 <= k - 1 THEN (k - 1) - 1 + 1 ELSE 0
        /\ \A i \in 1 .. (k - 1) - 1 + 1 : rest[i] = stack[1 + i - 1]
    BY <2>1, <2>2, SubSeqProperties
  <2> QED
    BY <2>2, <2>3, <1>1
<1> HIDE DEF rest
<1>3. \A i \in 1 .. k : i = k \/ i \in 1 .. k - 1
  BY <1>1
<1>4. 1 .. k - 1 \subseteq 1 .. k
  BY <1>1
<1>5. LeftIn(rest) /\ Top.left \subseteq Entries(Top.dir)
  BY <1>1, <1>2, <1>4 DEF LeftIn
<1>6. ASSUME NEW n, InLeft(stack, n) PROVE n \in Top.left \/ InLeft(rest, n)
  BY <1>1, <1>2, <1>3, <1>6 DEF InLeft
<1> QED
  BY <1>5, <1>6 DEF rest

LEMMA SetTopLeft ==
  ASSUME stack \in Seq(Frame), stack # <<>>, LeftIn(stack),
         NEW frame \in Frame, frame.dir = Top.dir, frame.left \subseteq Top.left
  PROVE  /\ LeftIn(SetTop(frame)) /\ SetTop(frame) # <<>>
         /\ \A n : InLeft(stack, n) =>
              n \in Top.left \ frame.left \/ InLeft(SetTop(frame), n)
<1> DEFINE k == Len(stack)
           s == SetTop(frame)
<1>1. k \in 1 .. Len(stack) /\ Top = stack[k] /\ s = [stack EXCEPT ![k] = frame]
  BY DEF SetTop, Top
<1> HIDE DEF k, s
<1>2. /\ Len(s) = Len(stack) /\ s \in Seq(Frame)
      /\ \A i \in 1 .. Len(stack) : s[i] = IF i = k THEN frame ELSE stack[i]
  BY <1>1, ExceptSeq
<1>3. LeftIn(s)
  BY <1>1, <1>2 DEF LeftIn
<1>4. s # <<>>
  BY <1>1, <1>2, LenProperties DEF s
<1>5. ASSUME NEW n, InLeft(stack, n) PROVE n \in Top.left \ frame.left \/ InLeft(s, n)
  BY <1>1, <1>2, <1>5 DEF InLeft
<1> QED
  BY <1>3, <1>4, <1>5 DEF s

(* A step within a command keeps what it is to do; what is accounted for   *)
(* stays so while nothing that is whole is cut.                            *)
Going ==
  /\ cmd' = cmd /\ (card = 0 <=> card' = 0) /\ (card = 0 => arg' = arg)
  /\ failed \subseteq failed'

LEMMA WantedStays == ASSUME Going, NEW f \in Files PROVE Wanted(f)' <=> Wanted(f)
BY DEF Going, Wanted

LEMMA AccountedStays ==
  ASSUME NEW f \in Files, Accounted(f), Going, target[f] = "whole" => target'[f] = "whole"
  PROVE  Accounted(f)'
<1>1. LeftOut(f) => LeftOut(f)'
  BY DEF Going, LeftOut, Skips
<1> QED
  BY <1>1 DEF Accounted, Failed, Going

(* With the result of a directory the command goes on above it, or with    *)
(* the next card.                                                          *)
LEMMA ReturnsCard ==
  ASSUME NEW rc \in {"OK", "ERR"}, NEW rest, Returns(rc, rest), CardKept,
         cmd' = cmd, failed \subseteq failed', pc \notin {"card", "label"}
  PROVE  /\ Going /\ pc' \in {"end", "card", "readdir"}
         /\ \A f \in Files : Coming(f) => Coming(f)'
<1>1. CASE rest = <<>>
  <2>1. /\ pc' \in {"end", "card"} /\ (pc' = "card" => card = 1 /\ card' = 2)
        /\ (pc' = "end" => card' = card) /\ (card = 0 <=> card' = 0) /\ (card = 0 => arg' = arg)
    BY <1>1, CardDoneKeeps DEF Returns
  <2>2. ASSUME NEW f \in Files, Coming(f) PROVE Coming(f)'
    <3>1. PICK i \in 1 .. 2 : Card[i] \in Above[f] /\ i > card /\ card # 0
      BY <2>2 DEF Coming
    <3>2. card \in 0 .. 2
      BY DEF CardKept
    <3>3. i = 2 /\ card = 1
      BY <3>1, <3>2
    <3> QED
      BY <2>1, <3>1, <3>3 DEF Coming
  <2> QED
    BY <2>1, <2>2 DEF Going
<1>2. CASE rest # <<>>
  <2>1. pc' = "readdir" /\ UNCHANGED <<card, arg>>
    BY <1>2 DEF Returns
  <2> QED
    BY <2>1 DEF Going, Coming
<1> QED
  BY <1>1, <1>2

LEMMA ArriveStep == Position /\ ArriveInv /\ Nested /\ [Next]_vars => ArriveInv'
<1> SUFFICES ASSUME Position, ArriveInv, Nested, [Next]_vars PROVE ArriveInv'
  OBVIOUS
<1> USE TreeAssumption
<1>0. /\ stack \in Seq(Frame) /\ LeftIn(stack) /\ Reachable /\ target \in [Files -> Copied]
      /\ \A f \in Files : f \notin Roots /\ f \notin Dirs
      /\ CardKept
  BY DEF Position, ArriveInv, Roots

(* the user starts a command                                               *)
<1>1. ASSUME NEW c \in Trees \cup Singles, StartFails(c) PROVE ArriveInv'
  <2>1. stack' = <<>> /\ pc' = "end" /\ <<"connect", Card[1]>> \in failed'
    BY <1>1 DEF StartFails, Begin, Position
  <2>2. cmd' \in {"gettree", "dir"} => made' = Dirs
    BY <1>1 DEF StartFails, Begin
  <2> QED
    BY <2>1, <2>2 DEF ArriveInv, Reachable, LeftIn
<1>2. ASSUME NEW c \in Trees \cup Singles, NEW n \in Files \cup Dirs, Start(c, n)
      PROVE  ArriveInv'
  <2>1. stack' = <<>> /\ LeftIn(stack)' /\ cmd' = c
    BY <1>2 DEF Start, Begin, Position, LeftIn
  <2>2. cmd' \in {"gettree", "dir"} => made' = Dirs
    BY <1>2 DEF Start, Begin
  <2>3. cmd' \in Trees => pc' = "opendir" /\ cur' = n /\ arg' = n /\ card' = 0
    BY <1>2, <2>1 DEF Start, Trees
  <2>4. ASSUME cmd' \in Trees, NEW f \in Files, Wanted(f)'
        PROVE  \E m \in {f} \cup Above[f] : Pending(m)'
    BY <2>3, <2>4 DEF Pending, Wanted
  <2> QED
    BY <2>1, <2>2, <2>3, <2>4 DEF ArriveInv, Reachable
<1>25. ASSUME NEW c \in Trees \cup Singles, StartBoth(c) PROVE ArriveInv'
  <2>1. stack' = <<>> /\ LeftIn(stack)' /\ made' = Dirs /\ pc' = "card" /\ card' = 1
    BY <1>25 DEF StartBoth, Begin, Position, LeftIn
  <2>2. ASSUME NEW f \in Files PROVE Coming(f)'
    BY <2>1, OnCard DEF Coming
  <2> QED
    BY <2>1, <2>2 DEF ArriveInv, Reachable

(* what a step of a tree has to show: each file not accounted for has      *)
(* something pending, or becomes accounted for                             *)
<1>3. ASSUME Going, LeftIn(stack'), Reachable',
             \A f \in Files : cmd \in Trees /\ Accounted(f) =>
                Accounted(f)' \/ \E n \in {f} \cup Above[f] : Pending(n)',
             \A f \in Files : cmd \in Trees /\ Coming(f) =>
                Accounted(f)' \/ Coming(f)' \/ \E n \in {f} \cup Above[f] : Pending(n)',
             \A f \in Files : \A n \in {f} \cup Above[f] : cmd \in Trees /\ Pending(n) =>
                Accounted(f)' \/ \E m \in {f} \cup Above[f] : Pending(m)'
      PROVE  ArriveInv'
  <2> SUFFICES ASSUME cmd' \in Trees, <<"connect", Card[1]>> \notin failed', NEW f \in Files,
                      Wanted(f)'
               PROVE  Accounted(f)' \/ Coming(f)' \/ \E n \in {f} \cup Above[f] : Pending(n)'
    BY <1>3 DEF ArriveInv
  <2>1. cmd \in Trees /\ <<"connect", Card[1]>> \notin failed /\ Wanted(f)
    BY <1>3, WantedStays DEF Going
  <2> QED
    BY <1>3, <2>1 DEF ArriveInv
<1>26. ASSUME NEW f \in Files, Coming(f), card' = card, pc \notin {"card", "label"}
       PROVE  Coming(f)'
  BY <1>26 DEF Coming

(* steps within a file                                                     *)
<1>4. ASSUME pc \in {"mkdir", "open", "fopen", "copy"}, Same, UNCHANGED <<stack, cur>>,
             pc' \in {"open", "fopen", "copy"}, failed \subseteq failed', Reachable',
             \A f \in Files \ {cur} : target'[f] = target[f]
      PROVE  ArriveInv'
  <2>0. Going /\ card' = card
    BY <1>4 DEF Going, Same
  <2>1. ASSUME NEW n, Pending(n) PROVE Pending(n)'
    BY <1>4, <2>1 DEF Pending
  <2>2. ASSUME NEW f \in Files, Accounted(f)
        PROVE  Accounted(f)' \/ \E n \in {f} \cup Above[f] : Pending(n)'
    <3>1. CASE f = cur
      BY <1>4, <3>1 DEF Pending
    <3>2. CASE f # cur
      BY <1>4, <2>0, <2>2, <3>2, AccountedStays
    <3> QED
      BY <3>1, <3>2
  <2>3. LeftIn(stack')
    BY <1>0, <1>4
  <2>4. \A f \in Files : Coming(f) => Coming(f)'
    BY <1>4, <1>26, <2>0
  <2> QED
    BY <1>3, <1>4, <2>0, <2>1, <2>2, <2>3, <2>4
<1>5. ASSUME pc \in {"open", "fopen", "copy"}, Same, failed \subseteq failed', UNCHANGED made,
             NEW rc, CopyReturns(rc), NEW g \in Files, g = cur, Accounted(g)',
             \A f \in Files \ {g} : target'[f] = target[f]
      PROVE  ArriveInv'
  <2>0. Going /\ card' = card
    BY <1>5 DEF Going, Same
  <2>1. stack' = stack /\ pc' # "open" /\ Reachable'
    BY <1>0, <1>5, <2>0 DEF CopyReturns, Reachable, Going
  <2>2. ASSUME NEW f \in Files, Accounted(f) PROVE Accounted(f)'
    <3>1. CASE f = g
      BY <1>5, <3>1
    <3>2. CASE f # g
      BY <1>5, <2>0, <2>2, <3>2, AccountedStays
    <3> QED
      BY <3>1, <3>2
  <2>3. ASSUME NEW f \in Files, NEW n \in {f} \cup Above[f], Pending(n)
        PROVE  Accounted(f)' \/ Pending(n)'
    <3>1. CASE n = cur
      <4>1. f = g
        BY <1>5, <3>1, <1>0, UpAndDown
      <4> QED
        BY <1>5, <4>1
    <3>2. CASE InLeft(stack, n)
      BY <2>1, <2>3, <3>2 DEF Pending
    <3> QED
      BY <2>3, <3>1, <3>2 DEF Pending
  <2>4. \A f \in Files : Coming(f) => Coming(f)'
    BY <1>5, <1>26, <2>0
  <2> QED
    BY <1>0, <1>3, <2>0, <2>1, <2>2, <2>3, <2>4
<1>27. CASE MakeDirs
  <2>1. /\ pc = "mkdir" /\ pc' = "open" /\ Same /\ UNCHANGED <<target, stack, cur>>
        /\ cur \in Files /\ cmd = "puttree"
    BY <1>27 DEF MakeDirs, Position
  <2>2. failed \subseteq failed'
    BY <1>27 DEF MakeDirs, Failing
  <2>3. Above[cur] \subseteq made' \/ \E d \in Above[cur] : <<"mkdir", d>> \in failed'
    BY <1>27 DEF MakeDirs, Failing
  <2>4. Reachable'
    BY <2>1, <2>3 DEF Reachable, Same, Failed
  <2> QED
    BY <1>4, <2>1, <2>2, <2>4
<1>6. CASE OpenFile
  <2>0. Same /\ UNCHANGED made /\ pc = "open" /\ cur \in Files
    BY <1>6 DEF OpenFile, Position
  <2>4. PICK g \in Files : g = cur
    BY <2>0
  <2>1. CASE UNCHANGED failed /\ pc' = "fopen" /\ UNCHANGED <<stack, cur>>
    <3>1. \A f \in Files \ {cur} : target'[f] = target[f]
      BY <1>0, <1>6, <2>1 DEF OpenFile, CopyReturns
    <3>2. Reachable'
      BY <1>0, <2>0, <2>1 DEF Reachable, Same
    <3> QED
      BY <1>4, <2>0, <2>1, <3>1, <3>2
  <2>2. CASE Failing("open", cur) /\ CopyReturns("ERR") /\ UNCHANGED target
    <3>1. <<"open", cur>> \in failed' /\ failed \subseteq failed'
      BY <2>2 DEF Failing
    <3>2. Accounted(g)'
      BY <2>4, <3>1 DEF Accounted, Failed, FileFails
    <3> QED
      BY <1>5, <2>0, <2>2, <2>4, <3>1, <3>2
  <2>3. CASE /\ ~(Above[cur] \subseteq made) /\ UNCHANGED <<failed, target>>
             /\ CopyReturns("ERR")
    <3>1. CASE cmd \in Trees
      <4>1. PICK d \in Above[cur] : <<"mkdir", d>> \in failed'
        BY <1>0, <2>0, <2>3, <3>1 DEF Reachable, Failed
      <4>2. Accounted(g)'
        BY <2>4, <4>1 DEF Accounted, Failed, DirFails
      <4> QED
        BY <1>5, <2>0, <2>3, <2>4, <4>2
    <3>2. CASE cmd \notin Trees
      BY <1>0, <2>0, <2>3, <3>2 DEF CopyReturns, ArriveInv, Reachable, Same, Trees
    <3> QED
      BY <3>1, <3>2
  <2> QED
    BY <1>6, <2>1, <2>2, <2>3 DEF OpenFile
<1>7. CASE OpenLocal
  <2>0. Same /\ UNCHANGED made /\ pc = "fopen" /\ cur \in Files
    BY <1>7 DEF OpenLocal, Position
  <2>4. PICK g \in Files : g = cur
    BY <2>0
  <2>1. CASE UNCHANGED failed /\ pc' = "copy" /\ UNCHANGED <<stack, cur>>
    <3>1. \A f \in Files \ {cur} : target'[f] = target[f]
      BY <1>0, <1>7, <2>1 DEF OpenLocal
    <3>2. Reachable'
      BY <1>0, <2>0, <2>1 DEF Reachable, Same
    <3> QED
      BY <1>4, <2>0, <2>1, <3>1, <3>2
  <2>2. ASSUME NEW call \in {"nomem", "fopen"}, Failing(call, cur), CopyReturns("OK"),
               UNCHANGED target
        PROVE  ArriveInv'
    <3>1. <<call, cur>> \in failed' /\ failed \subseteq failed'
      BY <2>2 DEF Failing
    <3>2. Accounted(g)'
      BY <2>4, <3>1 DEF Accounted, Failed, FileFails
    <3> QED
      BY <1>5, <2>0, <2>2, <2>4, <3>1, <3>2
  <2> QED
    BY <1>7, <2>1, <2>2 DEF OpenLocal
<1>8. CASE Copy
  <2>0. Same /\ UNCHANGED made /\ pc = "copy" /\ cur \in Files
    BY <1>8 DEF Copy, Position
  <2>4. PICK g \in Files : g = cur
    BY <2>0
  <2>1. CASE UNCHANGED <<failed, pc, target, stack, cur>>
    <3>1. Reachable'
      BY <1>0, <2>0, <2>1 DEF Reachable, Same
    <3> QED
      BY <1>4, <2>0, <2>1, <3>1
  <2>2. CASE Failing("copy", cur) /\ CopyReturns("ERR") /\ UNCHANGED target
    <3>1. <<"copy", cur>> \in failed' /\ failed \subseteq failed'
      BY <2>2 DEF Failing
    <3>2. Accounted(g)'
      BY <2>4, <3>1 DEF Accounted, Failed, FileFails
    <3> QED
      BY <1>5, <2>0, <2>2, <2>4, <3>1, <3>2
  <2> QED
    BY <1>8, <2>1, <2>2 DEF Copy
<1>9. CASE CopyEnds
  <2>0. Same /\ UNCHANGED made /\ pc = "copy" /\ cur \in Files /\ CopyReturns("OK")
    BY <1>9 DEF CopyEnds, Position
  <2>4. PICK g \in Files : g = cur
    BY <2>0
  <2>1. failed \subseteq failed' /\ \A f \in Files \ {cur} : target'[f] = target[f]
    BY <1>0, <1>9, <2>0 DEF CopyEnds, Failing
  <2>2. target'[cur] = "whole" \/ <<"close", cur>> \in failed'
    BY <1>0, <1>9, <2>0 DEF CopyEnds, Failing
  <2>3. Accounted(g)'
    BY <2>2, <2>4 DEF Accounted, Failed, FileFails
  <2> QED
    BY <1>5, <2>0, <2>1, <2>3, <2>4
<1>10. CASE DeleteFile
  <2>1. pc = "delete" /\ cmd = "del" /\ cmd' = cmd /\ stack' = stack
    BY <1>10 DEF DeleteFile, Same, Position
  <2> QED
    BY <1>0, <2>1 DEF ArriveInv, Reachable, Trees

(* steps between the cards                                                 *)
<1>28. ASSUME pc \in {"card", "label"}, cmd' = cmd, NEW rc \in {"OK", "ERR"}, CardDone(rc),
              UNCHANGED <<target, made, stack>>, NEW call \in DirFails, Failing(call, arg)
       PROVE  ArriveInv'
  <2>1. /\ card \in 1 .. 2 /\ arg = Card[card] /\ stack = <<>> /\ cmd \in Trees
        /\ failed \subseteq failed' /\ <<call, arg>> \in failed'
    BY <1>0, <1>28 DEF CardKept, Position, Failing
  <2>2. /\ pc' \in {"end", "card"} /\ (pc' = "card" => card = 1 /\ card' = 2)
        /\ pc' = "end" => card' = card
        /\ Going
    BY <1>0, <1>28, <2>1, CardDoneKeeps DEF Going
  <2>3. Reachable' /\ LeftIn(stack')
    BY <1>0, <1>28, <2>2 DEF Reachable
  <2>4. \A f \in Files : Accounted(f) => Accounted(f)'
    BY <1>28, <2>2, AccountedStays
  <2>5. ASSUME NEW f \in Files, Coming(f) PROVE Accounted(f)' \/ Coming(f)'
    <3>1. PICK i \in 1 .. 2 : Card[i] \in Above[f] /\ (i > card \/ i = card)
      BY <2>5 DEF Coming
    <3>2. CASE i = card
      BY <2>1, <3>1, <3>2 DEF Accounted, Failed
    <3>3. CASE i > card
      <4>1. i = 2 /\ card = 1
        BY <2>1, <3>3
      <4>2. CASE pc' = "card"
        BY <2>2, <3>1, <4>1, <4>2 DEF Coming
      <4>3. CASE pc' = "end"
        BY <2>2, <3>1, <4>1, <4>3 DEF Coming
      <4> QED
        BY <2>2, <4>2, <4>3
    <3> QED
      BY <3>1, <3>2, <3>3
  <2>6. \A n : ~Pending(n)
    BY <1>28, <2>1 DEF Pending, InLeft
  <2> QED
    BY <1>3, <2>2, <2>3, <2>4, <2>5, <2>6
<1>29. ASSUME pc \in {"card", "label"}, cmd' = cmd, pc' \in {"label", "opendir"}, cur' = arg,
              UNCHANGED <<failed, rval, card, arg, target, made, stack>>
       PROVE  ArriveInv'
  <2>1. card \in 1 .. 2 /\ arg = Card[card] /\ stack = <<>>
    BY <1>0, <1>29 DEF CardKept, Position
  <2>2. Going /\ LeftIn(stack') /\ Reachable'
    BY <1>0, <1>29 DEF Going, Reachable
  <2>3. \A f \in Files : Accounted(f) => Accounted(f)'
    BY <1>29, <2>2, AccountedStays
  <2>4. \A n : ~Pending(n)
    BY <1>29, <2>1 DEF Pending, InLeft
  <2>5. ASSUME NEW f \in Files, Coming(f)
        PROVE  Coming(f)' \/ \E n \in {f} \cup Above[f] : Pending(n)'
    <3>1. PICK i \in 1 .. 2 : Card[i] \in Above[f] /\ (i > card \/ i = card)
      BY <2>5 DEF Coming
    <3>2. CASE i = card /\ pc' = "opendir"
      BY <1>29, <2>1, <3>1, <3>2 DEF Pending
    <3>3. CASE i = card /\ pc' = "label"
      BY <1>29, <2>1, <3>1, <3>3 DEF Coming
    <3>4. CASE i > card
      BY <1>29, <2>1, <3>1, <3>4 DEF Coming
    <3> QED
      BY <1>29, <3>1, <3>2, <3>3, <3>4
  <2> QED
    BY <1>3, <2>2, <2>3, <2>4, <2>5
<1>30. CASE CardStatus
  <2>1. pc = "card" /\ cmd' = cmd /\ UNCHANGED <<target, made, stack>>
    BY <1>30 DEF CardStatus
  <2>2. CASE Failing("absent", arg) /\ CardDone("OK")
    BY <1>28, <2>1, <2>2 DEF DirFails
  <2>3. CASE Failing("status", arg) /\ CardDone("ERR")
    BY <1>28, <2>1, <2>3 DEF DirFails
  <2>4. CASE /\ UNCHANGED <<failed, rval, card, arg>> /\ cur' = arg
             /\ pc' \in {"label", "opendir"}
    BY <1>29, <2>1, <2>4
  <2> QED
    BY <1>30, <2>2, <2>3, <2>4 DEF CardStatus
<1>31. CASE CardLabel
  <2>1. pc = "label" /\ cmd' = cmd /\ UNCHANGED <<target, made, stack>> /\ cur' = arg
    BY <1>31 DEF CardLabel, Position
  <2>2. CASE Failing("label", arg) /\ CardDone("ERR")
    BY <1>28, <2>1, <2>2 DEF DirFails
  <2>3. CASE UNCHANGED <<failed, rval, card, arg>> /\ pc' = "opendir"
    BY <1>29, <2>1, <2>3
  <2> QED
    BY <1>31, <2>2, <2>3 DEF CardLabel

(* steps within a directory                                                *)
<1>11. ASSUME NEW f \in Files, Going, target' = target, Accounted(f)
       PROVE  Accounted(f)'
  BY <1>11, AccountedStays
<1>12. ASSUME pc = "readdir"
       PROVE  stack # <<>> /\ Top \in Frame /\ cmd \in Trees
              /\ SubSeq(stack, 1, Len(stack) - 1) \in Seq(Frame)
  BY <1>12, <1>0, TopAndRest DEF Position
<1>13. ASSUME NEW n, pc = "readdir", Pending(n) PROVE InLeft(stack, n)
  BY <1>13 DEF Pending
<1>14. ASSUME NEW n \in Top.left, pc = "readdir", NEW f \in Files, n \in {f} \cup Above[f],
              NEW call \in DirFails, Failing(call, Top.dir)
       PROVE  Accounted(f)'
  <2>1. n \in Entries(Top.dir)
    BY <1>0, <1>12, <1>14, TopLeft
  <2>2. n \notin Roots /\ Parent[n] = Top.dir
    BY <1>0, <2>1 DEF Entries, Roots
  <2>3. Top.dir \in Above[f]
    BY <1>14, <2>2, UpAndDown
  <2>4. <<call, Top.dir>> \in failed'
    BY <1>14 DEF Failing
  <2> QED
    BY <2>3, <2>4 DEF Accounted, Failed
<1>15. ASSUME pc = "readdir", Same, failed \subseteq failed', target' = target, made' = made,
              NEW frame \in Frame, frame.dir = Top.dir, frame.left \subseteq Top.left,
              stack' = SetTop(frame), pc' # "open" \/ cmd # "puttree",
              \A f \in Files : \A n \in {f} \cup Above[f] :
                n \in Top.left \ frame.left => Accounted(f)' \/ Pending(n)'
       PROVE  ArriveInv'
  <2>0. Going /\ card' = card
    BY <1>15 DEF Going, Same
  <2>1. LeftIn(stack') /\ \A n : InLeft(stack, n) =>
                            n \in Top.left \ frame.left \/ InLeft(stack', n)
    BY <1>0, <1>12, <1>15, SetTopLeft
  <2>2. ASSUME NEW f \in Files, NEW n \in {f} \cup Above[f], Pending(n)
        PROVE  Accounted(f)' \/ Pending(n)'
    <3>1. InLeft(stack, n)
      BY <1>13, <1>15, <2>2
    <3>2. CASE n \in Top.left \ frame.left
      BY <1>15, <3>2
    <3>3. CASE InLeft(stack', n)
      BY <3>3 DEF Pending
    <3> QED
      BY <2>1, <3>1, <3>2, <3>3
  <2>3. \A f \in Files : Coming(f) => Coming(f)'
    BY <1>15, <1>26, <2>0
  <2>4. Reachable'
    <3>1. cmd \in {"gettree", "dir", "puttree"}
      BY <1>12, <1>15 DEF Trees
    <3>2. pc' = "open" => Above[cur'] \subseteq made'
      <4> SUFFICES ASSUME pc' = "open", made' = Dirs PROVE Above[cur'] \subseteq made'
        BY <1>0, <1>15, <3>1 DEF Reachable
      <4>1. cur' \in Files
        BY <1>15, PositionStep DEF Position
      <4> QED
        BY <4>1, UpAndDown
    <3> QED
      BY <1>0, <1>15, <2>0, <3>2 DEF Reachable, Going
  <2> QED
    BY <1>3, <1>11, <1>12, <1>15, <2>0, <2>1, <2>2, <2>3, <2>4
<1>16. ASSUME pc = "readdir", cmd' = cmd, failed \subseteq failed', target' = target,
              cmd # "puttree" => made' = made,
              NEW rc \in {"OK", "ERR"}, Returns(rc, SubSeq(stack, 1, Len(stack) - 1)),
              \A f \in Files : \A n \in {f} \cup Above[f] : n \in Top.left => Accounted(f)'
       PROVE  ArriveInv'
  <2> DEFINE rest == SubSeq(stack, 1, Len(stack) - 1)
  <2>1. /\ LeftIn(rest) /\ rest \in Seq(Frame) /\ cmd \in Trees
        /\ \A n : InLeft(stack, n) => n \in Top.left \/ InLeft(rest, n)
    BY <1>0, <1>12, <1>16, TopLeft
  <2>2. Returns(rc, rest)
    BY <1>16
  <2> HIDE DEF rest
  <2>3. LeftIn(stack') /\ \A n : InLeft(rest, n) => InLeft(stack', n)
    BY <2>1, <2>2, ReturnsLeft
  <2>4. ASSUME NEW f \in Files, NEW n \in {f} \cup Above[f], Pending(n)
        PROVE  Accounted(f)' \/ Pending(n)'
    <3>1. n \in Top.left \/ InLeft(stack', n)
      BY <1>13, <1>16, <2>1, <2>3, <2>4
    <3> QED
      BY <1>16, <3>1 DEF Pending
  <2>5. /\ Going /\ pc' \in {"end", "card", "readdir"}
        /\ \A f \in Files : Coming(f) => Coming(f)'
    BY <1>0, <1>16, <2>1, <2>2, ReturnsCard DEF Position
  <2>6. Reachable'
    BY <1>0, <1>16, <2>5 DEF Reachable
  <2> QED
    BY <1>3, <1>11, <1>16, <2>1, <2>3, <2>4, <2>5, <2>6
<1>17. CASE OpenDir
  <2>1. /\ pc = "opendir" /\ cmd' = cmd /\ cmd \in Trees /\ UNCHANGED <<target, made>>
        /\ cur \in Dirs /\ rval \in {"OK", "ERR"}
    BY <1>17 DEF OpenDir, Position
  <2>2. CASE Failing("opendir", cur) /\ Returns("ERR", stack)
    <3>1. LeftIn(stack') /\ \A n : InLeft(stack, n) => InLeft(stack', n)
      BY <1>0, <2>2, ReturnsLeft
    <3>2. failed \subseteq failed' /\ <<"opendir", cur>> \in failed'
      BY <2>2 DEF Failing
    <3>3. ASSUME NEW f \in Files, NEW n \in {f} \cup Above[f], Pending(n)
          PROVE  Accounted(f)' \/ Pending(n)'
      <4>1. CASE n = cur
        <5>1. cur \in Above[f]
          BY <1>0, <2>1, <4>1
        <5> QED
          BY <3>2, <5>1 DEF Accounted, Failed, DirFails
      <4>2. CASE InLeft(stack, n)
        BY <3>1, <4>2 DEF Pending
      <4> QED
        BY <3>3, <4>1, <4>2 DEF Pending
    <3>4. /\ Going /\ pc' \in {"end", "card", "readdir"}
          /\ \A f \in Files : Coming(f) => Coming(f)'
      BY <1>0, <2>1, <2>2, <3>2, ReturnsCard
    <3>5. Reachable'
      BY <1>0, <2>1, <3>4 DEF Reachable
    <3> QED
      BY <1>3, <1>11, <2>1, <3>1, <3>3, <3>4, <3>5
  <2>3. CASE /\ UNCHANGED <<failed, rval, card, arg>> /\ pc' = "readdir"
             /\ stack' = Append(stack, [dir |-> cur, left |-> Entries(cur), rval |-> "OK"])
    <3> DEFINE new == [dir |-> cur, left |-> Entries(cur), rval |-> "OK"]
    <3>1. new \in Frame /\ new.left = Entries(cur) /\ new.dir = cur
      BY <2>1 DEF Frame, Entries
    <3> HIDE DEF new
    <3>2. /\ Len(stack') = Len(stack) + 1 /\ stack'[Len(stack) + 1] = new
          /\ \A i \in 1 .. Len(stack) : stack'[i] = stack[i]
      BY <1>0, <2>3, <3>1, AppendProperties DEF new
    <3>3. Len(stack) \in Nat
      BY <1>0
    <3>4. \A i \in 1 .. Len(stack') : i \in 1 .. Len(stack) \/ i = Len(stack) + 1
      BY <3>2, <3>3
    <3>5. LeftIn(stack')
      BY <1>0, <3>1, <3>2, <3>4 DEF LeftIn
    <3>6. ASSUME NEW n, InLeft(stack, n) \/ n \in Entries(cur) PROVE InLeft(stack', n)
      <4>1. Len(stack) + 1 \in 1 .. Len(stack') /\ 1 .. Len(stack) \subseteq 1 .. Len(stack')
        BY <3>2, <3>3
      <4> QED
        BY <3>1, <3>2, <3>6, <4>1 DEF InLeft
    <3>7. ASSUME NEW f \in Files, NEW n \in {f} \cup Above[f], Pending(n)
          PROVE  \E m \in {f} \cup Above[f] : Pending(m)'
      <4>1. CASE n = cur
        <5>1. cur \in Above[f]
          BY <1>0, <2>1, <4>1
        <5>2. PICK m \in {f} \cup Above[f] : m \in Entries(cur)
          BY <5>1, UpAndDown
        <5> QED
          BY <3>6, <5>2 DEF Pending
      <4>2. CASE InLeft(stack, n)
        BY <3>6, <4>2 DEF Pending
      <4> QED
        BY <3>7, <4>1, <4>2 DEF Pending
    <3>8. Going /\ Reachable' /\ \A f \in Files : Coming(f) => Coming(f)'
      BY <1>0, <1>26, <2>1, <2>3 DEF Going, Reachable
    <3> QED
      BY <1>3, <1>11, <2>1, <3>5, <3>7, <3>8
  <2> QED
    BY <1>17, <2>2, <2>3 DEF OpenDir
<1>18. ASSUME NEW n \in DOMAIN Parent, ReadDir(n) PROVE ArriveInv'
  <2> DEFINE frame == [Top EXCEPT !.left = @ \ {n}]
  <2>1. /\ pc = "readdir" /\ Same /\ failed' = failed /\ stack' = SetTop(frame) /\ made' = made
        /\ n \in Top.left /\ Top \in Frame /\ stack # <<>> /\ cmd \in Trees
    BY <1>12, <1>18 DEF ReadDir, Entry
  <2>2. frame \in Frame /\ frame.dir = Top.dir /\ frame.left = Top.left \ {n}
    BY <2>1 DEF Frame
  <2> HIDE DEF frame
  <2>3. CASE ~Skips(n) /\ pc' \in {"opendir", "mkdir", "open"} /\ cur' = n /\ UNCHANGED target
             /\ (pc' = "open" => cmd # "puttree")
    BY <1>15, <2>1, <2>2, <2>3 DEF Pending
  <2>4. CASE Skips(n) /\ UNCHANGED <<pc, cur, target>>
    <3>1. arg \in Above[n]
      <4>1. n \in Entries(Top.dir)
        BY <1>0, <2>1, TopLeft
      <4>2. Len(stack) \in 1 .. Len(stack)
        BY <1>0, <2>1
      <4>3. Top.dir = arg \/ arg \in Above[Top.dir]
        BY <4>2 DEF Nested, Path, Top
      <4> QED
        BY <4>1, <4>3, AboveParent DEF Entries
    <3>2. ASSUME NEW f \in Files, n \in {f} \cup Above[f] PROVE Accounted(f)'
      <4>1. Skips(n)' /\ arg' = arg
        BY <2>1, <2>4 DEF Skips, Same
      <4> QED
        BY <3>1, <3>2, <4>1 DEF Accounted, LeftOut
    <3>3. pc' # "open"
      BY <2>1, <2>4
    <3> QED
      BY <1>15, <2>1, <2>2, <2>4, <3>2, <3>3
  <2>5. CASE /\ n \in Files /\ cmd = "dir" /\ UNCHANGED <<cur, pc>>
             /\ target' = [target EXCEPT ![n] = "whole"]
    <3>0. Going /\ card' = card
      BY <2>1 DEF Going, Same
    <3>1. target'[n] = "whole" /\ \A f \in Files \ {n} : target'[f] = target[f]
      BY <1>0, <2>5
    <3>2. Accounted(n)'
      BY <3>1 DEF Accounted
    <3>3. ASSUME NEW f \in Files, Accounted(f) PROVE Accounted(f)'
      BY <3>0, <3>1, <3>3, AccountedStays
    <3>4. LeftIn(stack') /\ \A m : InLeft(stack, m) =>
                              m \in Top.left \ frame.left \/ InLeft(stack', m)
      BY <1>0, <2>1, <2>2, SetTopLeft
    <3>5. ASSUME NEW f \in Files, NEW m \in {f} \cup Above[f], Pending(m)
          PROVE  Accounted(f)' \/ Pending(m)'
      <4>1. m = n \/ InLeft(stack', m)
        BY <1>13, <2>1, <2>2, <3>4, <3>5
      <4>2. m = n => f = n
        BY <1>0, <2>5, <3>5, UpAndDown
      <4> QED
        BY <3>2, <4>1, <4>2 DEF Pending
    <3>6. Reachable' /\ \A f \in Files : Coming(f) => Coming(f)'
      BY <1>0, <1>26, <2>1, <2>5, <3>0 DEF Reachable, Going
    <3> QED
      BY <1>3, <3>0, <3>3, <3>4, <3>5, <3>6
  <2> QED
    BY <1>18, <2>3, <2>4, <2>5 DEF ReadDir, Entry
<1>19. CASE ReadDirFails
  <2>1. /\ pc = "readdir" /\ pc' = pc /\ Same /\ target' = target /\ made' = made
        /\ Failing("readdir", Top.dir) /\ stack' = SetTop([Top EXCEPT !.left = {}])
        /\ failed \subseteq failed'
    BY <1>19 DEF ReadDirFails, Failing
  <2>2. /\ [Top EXCEPT !.left = {}] \in Frame
        /\ [Top EXCEPT !.left = {}].dir = Top.dir /\ [Top EXCEPT !.left = {}].left = {}
    BY <1>12, <2>1 DEF Frame
  <2>3. "readdir" \in DirFails
    BY DEF DirFails
  <2> QED
    BY <1>14, <1>15, <2>1, <2>2, <2>3
<1>20. ASSUME NEW n \in DOMAIN Parent, StatFails(n) PROVE ArriveInv'
  <2>1. /\ pc = "readdir" /\ pc' = pc /\ Same /\ target' = target /\ made' = made
        /\ Failing("stat", Top.dir) /\ failed \subseteq failed'
        /\ stack' = SetTop([Top EXCEPT !.left = {}, !.rval = "ERR"])
    BY <1>20 DEF StatFails, Failing
  <2>2. /\ [Top EXCEPT !.left = {}, !.rval = "ERR"] \in Frame
        /\ [Top EXCEPT !.left = {}, !.rval = "ERR"].dir = Top.dir
        /\ [Top EXCEPT !.left = {}, !.rval = "ERR"].left = {}
    BY <1>12, <2>1 DEF Frame
  <2>3. "stat" \in DirFails
    BY DEF DirFails
  <2> QED
    BY <1>14, <1>15, <2>1, <2>2, <2>3
<1>32. ASSUME NEW n \in DOMAIN Parent, NoMemory(n) PROVE ArriveInv'
  <2>1. /\ pc = "readdir" /\ pc' = pc /\ Same /\ target' = target /\ made' = made
        /\ <<"nomem", n>> \in failed' /\ failed \subseteq failed' /\ n \in Dirs
        /\ stack' = SetTop([Top EXCEPT !.left = @ \ {n}])
    BY <1>32 DEF NoMemory, Failing
  <2>2. /\ [Top EXCEPT !.left = @ \ {n}] \in Frame
        /\ [Top EXCEPT !.left = @ \ {n}].dir = Top.dir
        /\ [Top EXCEPT !.left = @ \ {n}].left = Top.left \ {n}
    BY <1>12, <2>1 DEF Frame
  <2>3. ASSUME NEW f \in Files, n \in {f} \cup Above[f] PROVE Accounted(f)'
    <3>1. n \in Above[f]
      BY <1>0, <2>1, <2>3
    <3> QED
      BY <2>1, <3>1 DEF Accounted, Failed, DirFails
  <2> QED
    BY <1>15, <2>1, <2>2, <2>3
<1>33. ASSUME NEW n \in DOMAIN Parent, Crash(n) PROVE ArriveInv'
  BY <1>33 DEF Crash, ArriveInv, Reachable, LeftIn, Trees
<1>21. ASSUME NEW n \in DOMAIN Parent, BadName(n) PROVE ArriveInv'
  <2>1. /\ pc = "readdir" /\ cmd' = cmd /\ target' = target /\ cmd = "puttree"
        /\ Failing("name", Top.dir) /\ failed \subseteq failed'
        /\ Returns("ERR", SubSeq(stack, 1, Len(stack) - 1))
    BY <1>21 DEF BadName, Failing
  <2>2. "name" \in DirFails
    BY DEF DirFails
  <2> QED
    BY <1>14, <1>16, <2>1, <2>2
<1>22. CASE CloseDir
  <2>1. /\ pc = "readdir" /\ cmd' = cmd /\ target' = target /\ failed \subseteq failed'
        /\ Top.left = {} /\ Top.rval \in {"OK", "ERR"} /\ made' = made
        /\ \E rc \in {"OK", "ERR"} : Returns(rc, SubSeq(stack, 1, Len(stack) - 1))
    BY <1>12, <1>22 DEF CloseDir, Failing, Frame
  <2> QED
    BY <1>16, <2>1
<1>23. CASE Exit
  BY <1>0, <1>23 DEF Exit, ArriveInv, Reachable, Trees
<1>24. CASE UNCHANGED vars
  BY <1>24 DEF vars, ArriveInv, Reachable, Pending, Coming, Accounted, Failed, Wanted,
               LeftOut, Skips
<1> QED
  BY <1>1, <1>2, <1>25, <1>27, <1>6, <1>7, <1>8, <1>9, <1>10, <1>30, <1>31, <1>17, <1>18,
     <1>19, <1>20, <1>32, <1>33, <1>21, <1>22, <1>23, <1>24 DEF Next, Program

-----------------------------------------------------------------------------
(* A path stays one when its end is cut off.                               *)
LEMMA PathShorter ==
  ASSUME NEW a, NEW s \in Seq(Frame), NEW t \in Seq(Frame), Path(s, a), Len(t) <= Len(s),
         \A i \in 1 .. Len(t) : t[i].dir = s[i].dir
  PROVE  Path(t, a)
<1> DEFINE m == Len(s)
           n == Len(t)
<1>1. m \in Nat /\ n \in Nat /\ n <= m /\ (t # <<>> => n > 0) /\ (s = <<>> => m = 0)
  OBVIOUS
<1> HIDE DEF m, n
<1>2. /\ m > 0 => s[1].dir = a
      /\ \A i \in 1 .. m : /\ s[i].dir = a \/ a \in Above[s[i].dir]
                           /\ i > 1 => /\ s[i].dir \in DOMAIN Parent
                                       /\ Parent[s[i].dir] = s[i - 1].dir
      /\ \A i, j \in 1 .. m : s[i].dir = s[j].dir => i = j
      /\ \A i \in 1 .. n : t[i].dir = s[i].dir
  BY <1>1 DEF Path, m, n
<1>3. t # <<>> => t[1].dir = a
  BY <1>1, <1>2
<1>4. ASSUME NEW i \in 1 .. n, i > 1
      PROVE  t[i].dir \in DOMAIN Parent /\ Parent[t[i].dir] = t[i - 1].dir
  <2>1. i \in 1 .. m /\ i - 1 \in 1 .. n
    BY <1>1, <1>4
  <2> QED
    BY <1>2, <1>4, <2>1
<1>5. ASSUME NEW i \in 1 .. n, NEW j \in 1 .. n, t[i].dir = t[j].dir PROVE i = j
  <2>1. i \in 1 .. m /\ j \in 1 .. m
    BY <1>1
  <2> QED
    BY <1>2, <1>5, <2>1
<1>6. ASSUME NEW i \in 1 .. n PROVE t[i].dir = a \/ a \in Above[t[i].dir]
  <2>1. i \in 1 .. m
    BY <1>1
  <2> QED
    BY <1>2, <1>6, <2>1
<1> QED
  BY <1>3, <1>4, <1>5, <1>6 DEF Path, n

(* It stays one when a directory within its last is added.                 *)
LEMMA PathLonger ==
  ASSUME NEW a, stack \in Seq(Frame), Path(stack, a), NEW new \in Frame,
         IF stack = <<>> THEN new.dir = a
         ELSE new.dir \in DOMAIN Parent /\ Parent[new.dir] = Top.dir
  PROVE  Path(Append(stack, new), a)
<1> DEFINE n == Len(stack)
           s == Append(stack, new)
<1>1. /\ n \in Nat /\ (stack = <<>> <=> n = 0) /\ Len(s) = n + 1 /\ s # <<>>
      /\ s[n + 1] = new /\ \A i \in 1 .. n : s[i] = stack[i]
  BY AppendProperties
<1>2. Top = stack[n]
  BY DEF Top
<1> HIDE DEF n, s
<1>3. /\ n > 0 => stack[1].dir = a
      /\ \A i \in 1 .. n : /\ stack[i].dir = a \/ a \in Above[stack[i].dir]
                           /\ i > 1 => /\ stack[i].dir \in DOMAIN Parent
                                       /\ Parent[stack[i].dir] = stack[i - 1].dir
      /\ \A i, j \in 1 .. n : stack[i].dir = stack[j].dir => i = j
  BY <1>1 DEF Path, n
<1>4. s[1].dir = a
  <2>1. CASE n = 0
    BY <1>1, <2>1
  <2>2. CASE n > 0
    <3>1. 1 \in 1 .. n
      BY <1>1, <2>2
    <3> QED
      BY <1>1, <1>3, <2>2, <3>1
  <2> QED
    BY <1>1, <2>1, <2>2
<1>5. ASSUME NEW i \in 1 .. n + 1, i > 1
      PROVE  s[i].dir \in DOMAIN Parent /\ Parent[s[i].dir] = s[i - 1].dir
  <2>1. i - 1 \in 1 .. n /\ s[i - 1] = stack[i - 1] /\ n > 0
    BY <1>1, <1>5
  <2>2. CASE i = n + 1
    <3>1. i - 1 = n /\ s[i] = new
      BY <1>1, <2>2
    <3> QED
      BY <1>1, <1>2, <2>1, <3>1
  <2>3. CASE i # n + 1
    <3>1. i \in 1 .. n
      BY <1>1, <2>3
    <3> QED
      BY <1>1, <1>3, <1>5, <2>1, <3>1
  <2> QED
    BY <2>2, <2>3
<1>8. n > 0 => a \in Above[new.dir] /\ new.dir # a
  <2> SUFFICES ASSUME n > 0 PROVE a \in Above[new.dir] /\ new.dir # a
    OBVIOUS
  <2>1. new.dir \in DOMAIN Parent /\ Parent[new.dir] = stack[n].dir /\ n \in 1 .. n
    BY <1>1, <1>2
  <2>2. stack[n].dir = a \/ a \in Above[stack[n].dir]
    BY <1>3, <2>1
  <2> QED
    BY <2>1, <2>2, AboveParent
<1>9. ASSUME NEW i \in 1 .. n + 1 PROVE s[i].dir = a \/ a \in Above[s[i].dir]
  <2>1. (i \in 1 .. n /\ s[i] = stack[i]) \/ (i = n + 1 /\ s[i] = new)
    BY <1>1
  <2>2. n = 0 => new.dir = a
    BY <1>1
  <2> QED
    BY <1>1, <1>3, <1>8, <2>1, <2>2
<1>6. \A i \in 1 .. n : stack[i].dir # new.dir
  <2> SUFFICES ASSUME NEW i \in 1 .. n, stack[i].dir = new.dir PROVE FALSE
    OBVIOUS
  <2>1. n > 0 /\ new.dir \in DOMAIN Parent /\ Parent[new.dir] = stack[n].dir /\ n \in 1 .. n
    BY <1>1, <1>2
  <2>2. CASE i = 1
    <3>1. new.dir = a
      BY <1>3, <2>1, <2>2
    <3> QED
      BY <1>8, <2>1, <3>1
  <2>3. CASE i > 1
    <3>1. stack[i - 1].dir = stack[n].dir
      BY <1>3, <2>1, <2>3
    <3>2. i - 1 \in 1 .. n
      BY <1>1, <2>3
    <3>3. i - 1 = n
      BY <1>3, <2>1, <3>1, <3>2
    <3> QED
      BY <1>1, <3>3
  <2> QED
    BY <1>1, <2>2, <2>3
<1>7. ASSUME NEW i \in 1 .. n + 1, NEW j \in 1 .. n + 1, s[i].dir = s[j].dir PROVE i = j
  <2>1. /\ (i \in 1 .. n /\ s[i] = stack[i]) \/ (i = n + 1 /\ s[i] = new)
        /\ (j \in 1 .. n /\ s[j] = stack[j]) \/ (j = n + 1 /\ s[j] = new)
    BY <1>1
  <2> QED
    BY <1>3, <1>6, <1>7, <2>1
<1> QED
  BY <1>1, <1>4, <1>5, <1>7, <1>9 DEF Path, s

(* The directories of the activations stay as they are when the one on     *)
(* top changes, and when it returns.                                       *)
LEMMA SetTopPath ==
  ASSUME NEW a, stack \in Seq(Frame), stack # <<>>, Path(stack, a),
         NEW frame \in Frame, frame.dir = Top.dir
  PROVE  /\ Path(SetTop(frame), a) /\ SetTop(frame) # <<>>
         /\ SetTop(frame)[Len(SetTop(frame))].dir = Top.dir
<1> DEFINE k == Len(stack)
           s == SetTop(frame)
<1>1. k \in 1 .. Len(stack) /\ Top = stack[k] /\ s = [stack EXCEPT ![k] = frame]
  BY DEF SetTop, Top
<1> HIDE DEF s
<1>2. /\ Len(s) = Len(stack) /\ s \in Seq(Frame)
      /\ \A i \in 1 .. Len(stack) : s[i] = IF i = k THEN frame ELSE stack[i]
  BY <1>1, ExceptSeq
<1>3. \A i \in 1 .. Len(s) : s[i].dir = stack[i].dir
  BY <1>1, <1>2
<1>4. Len(s) \in Nat /\ Len(s) <= Len(stack) /\ s # <<>>
  BY <1>1, <1>2
<1>5. Path(s, a)
  BY <1>2, <1>3, <1>4, PathShorter
<1> QED
  BY <1>1, <1>2, <1>4, <1>5 DEF s

LEMMA RestPath ==
  ASSUME NEW a, stack \in Seq(Frame), stack # <<>>, Path(stack, a)
  PROVE  Path(SubSeq(stack, 1, Len(stack) - 1), a)
<1> DEFINE k == Len(stack)
           rest == SubSeq(stack, 1, k - 1)
<1>1. k \in Nat \ {0} /\ rest \in Seq(Frame)
  BY TopAndRest
<1>2. \A i \in 1 .. k - 1 : stack[i] \in Frame
  BY <1>1
<1>3. k - 1 \in Int /\ 1 \in Int /\ (k - 1) - 1 + 1 = k - 1
  BY <1>1
<1>4. /\ Len(rest) = IF 1 <= k - 1 THEN (k - 1) - 1 + 1 ELSE 0
      /\ \A i \in 1 .. (k - 1) - 1 + 1 : rest[i] = stack[1 + i - 1]
  <2> HIDE DEF k
  <2> QED
    BY <1>2, <1>3, SubSeqProperties
<1> HIDE DEF rest
<1>5. Len(rest) = k - 1 /\ \A i \in 1 .. Len(rest) : rest[i].dir = stack[i].dir
  <2> HIDE DEF k
  <2>1. Len(rest) = k - 1
    BY <1>1, <1>3, <1>4
  <2> QED
    BY <1>3, <1>4, <2>1
<1>6. Len(rest) <= Len(stack)
  BY <1>1, <1>5
<1> QED
  BY <1>1, <1>5, <1>6, PathShorter DEF rest

LEMMA ReturnsPath ==
  ASSUME NEW a, NEW rc \in {"OK", "ERR"}, NEW rest \in Seq(Frame), Returns(rc, rest),
         Path(rest, a)
  PROVE  /\ Path(stack', a) /\ (stack' # <<>> => arg' = arg)
         /\ pc' \in {"end", "card", "readdir"}
<1>1. CASE rest = <<>>
  BY <1>1 DEF Returns, CardDone, Path
<1>2. CASE rest # <<>>
  <2> DEFINE k == Len(rest)
             new == IF cmd # "puttree" /\ rest[k].rval # "OK" THEN rest[k].rval ELSE rc
             top == [rest[k] EXCEPT !.rval = new]
  <2>1. k \in 1 .. Len(rest) /\ k \in Nat /\ rest[k] \in Frame
    BY <1>2
  <2>2. top \in Frame /\ top.dir = rest[k].dir
    BY <2>1 DEF Frame
  <2>3. pc' = "readdir" /\ arg' = arg /\ stack' = [rest EXCEPT ![k] = top]
    BY <1>2 DEF Returns
  <2> HIDE DEF top, k
  <2>4. /\ Len(stack') = Len(rest) /\ stack' \in Seq(Frame)
        /\ \A i \in 1 .. Len(rest) : stack'[i] = IF i = k THEN top ELSE rest[i]
    BY <2>1, <2>2, <2>3, ExceptSeq
  <2>5. \A i \in 1 .. Len(stack') : stack'[i].dir = rest[i].dir
    BY <2>2, <2>4
  <2>6. Len(stack') <= Len(rest)
    BY <2>4
  <2> QED
    BY <2>3, <2>4, <2>5, <2>6, PathShorter
<1> QED
  BY <1>1, <1>2

LEMMA NestedStep == Position /\ ArriveInv /\ Nested /\ [Next]_vars => Nested'
<1> SUFFICES ASSUME Position, ArriveInv, Nested, [Next]_vars PROVE Nested'
  OBVIOUS
<1> USE TreeAssumption
<1>0. /\ stack \in Seq(Frame) /\ Path(stack, arg) /\ LeftIn(stack)
      /\ cur \in Files \cup Dirs /\ chunks \in 0 .. NChunks
  BY DEF Position, ArriveInv, Nested
<1>1. ASSUME stack' = <<>>, pc' # "opendir" \/ cur' = arg', chunks' = chunks,
             cur' \in Files \cup Dirs
      PROVE  Nested'
  BY <1>0, <1>1 DEF Nested, Path
<1>20. ASSUME NEW c \in Trees \cup Singles,
              \/ StartFails(c) \/ StartBoth(c) \/ \E n \in Files \cup Dirs : Start(c, n)
       PROVE  Nested'
  <2>1. stack = <<>>
    BY <1>20 DEF StartFails, StartBoth, Start, Begin, Position
  <2>2. /\ cur' \in Files \cup Dirs /\ chunks' = chunks /\ stack' = stack /\ cur' = arg'
    BY <1>20 DEF StartFails, StartBoth, Start, Begin, NoFile
  <2> QED
    BY <1>1, <2>1, <2>2
<1>21. CASE CardStatus \/ CardLabel
  <2>1. stack = <<>> /\ UNCHANGED <<stack, chunks>> /\ arg \in Files \cup Dirs
    BY <1>21 DEF CardStatus, CardLabel, Position, CardKept
  <2>2. cur' \in Files \cup Dirs /\ (pc' # "opendir" \/ cur' = arg')
    <3>1. CASE CardStatus
      BY <1>0, <2>1, <3>1 DEF CardStatus, CardDone
    <3>2. CASE CardLabel
      BY <1>0, <2>1, <3>2 DEF CardLabel, CardDone, Position
    <3> QED
      BY <1>21, <3>1, <3>2
  <2> QED
    BY <1>1, <2>1, <2>2
<1>22. ASSUME NEW n \in DOMAIN Parent, Crash(n) PROVE Nested'
  BY <1>0, <1>1, <1>22 DEF Crash
<1>2. ASSUME UNCHANGED <<stack, arg>>, pc' # "opendir", chunks' \in 0 .. NChunks,
             cur' \in Files \cup Dirs
      PROVE  Nested'
  BY <1>0, <1>2 DEF Nested
<1>23. CASE MakeDirs
  BY <1>0, <1>2, <1>23 DEF MakeDirs, Same
<1>3. ASSUME NEW rc, CopyReturns(rc), Same PROVE Nested'
  <2>1. UNCHANGED <<stack, arg>> /\ pc' # "opendir" /\ chunks' \in 0 .. NChunks
    BY <1>3 DEF CopyReturns, Same
  <2>2. cur' \in Files \cup Dirs
    BY <1>3 DEF CopyReturns, NoFile
  <2> QED
    BY <1>2, <2>1, <2>2
<1>4. CASE OpenFile
  BY <1>0, <1>2, <1>3, <1>4 DEF OpenFile, Same
<1>5. CASE OpenLocal
  <2>1. NChunks \in 0 .. NChunks
    OBVIOUS
  <2> QED
    BY <1>0, <1>2, <1>3, <1>5, <2>1 DEF OpenLocal, Same
<1>6. CASE Copy
  <2>1. chunks > 0 => chunks - 1 \in 0 .. NChunks
    BY <1>0
  <2> QED
    BY <1>0, <1>2, <1>3, <1>6, <2>1 DEF Copy, Same
<1>7. CASE CopyEnds
  BY <1>3, <1>7 DEF CopyEnds
<1>8. CASE DeleteFile
  BY <1>0, <1>2, <1>8 DEF DeleteFile, NoFile, Same
<1>9. ASSUME NEW rc \in {"OK", "ERR"}, NEW rest \in Seq(Frame), Path(rest, arg),
             Returns(rc, rest), cur' \in Files \cup Dirs, chunks' = chunks
      PROVE  Nested'
  <2>1. /\ Path(stack', arg) /\ (stack' # <<>> => arg' = arg)
        /\ pc' \in {"end", "card", "readdir"}
    BY <1>9, ReturnsPath
  <2>2. stack' = <<>> => Len(stack') = 0
    OBVIOUS
  <2>3. Path(stack', arg')
    BY <2>1, <2>2 DEF Path
  <2> QED
    BY <1>0, <1>9, <2>1, <2>3 DEF Nested
<1>10. CASE OpenDir
  <2>1. cur' \in Dirs /\ chunks' = chunks /\ pc = "opendir" /\ cur \in Dirs
    BY <1>10 DEF OpenDir, NoFile, Position
  <2>2. CASE Returns("ERR", stack)
    BY <1>0, <1>9, <2>1, <2>2
  <2>3. CASE /\ pc' = "readdir" /\ arg' = arg
             /\ stack' = Append(stack, [dir |-> cur, left |-> Entries(cur), rval |-> "OK"])
    <3> DEFINE new == [dir |-> cur, left |-> Entries(cur), rval |-> "OK"]
    <3>1. new \in Frame /\ new.dir = cur
      BY <2>1 DEF Frame, Entries
    <3>2. IF stack = <<>> THEN new.dir = arg
          ELSE new.dir \in DOMAIN Parent /\ Parent[new.dir] = Top.dir
      BY <2>1, <3>1 DEF Nested
    <3> HIDE DEF new
    <3>3. Path(Append(stack, new), arg)
      BY <1>0, <3>1, <3>2, PathLonger
    <3> QED
      BY <1>0, <2>1, <2>3, <3>3 DEF Nested, new
  <2> QED
    BY <1>10, <2>2, <2>3 DEF OpenDir
<1>11. ASSUME pc = "readdir"
       PROVE  /\ stack # <<>> /\ Top \in Frame /\ Path(SubSeq(stack, 1, Len(stack) - 1), arg)
              /\ SubSeq(stack, 1, Len(stack) - 1) \in Seq(Frame)
              /\ Top.left \subseteq Entries(Top.dir)
  BY <1>0, <1>11, TopAndRest, RestPath, TopLeft DEF Position
<1>12. ASSUME NEW n \in DOMAIN Parent, ReadDir(n) PROVE Nested'
  <2> DEFINE frame == [Top EXCEPT !.left = @ \ {n}]
  <2>1. frame \in Frame /\ frame.dir = Top.dir /\ n \in Entries(Top.dir)
    BY <1>11, <1>12 DEF ReadDir, Frame
  <2>2. stack' = SetTop(frame) /\ chunks' = chunks
    BY <1>12 DEF ReadDir, Entry
  <2> HIDE DEF frame
  <2>3. Path(stack', arg) /\ stack' # <<>> /\ Top'.dir = Top.dir /\ arg' = arg
    <3>1. Top' = stack'[Len(stack')]
      BY DEF Top
    <3> QED
      BY <1>0, <1>11, <1>12, <2>1, <2>2, <3>1, SetTopPath DEF ReadDir, Entry, Same
  <2>4. Parent[n] = Top.dir
    BY <2>1 DEF Entries
  <2>5. cur' \in Files \cup Dirs /\ (pc' = "opendir" => cur' = n)
    BY <1>0, <1>12 DEF ReadDir, Entry
  <2> QED
    BY <1>0, <2>2, <2>3, <2>4, <2>5 DEF Nested
<1>13. ASSUME NEW frame \in Frame, frame.dir = Top.dir, stack' = SetTop(frame),
              pc = "readdir", UNCHANGED <<pc, arg, cur, chunks>>
       PROVE  Nested'
  BY <1>0, <1>11, <1>13, SetTopPath DEF Nested
<1>14. CASE ReadDirFails
  <2>1. [Top EXCEPT !.left = {}] \in Frame /\ [Top EXCEPT !.left = {}].dir = Top.dir
    BY <1>11, <1>14 DEF ReadDirFails, Frame
  <2> QED
    BY <1>13, <1>14, <2>1 DEF ReadDirFails, Same
<1>15. ASSUME NEW n \in DOMAIN Parent, StatFails(n) PROVE Nested'
  <2>1. /\ [Top EXCEPT !.left = {}, !.rval = "ERR"] \in Frame
        /\ [Top EXCEPT !.left = {}, !.rval = "ERR"].dir = Top.dir
    BY <1>11, <1>15 DEF StatFails, Frame
  <2> QED
    BY <1>13, <1>15, <2>1 DEF StatFails, Same
<1>24. ASSUME NEW n \in DOMAIN Parent, NoMemory(n) PROVE Nested'
  <2>1. /\ [Top EXCEPT !.left = @ \ {n}] \in Frame
        /\ [Top EXCEPT !.left = @ \ {n}].dir = Top.dir
    BY <1>11, <1>24 DEF NoMemory, Frame
  <2> QED
    BY <1>13, <1>24, <2>1 DEF NoMemory, Same
<1>16. ASSUME NEW n \in DOMAIN Parent, BadName(n) PROVE Nested'
  BY <1>0, <1>9, <1>11, <1>16 DEF BadName
<1>17. CASE CloseDir
  <2>1. pc = "readdir" /\ cur' = cur /\ chunks' = chunks
    BY <1>17 DEF CloseDir
  <2>2. Top.rval \in {"OK", "ERR"}
    BY <1>11, <2>1 DEF Frame
  <2>3. \E rc \in {"OK", "ERR"} : Returns(rc, SubSeq(stack, 1, Len(stack) - 1))
    BY <1>17, <2>2 DEF CloseDir
  <2> QED
    BY <1>0, <1>9, <1>11, <2>1, <2>3
<1>18. CASE Exit
  BY <1>0, <1>2, <1>18 DEF Exit
<1>19. CASE UNCHANGED vars
  BY <1>19 DEF vars, Nested, Top
<1> QED
  BY <1>20, <1>21, <1>22, <1>23, <1>4, <1>5, <1>6, <1>7, <1>8, <1>10, <1>12, <1>14, <1>15,
     <1>24, <1>16, <1>17, <1>18, <1>19 DEF Next, Program

(* A path is no longer than the number of directories.                     *)
LEMMA PathBounded ==
  ASSUME NEW a, NEW s \in Seq(Frame), Path(s, a)
  PROVE  Len(s) <= Cardinality(Dirs)
<1> DEFINE n == Len(s)
           f == [i \in 1 .. n |-> s[i].dir]
<1>1. n \in Nat /\ \A i \in 1 .. n : s[i].dir \in Dirs
  <2>1. n \in Nat /\ \A i \in 1 .. n : s[i] \in Frame
    OBVIOUS
  <2> QED
    BY <2>1 DEF Frame
<1>2. \A i, j \in 1 .. n : s[i].dir = s[j].dir => i = j
  BY DEF Path
<1> HIDE DEF n
<1>3. f \in Injection(1 .. n, Dirs)
  <2>1. f \in [1 .. n -> Dirs] /\ DOMAIN f = 1 .. n
    BY <1>1
  <2>2. \A i, j \in 1 .. n : f[i] = f[j] => i = j
    BY <1>2
  <2> HIDE DEF f
  <2>3. IsInjective(f)
    BY <2>1, <2>2, Zenon DEF IsInjective
  <2> QED
    BY <2>1, <2>3, Zenon DEF Injection
<1>4. IsFiniteSet(Dirs)
  BY TreeAssumption, FS_Subset
<1>5. Cardinality(1 .. n) <= Cardinality(Dirs)
  BY <1>3, <1>4, FS_Injection
<1>6. Cardinality(1 .. n) = n
  <2>1. 1 \in Int /\ n \in Int
    BY <1>1
  <2>2. Cardinality(1 .. n) = IF 1 > n THEN 0 ELSE n - 1 + 1
    BY <2>1, FS_Interval
  <2> QED
    BY <1>1, <2>2
<1> QED
  BY <1>5, <1>6 DEF n

-----------------------------------------------------------------------------
LEMMA Inductive == Spec => []MmcInv
<1>1. Init => MmcInv
  BY PositionInit DEF Init, MmcInv, SingleReported, DirFailureHeld, DirFailed, Failed
<1>2. MmcInv /\ [Next]_vars => MmcInv'
  BY PositionStep, SingleStep, HeldStep DEF MmcInv
<1> QED
  BY <1>1, <1>2, PTL DEF Spec

(* mmcget, mmcput and mmcdel exit with 0 only when the file is whole at    *)
(* its destination, or gone; unless it could not be opened locally, no     *)
(* memory was left for the buffer, or a close failed, which the code does  *)
(* not report.                                                             *)
THEOREM SinglesReported == Spec => []SingleReported
<1>1. MmcInv => SingleReported
  BY DEF MmcInv
<1> QED
  BY <1>1, Inductive, PTL

(* In a tree of any depth mmcgettree and mmcdir report a directory that    *)
(* fails to open or close and a card whose status or label cannot be had,  *)
(* whatever succeeds after it.                                             *)
THEOREM DirFailuresKept == Spec => []DirFailureKept
<1>1. MmcInv => DirFailureKept
  BY DEF MmcInv, DirFailureHeld, DirFailed, Held, DirFailureKept
<1> QED
  BY <1>1, Inductive, PTL

LEMMA ArriveInductive == Spec => [](Position /\ ArriveInv /\ Nested)
<1>1. Init => Position /\ ArriveInv /\ Nested
  <2>1. Init => ArriveInv
    BY DEF Init, ArriveInv, Reachable, LeftIn, Trees
  <2>2. Init => Nested
    BY TreeAssumption DEF Init, Nested, Path, NoFile
  <2> QED
    BY <2>1, <2>2, PositionInit
<1>2. Position /\ ArriveInv /\ Nested /\ [Next]_vars => Position' /\ ArriveInv' /\ Nested'
  BY PositionStep, ArriveStep, NestedStep
<1> QED
  BY <1>1, <1>2, PTL DEF Spec

(* Whatever fails in trees of any shape, a file the tree functions do not  *)
(* leave out for its attributes is missing in the end only if a call for   *)
(* it failed, or one for a directory above it or its card; or it is on the *)
(* second card, and the command ends with an error.                        *)
THEOREM OthersDoArrive == Spec => []OthersArrive
<1>1. Position /\ ArriveInv => OthersArrive
  <2> SUFFICES ASSUME Position, ArriveInv, pc = "end", cmd \in Trees,
                      <<"connect", Card[1]>> \notin failed, NEW f \in Files, Wanted(f)
               PROVE  \/ Accounted(f)
                      \/ Card[2] \in Above[f] /\ card = 1 /\ rval = "ERR"
    BY DEF OthersArrive, Accounted, FileFails, DirFails
  <2>1. \A n : ~Pending(n)
    BY DEF Position, Pending, InLeft
  <2>2. Accounted(f) \/ Coming(f)
    BY <2>1 DEF ArriveInv
  <2>3. ASSUME Coming(f) PROVE Card[2] \in Above[f] /\ card = 1 /\ rval = "ERR"
    <3>1. PICK i \in 1 .. 2 : Card[i] \in Above[f] /\ i > card /\ card # 0
      BY <2>3 DEF Coming
    <3>2. i = 2 /\ card = 1
      BY <3>1 DEF Position, CardKept
    <3> QED
      BY <3>1, <3>2 DEF Position, CardKept
  <2> QED
    BY <2>2, <2>3
<1> QED
  BY <1>1, ArriveInductive, PTL

(* Every variable keeps to its type; the tree functions never go deeper    *)
(* than there are directories, as none of them is entered within itself.   *)
THEOREM TypeCorrect == Spec => []TypeOK
<1>1. Position /\ Nested => TypeOK
  BY PathBounded DEF Position, CardKept, Nested, TypeOK, Frame
<1> QED
  BY <1>1, ArriveInductive, PTL
=============================================================================
