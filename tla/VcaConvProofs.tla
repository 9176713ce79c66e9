---------------------------- MODULE VcaConvProofs ----------------------------
(***************************************************************************)
(* vcaconv writes every record it converts once, however many there are,   *)
(* of which files, and in which order; and makes a card for a mobile phone *)
(* for every number of every card, under names that differ.                *)
(***************************************************************************)
EXTENDS VcaConv, SequenceTheorems, FiniteSetTheorems, WellFoundedInduction, TLAPS

Convs == {"vca2bin", "bin2vca"}

(* Records that have been on an IC35, as bin2vca needs them to be.         *)
Numbered(rs) == \A r \in ToSet(rs) : r.rid # 0

(* What was read is what is written and what is yet to be got, each record *)
(* once.                                                                   *)
Halves(done, left, all) ==
  /\ done \in Seq(ToSet(all)) /\ left \in Seq(ToSet(all))
  /\ IsInjective(done) /\ IsInjective(left)
  /\ ToSet(done) \cup ToSet(left) = ToSet(all)
  /\ ToSet(done) \cap ToSet(left) = {}

ConvInv ==
  /\ vcmd = "none" => vat = 0 /\ vhandy = <<>> /\ vjob = "none"
  /\ vcmd # "done" => vjob = vcmd
  /\ vjob \in Convs =>
       /\ vhandy = <<>> /\ vgiven \in CFiles
       /\ vcmd = "done" => vtab = <<>>
       /\ vjob = "vca2bin" \/ Numbered(vgiven) => Halves(vlist, vtab, vgiven)

-----------------------------------------------------------------------------
(* What the helpers on lists return.                                       *)

(* A set of numbers up to n has a greatest: of the intervals from each of  *)
(* them to n the one that contains no other is that from it.               *)
LEMMA MaxIn ==
  ASSUME NEW n \in Nat, NEW I, I \subseteq 1 .. n, I # {}
  PROVE  Max(I) \in I
<1> DEFINE F == {i .. n : i \in I}
<1>1. F \subseteq FiniteSubsetsOf(Nat)
  <2>1. ASSUME NEW i \in I PROVE IsFiniteSet(i .. n) /\ i .. n \subseteq Nat
    BY FS_Interval
  <2> QED
    BY <2>1 DEF FiniteSubsetsOf
<1>2. PICK b \in F : \A c \in F : ~(<<c, b>> \in StrictSubsetOrdering(Nat))
  <2>1. IsWellFoundedOn(StrictSubsetOrdering(Nat), FiniteSubsetsOf(Nat))
    BY FS_StrictSubsetOrderingWellFounded
  <2>2. F # {}
    OBVIOUS
  <2> HIDE DEF F
  <2> QED
    BY <1>1, <2>1, <2>2, WFMin
<1>3. PICK x \in I : b = x .. n
  OBVIOUS
<1>4. ASSUME NEW y \in I, ~(x >= y) PROVE FALSE
  <2>1. y .. n \in F /\ y .. n \subseteq x .. n
    BY <1>4
  <2>2. y .. n # x .. n
    <3>1. x \in x .. n /\ x \notin y .. n
      BY <1>4
    <3> QED
      BY <3>1
  <2>3. y .. n \subseteq Nat /\ x .. n \subseteq Nat
    OBVIOUS
  <2> HIDE DEF F
  <2> QED
    BY <1>2, <1>3, <2>1, <2>2, <2>3 DEF StrictSubsetOrdering
<1> QED
  BY <1>4 DEF Max

LEMMA MinIn ==
  ASSUME NEW I, I \subseteq Nat, I # {}
  PROVE  Min(I) \in I /\ \A i \in I : Min(I) <= i
<1> DEFINE F == {0 .. i : i \in I}
<1>1. F \subseteq FiniteSubsetsOf(Nat)
  <2>1. ASSUME NEW i \in I PROVE IsFiniteSet(0 .. i) /\ 0 .. i \subseteq Nat
    BY FS_Interval
  <2> QED
    BY <2>1 DEF FiniteSubsetsOf
<1>2. PICK b \in F : \A c \in F : ~(<<c, b>> \in StrictSubsetOrdering(Nat))
  <2>1. IsWellFoundedOn(StrictSubsetOrdering(Nat), FiniteSubsetsOf(Nat))
    BY FS_StrictSubsetOrderingWellFounded
  <2>2. F # {}
    OBVIOUS
  <2> HIDE DEF F
  <2> QED
    BY <1>1, <2>1, <2>2, WFMin
<1>3. PICK x \in I : b = 0 .. x
  OBVIOUS
<1>4. ASSUME NEW y \in I, ~(x <= y) PROVE FALSE
  <2>1. 0 .. y \in F /\ 0 .. y \subseteq 0 .. x /\ 0 .. y # 0 .. x
    BY <1>4
  <2>2. 0 .. y \subseteq Nat /\ 0 .. x \subseteq Nat
    OBVIOUS
  <2> HIDE DEF F
  <2> QED
    BY <1>2, <1>3, <2>1, <2>2 DEF StrictSubsetOrdering
<1> QED
  BY <1>4 DEF Min

LEMMA LastPlace ==
  ASSUME NEW T, NEW os \in Seq(T), NEW f
  PROVE  (IF {i \in 1 .. Len(os) : os[i].file = f} # {}
          THEN Max({i \in 1 .. Len(os) : os[i].file = f}) ELSE 0) \in 0 .. Len(os)
<1> DEFINE I == {i \in 1 .. Len(os) : os[i].file = f}
<1>1. I \subseteq 1 .. Len(os) /\ Len(os) \in Nat
  OBVIOUS
<1> HIDE DEF I
<1>2. I # {} => Max(I) \in I
  BY <1>1, MaxIn
<1>3. (IF I # {} THEN Max(I) ELSE 0) \in 0 .. Len(os)
  <2>1. CASE I = {}
    <3>1. (IF I # {} THEN Max(I) ELSE 0) = 0
      BY <2>1, Zenon
    <3> QED
      BY <1>1, <3>1
  <2>2. CASE I # {}
    <3>1. (IF I # {} THEN Max(I) ELSE 0) = Max(I)
      BY <2>2, Zenon
    <3>2. Max(I) \in 0 .. Len(os)
      <4> DEFINE m == Max(I)
      <4>1. m \in 1 .. Len(os)
        BY <1>1, <1>2, <2>2, Zenon
      <4> HIDE DEF m
      <4>2. m \in 0 .. Len(os)
        BY <1>1, <4>1
      <4> QED
        BY <4>2 DEF m
    <3> QED
      BY <3>1, <3>2, Zenon
  <2> QED
    BY <2>1, <2>2
<1>4. I = {i \in 1 .. Len(os) : os[i].file = f}
  BY DEF I
<1> QED
  BY <1>3, <1>4, Zenon

(* A new element anywhere in a list without repetitions.                   *)
LEMMA Inserted ==
  ASSUME NEW T, NEW os \in Seq(T), NEW r \in T, NEW j \in 1 .. Len(os) + 1,
         IsInjective(os), r \notin ToSet(os)
  PROVE  /\ InsertAt(os, j, r) \in Seq(T)
         /\ IsInjective(InsertAt(os, j, r))
         /\ ToSet(InsertAt(os, j, r)) = ToSet(os) \cup {r}
<1> DEFINE new == InsertAt(os, j, r)
<1>1. Len(os) \in Nat /\ DOMAIN os = 1 .. Len(os) /\ \A i \in 1 .. Len(os) : os[i] \in T
  OBVIOUS
<1>2. /\ SubSeq(os, 1, j - 1) \in Seq(T) /\ Len(SubSeq(os, 1, j - 1)) = j - 1
      /\ \A i \in 1 .. j - 1 : SubSeq(os, 1, j - 1)[i] = os[i]
  BY <1>1
<1>3. /\ SubSeq(os, j, Len(os)) \in Seq(T) /\ Len(SubSeq(os, j, Len(os))) = Len(os) + 1 - j
      /\ \A i \in 1 .. Len(os) + 1 - j : SubSeq(os, j, Len(os))[i] = os[j + i - 1]
  BY <1>1
<1>4. <<r>> \in Seq(T) /\ Len(<<r>>) = 1 /\ <<r>>[1] = r
  OBVIOUS
<1>5. /\ new \in Seq(T) /\ Len(new) = Len(os) + 1
      /\ \A i \in 1 .. Len(os) + 1 :
           new[i] = IF i < j THEN os[i] ELSE IF i = j THEN r ELSE os[i - 1]
  <2> DEFINE a == SubSeq(os, 1, j - 1)
             b == <<r>>
             c == SubSeq(os, j, Len(os))
  <2>0. new = (a \o b) \o c
    BY DEF InsertAt
  <2>1. /\ a \in Seq(T) /\ Len(a) = j - 1 /\ b \in Seq(T) /\ Len(b) = 1 /\ b[1] = r
        /\ \A i \in 1 .. j - 1 : a[i] = os[i]
    BY <1>2, <1>4
  <2>2. /\ c \in Seq(T) /\ Len(c) = Len(os) + 1 - j
        /\ \A i \in 1 .. Len(os) + 1 - j : c[i] = os[j + i - 1]
    BY <1>3
  <2> HIDE DEF new, a, b, c
  <2>3. /\ a \o b \in Seq(T) /\ Len(a \o b) = j
        /\ \A i \in 1 .. j : (a \o b)[i] = IF i <= j - 1 THEN a[i] ELSE b[i - (j - 1)]
    <3>1. /\ a \o b \in Seq(T) /\ Len(a \o b) = Len(a) + Len(b)
          /\ \A i \in 1 .. Len(a) + Len(b) :
               (a \o b)[i] = IF i <= Len(a) THEN a[i] ELSE b[i - Len(a)]
      BY <2>1, ConcatProperties
    <3>2. Len(a) = j - 1 /\ Len(a) + Len(b) = j
      BY <1>1, <2>1
    <3> QED
      BY <3>1, <3>2
  <2>4. /\ new \in Seq(T) /\ Len(new) = Len(os) + 1
        /\ \A i \in 1 .. Len(os) + 1 : new[i] = IF i <= j THEN (a \o b)[i] ELSE c[i - j]
    <3> DEFINE ab == a \o b
    <3>1. ab \in Seq(T) /\ Len(ab) = j
      BY <2>3
    <3> HIDE DEF ab
    <3>2. /\ ab \o c \in Seq(T) /\ Len(ab \o c) = Len(ab) + Len(c)
          /\ \A i \in 1 .. Len(ab) + Len(c) :
               (ab \o c)[i] = IF i <= Len(ab) THEN ab[i] ELSE c[i - Len(ab)]
      BY <2>2, <3>1, ConcatProperties
    <3>3. Len(ab) + Len(c) = Len(os) + 1
      BY <1>1, <2>2, <3>1
    <3>4. new = ab \o c
      BY <2>0 DEF ab
    <3> QED
      BY <3>1, <3>2, <3>3, <3>4 DEF ab
  <2>5. ASSUME NEW i \in 1 .. Len(os) + 1
        PROVE  new[i] = IF i < j THEN os[i] ELSE IF i = j THEN r ELSE os[i - 1]
    <3>1. CASE i < j
      <4>1. i \in 1 .. j - 1 /\ i \in 1 .. j /\ i <= j /\ i <= j - 1
        BY <1>1, <3>1
      <4>2. new[i] = a[i] /\ a[i] = os[i]
        BY <2>1, <2>3, <2>4, <4>1
      <4> QED
        BY <3>1, <4>2
    <3>2. CASE i = j
      <4>1. i - (j - 1) = 1 /\ i \in 1 .. j
        BY <1>1, <3>2
      <4> QED
        BY <1>1, <2>1, <2>3, <2>4, <3>2, <4>1
    <3>3. CASE i > j
      <4>1. i - j \in 1 .. Len(os) + 1 - j /\ j + (i - j) - 1 = i - 1
        BY <1>1, <3>3
      <4>2. c[i - j] = os[i - 1]
        BY <2>2, <4>1
      <4> QED
        BY <1>1, <2>4, <3>3, <4>2
    <3> QED
      BY <1>1, <3>1, <3>2, <3>3
  <2> QED
    BY <2>4, <2>5
<1>6. ASSUME NEW i \in 1 .. Len(os) PROVE os[i] # r
  BY <1>6, <1>1 DEF ToSet
<1> HIDE DEF new
<1>7. DOMAIN new = 1 .. Len(os) + 1
  BY <1>5
<1>8. IsInjective(new)
  <2> SUFFICES ASSUME NEW i \in 1 .. Len(os) + 1, NEW k \in 1 .. Len(os) + 1,
                      new[i] = new[k], i < k
               PROVE  FALSE
    BY <1>1, <1>7 DEF IsInjective
  <2>1. \A x, y \in 1 .. Len(os) : os[x] = os[y] => x = y
    BY <1>1 DEF IsInjective
  <2>2. CASE k < j
    BY <1>1, <1>5, <2>1, <2>2
  <2>3. CASE k = j
    BY <1>1, <1>5, <1>6, <2>3
  <2>4. CASE k > j /\ i < j
    BY <1>1, <1>5, <2>1, <2>4
  <2>5. CASE k > j /\ i = j
    BY <1>1, <1>5, <1>6, <2>5
  <2>6. CASE i > j
    <3>1. i - 1 \in 1 .. Len(os) /\ k - 1 \in 1 .. Len(os) /\ i - 1 # k - 1
      BY <1>1, <2>6
    <3>2. new[i] = os[i - 1] /\ new[k] = os[k - 1]
      BY <1>1, <1>5, <2>6
    <3> QED
      BY <2>1, <3>1, <3>2
  <2> QED
    BY <1>1, <2>2, <2>3, <2>4, <2>5, <2>6
<1>9. ToSet(new) = ToSet(os) \cup {r}
  <2>1. ASSUME NEW i \in 1 .. Len(os) + 1 PROVE new[i] \in ToSet(os) \cup {r}
    <3>1. CASE i < j
      BY <1>1, <1>5, <3>1 DEF ToSet
    <3>2. CASE i = j
      BY <1>1, <1>5, <3>2
    <3>3. CASE i > j
      <4>1. i - 1 \in 1 .. Len(os) /\ new[i] = os[i - 1]
        BY <1>1, <1>5, <3>3
      <4> QED
        BY <1>1, <4>1 DEF ToSet
    <3> QED
      BY <1>1, <3>1, <3>2, <3>3
  <2>2. r \in ToSet(new)
    <3>1. new[j] = r /\ j \in DOMAIN new
      BY <1>1, <1>5, <1>7
    <3> QED
      BY <3>1 DEF ToSet
  <2>3. ASSUME NEW i \in 1 .. Len(os) PROVE os[i] \in ToSet(new)
    <3>1. CASE i < j
      <4>1. new[i] = os[i] /\ i \in DOMAIN new
        BY <1>1, <1>5, <1>7, <3>1
      <4> QED
        BY <4>1 DEF ToSet
    <3>2. CASE i >= j
      <4>1. new[i + 1] = os[i] /\ i + 1 \in DOMAIN new
        BY <1>1, <1>5, <1>7, <3>2
      <4> QED
        BY <4>1 DEF ToSet
    <3> QED
      BY <1>1, <3>1, <3>2
  <2>4. ToSet(new) \subseteq ToSet(os) \cup {r}
    BY <1>7, <2>1 DEF ToSet
  <2>5. ToSet(os) \subseteq ToSet(new)
    BY <1>1, <2>3 DEF ToSet
  <2> QED
    BY <2>2, <2>4, <2>5
<1> QED
  BY <1>5, <1>8, <1>9 DEF new

(* A new element at the end.                                               *)
LEMMA Appended ==
  ASSUME NEW T, NEW os \in Seq(T), NEW r \in T, IsInjective(os), r \notin ToSet(os)
  PROVE  /\ Append(os, r) \in Seq(T)
         /\ IsInjective(Append(os, r))
         /\ ToSet(Append(os, r)) = ToSet(os) \cup {r}
<1> DEFINE new == Append(os, r)
<1>1. /\ new \in Seq(T) /\ DOMAIN os = 1 .. Len(os) /\ DOMAIN new = 1 .. Len(os) + 1
      /\ Len(os) \in Nat /\ \A i \in 1 .. Len(os) + 1 : new[i] = IF i <= Len(os) THEN os[i] ELSE r
  OBVIOUS
<1>2. ASSUME NEW i \in 1 .. Len(os) PROVE os[i] # r
  BY <1>1, <1>2 DEF ToSet
<1> HIDE DEF new
<1>3. IsInjective(new)
  BY <1>1, <1>2 DEF IsInjective
<1>4. ToSet(new) \subseteq ToSet(os) \cup {r}
  BY <1>1 DEF ToSet
<1>5. r \in ToSet(new)
  <2>1. new[Len(os) + 1] = r /\ Len(os) + 1 \in DOMAIN new
    BY <1>1
  <2> QED
    BY <2>1 DEF ToSet
<1>6. ToSet(os) \subseteq ToSet(new)
  <2>1. ASSUME NEW i \in 1 .. Len(os) PROVE os[i] = new[i] /\ i \in DOMAIN new
    BY <1>1
  <2> QED
    BY <1>1, <2>1 DEF ToSet
<1> QED
  BY <1>1, <1>3, <1>4, <1>5, <1>6 DEF new

(* The rest of a list without repetitions.                                 *)
LEMMA RestOf ==
  ASSUME NEW T, NEW os \in Seq(T), os # <<>>, IsInjective(os)
  PROVE  /\ Tail(os) \in Seq(T) /\ IsInjective(Tail(os))
         /\ Head(os) \in T /\ Head(os) \notin ToSet(Tail(os))
         /\ ToSet(os) = {Head(os)} \cup ToSet(Tail(os))
<1> DEFINE h == Head(os)
           t == Tail(os)
<1>1. /\ Len(os) \in Nat \ {0} /\ DOMAIN os = 1 .. Len(os) /\ h = os[1] /\ h \in T
      /\ t \in Seq(T) /\ DOMAIN t = 1 .. Len(os) - 1
      /\ \A i \in 1 .. Len(os) - 1 : t[i] = os[i + 1]
  OBVIOUS
<1> HIDE DEF h, t
<1>2. \A x, y \in 1 .. Len(os) : os[x] = os[y] => x = y
  BY <1>1 DEF IsInjective
<1>3. IsInjective(t)
  BY <1>1, <1>2 DEF IsInjective
<1>4. h \notin ToSet(t)
  <2> SUFFICES ASSUME NEW i \in 1 .. Len(os) - 1, t[i] = h PROVE FALSE
    BY <1>1 DEF ToSet
  <2>1. i + 1 \in 1 .. Len(os) /\ 1 \in 1 .. Len(os) /\ os[i + 1] = os[1] /\ i + 1 # 1
    BY <1>1
  <2> QED
    BY <1>2, <2>1
<1>5. ToSet(os) \subseteq {h} \cup ToSet(t)
  <2> SUFFICES ASSUME NEW i \in 1 .. Len(os), i # 1 PROVE os[i] \in ToSet(t)
    BY <1>1 DEF ToSet
  <2>1. i - 1 \in DOMAIN t /\ t[i - 1] = os[i]
    BY <1>1
  <2> QED
    BY <2>1 DEF ToSet
<1>6. {h} \cup ToSet(t) \subseteq ToSet(os)
  <2>1. h \in ToSet(os)
    BY <1>1 DEF ToSet
  <2>2. ASSUME NEW i \in 1 .. Len(os) - 1 PROVE t[i] \in ToSet(os)
    <3>1. i + 1 \in DOMAIN os /\ t[i] = os[i + 1]
      BY <1>1
    <3> QED
      BY <3>1 DEF ToSet
  <2> QED
    BY <1>1, <2>1, <2>2 DEF ToSet
<1> QED
  BY <1>1, <1>3, <1>4, <1>5, <1>6 DEF h, t

-----------------------------------------------------------------------------
(* A record put to the output goes there, and replaces no other.           *)
LEMMA OneMore ==
  ASSUME NEW done, NEW left, NEW all, Halves(done, left, all), left # <<>>,
         NEW new, new \in Seq(ToSet(all)), IsInjective(new),
         ToSet(new) = ToSet(done) \cup {Head(left)}
  PROVE  Halves(new, Tail(left), all)
<1> DEFINE T == ToSet(all)
<1>1. left \in Seq(T) /\ IsInjective(left)
  BY DEF Halves
<1>2. /\ Tail(left) \in Seq(T) /\ IsInjective(Tail(left))
      /\ Head(left) \notin ToSet(Tail(left))
      /\ ToSet(left) = {Head(left)} \cup ToSet(Tail(left))
  BY <1>1, RestOf
<1> QED
  BY <1>2 DEF Halves

(* What is next is not in the output yet, under its file and record-ID.    *)
LEMMA NextIsNew ==
  ASSUME NEW done, NEW left, NEW all \in CFiles, Halves(done, left, all), left # <<>>,
         Head(left).rid # 0
  PROVE  \A i \in 1 .. Len(done) : ~(done[i].file = Head(left).file /\ done[i].rid = Head(left).rid)
<1> SUFFICES ASSUME NEW i \in 1 .. Len(done),
                    done[i].file = Head(left).file, done[i].rid = Head(left).rid
             PROVE  FALSE
  OBVIOUS
<1>1. done \in Seq(ToSet(all)) /\ left \in Seq(ToSet(all)) /\ ToSet(done) \cap ToSet(left) = {}
  BY DEF Halves
<1>2. done[i] \in ToSet(done) /\ done[i] \in ToSet(all)
  BY <1>1 DEF ToSet
<1>3. Head(left) \in ToSet(left) /\ Head(left) \in ToSet(all)
  BY <1>1 DEF ToSet
<1>4. PICK x \in DOMAIN all : done[i] = all[x]
  BY <1>2 DEF ToSet
<1>5. PICK y \in DOMAIN all : Head(left) = all[y]
  BY <1>3 DEF ToSet
<1>6. x = y
  BY <1>4, <1>5, RecordsAssumption
<1> QED
  BY <1>1, <1>2, <1>3, <1>4, <1>5, <1>6

LEMMA NewPut ==
  ASSUME NEW left, NEW all \in CFiles, Halves(vlist, left, all), left # <<>>
  PROVE  /\ Halves(BinPutrec(Head(left)), Tail(left), all)
         /\ Head(left).rid # 0 => Halves(VcaPutrec(Head(left)), Tail(left), all)
<1> DEFINE r == Head(left)
           T == ToSet(all)
<1>1. vlist \in Seq(T) /\ IsInjective(vlist) /\ r \in T /\ r \in ToSet(left) /\ r \notin ToSet(vlist)
  <2>1. left \in Seq(T)
    BY DEF Halves
  <2>2. r \in T /\ r \in ToSet(left)
    BY <2>1 DEF ToSet
  <2> QED
    BY <2>2 DEF Halves
<1>2. r.rid # 0 => \A i \in 1 .. Len(vlist) : ~(vlist[i].file = r.file /\ vlist[i].rid = r.rid)
  BY NextIsNew
<1> HIDE DEF r
<1>3. Halves(BinPutrec(r), Tail(left), all)
  <2>1. BinGetrecByID(r) = 0
    BY <1>2 DEF BinGetrecByID, SelectInSeq
  <2> DEFINE last == SelectLastInSeq(vlist, LAMBDA o : o.file = r.file)
             j    == IF last = 0 THEN Len(vlist) + 1 ELSE last + 1
  <2>2. last \in 0 .. Len(vlist)
    BY <1>1, LastPlace DEF SelectLastInSeq
  <2>3. BinPutrec(r) = InsertAt(vlist, j, r)
    BY <2>1 DEF BinPutrec
  <2> HIDE DEF last
  <2>4. j \in 1 .. Len(vlist) + 1
    BY <1>1, <2>2
  <2> HIDE DEF j, T
  <2>5. /\ BinPutrec(r) \in Seq(T) /\ IsInjective(BinPutrec(r))
        /\ ToSet(BinPutrec(r)) = ToSet(vlist) \cup {r}
    BY <1>1, <2>3, <2>4, Inserted
  <2> QED
    BY <2>5, OneMore DEF r, T
<1>4. ASSUME r.rid # 0 PROVE Halves(VcaPutrec(r), Tail(left), all)
  <2>1. VcaGetrecByID(r) = 0
    BY <1>2, <1>4 DEF VcaGetrecByID, SelectInSeq
  <2>2. VcaPutrec(r) = Append(vlist, r)
    BY <2>1 DEF VcaPutrec
  <2> HIDE DEF T
  <2>3. /\ VcaPutrec(r) \in Seq(T) /\ IsInjective(VcaPutrec(r))
        /\ ToSet(VcaPutrec(r)) = ToSet(vlist) \cup {r}
    BY <1>1, <2>2, Appended
  <2> QED
    BY <2>3, OneMore DEF r, T
<1> QED
  BY <1>3, <1>4 DEF r

-----------------------------------------------------------------------------
(* At the start nothing is written and all is yet to be got.               *)
LEMMA AllLeft == ASSUME NEW rs \in CFiles PROVE Halves(<<>>, rs, rs)
<1>1. rs \in Seq(ToSet(rs)) /\ IsInjective(rs)
  BY RecordsAssumption DEF IsInjective
<1>2. <<>> \in Seq(ToSet(rs)) /\ IsInjective(<<>>) /\ ToSet(<<>>) = {}
  <2>1. DOMAIN <<>> = {} /\ <<>> \in Seq(ToSet(rs))
    OBVIOUS
  <2> QED
    BY <2>1 DEF IsInjective, ToSet
<1> QED
  BY <1>1, <1>2 DEF Halves

LEMMA ConvStep == ASSUME ConvInv, [ConvNext]_vvars PROVE ConvInv'
<1>1. CASE UNCHANGED vvars
  BY <1>1 DEF ConvInv, vvars
<1>2. CASE Start
  <2>1. CASE vjob' \in Convs
    <3>1. PICK rs \in CFiles : vgiven' = rs /\ vtab' = rs /\ vlist' = <<>>
      BY <1>2, <2>1 DEF Start, Convs
    <3>2. Halves(vlist', vtab', vgiven')
      BY <3>1, AllLeft
    <3>3. vcmd' = vjob' /\ vhandy' = <<>> /\ vcmd' \notin {"none", "done"}
      BY <1>2, <2>1 DEF Start, ConvInv, Convs
    <3> QED
      BY <3>1, <3>2, <3>3 DEF ConvInv
  <2>2. CASE vjob' \notin Convs
    BY <1>2, <2>2 DEF Start, ConvInv
  <2> QED
    BY <2>1, <2>2
<1>3. CASE Sort \/ ImpHandy
  <2>1. vjob \notin Convs /\ UNCHANGED <<vcmd, vjob>> /\ vcmd # "none"
    BY <1>3 DEF Sort, ImpHandy, ConvInv, Convs
  <2> QED
    BY <2>1 DEF ConvInv
<1>4. CASE Convert
  <2>1. /\ vcmd = vjob /\ vjob \in Convs /\ vtab # <<>> /\ vtab' = Tail(vtab)
        /\ vgiven \in CFiles /\ UNCHANGED <<vcmd, vjob, vgiven, vat, vhandy>>
    BY <1>4 DEF Convert, ConvInv, Convs
  <2>2. ASSUME vjob = "vca2bin" \/ Numbered(vgiven) PROVE Halves(vlist', vtab', vgiven')
    <3>1. Halves(vlist, vtab, vgiven)
      BY <2>1, <2>2 DEF ConvInv
    <3>2. CASE vjob = "vca2bin"
      BY <1>4, <2>1, <3>1, <3>2, NewPut DEF Convert
    <3>3. CASE vjob = "bin2vca"
      <4>1. Head(vtab) \in ToSet(vgiven)
        BY <2>1, <3>1 DEF Halves
      <4>2. Head(vtab).rid # 0
        BY <2>2, <3>3, <4>1 DEF Numbered
      <4>3. vlist' = VcaPutrec(Head(vtab))
        BY <1>4, <2>1, <3>3 DEF Convert
      <4> QED
        BY <2>1, <3>1, <4>2, <4>3, NewPut
    <3> QED
      BY <2>1, <3>2, <3>3 DEF Convs
  <2>3. vcmd' \notin {"none", "done"} /\ vhandy = <<>>
    BY <2>1 DEF ConvInv, Convs
  <2> QED
    BY <2>1, <2>2, <2>3 DEF ConvInv
<1>5. CASE Finish
  <2>1. vcmd' = "done" /\ vtab = <<>> /\ vjob = vcmd /\ UNCHANGED <<vjob, vgiven, vtab, vat, vhandy>>
    BY <1>5 DEF Finish, ConvInv
  <2>2. ASSUME vjob \in Convs, vjob = "vca2bin" \/ Numbered(vgiven) PROVE vlist' = vlist
    <3>1. vlist \in Seq(ToSet(vgiven)) /\ vhandy = <<>>
      BY <2>2 DEF ConvInv, Halves
    <3> QED
      BY <1>5, <3>1 DEF Finish
  <2> QED
    BY <2>1, <2>2 DEF ConvInv
<1> QED
  BY <1>1, <1>2, <1>3, <1>4, <1>5 DEF ConvNext

(* vca2bin writes every record once, new ones without record-ID as well as *)
(* those with one, and bin2vca does when all have one, for any records of  *)
(* any files (bin_putic35rec, vca_putic35rec).                             *)
THEOREM EachConverted == ConvSpec => []ConvertedOnce
<1>1. NoJob => ConvInv
  BY DEF NoJob, ConvInv, Convs
<1>2. ConvInv => ConvertedOnce
  <2> SUFFICES ASSUME ConvInv, vcmd = "done", vjob \in Convs,
                      vjob = "vca2bin" \/ Numbered(vgiven)
               PROVE  IsInjective(vlist) /\ ToSet(vlist) = ToSet(vgiven)
    BY DEF ConvertedOnce, Ended, Convs, Numbered
  <2>1. Halves(vlist, <<>>, vgiven)
    BY DEF ConvInv
  <2>2. ToSet(<<>>) = {}
    <3>1. DOMAIN <<>> = {}
      OBVIOUS
    <3> QED
      BY <3>1 DEF ToSet
  <2> QED
    BY <2>1, <2>2 DEF Halves
<1> QED
  BY <1>1, <1>2, ConvStep, PTL DEF ConvSpec

-----------------------------------------------------------------------------
(* Cards for a mobile phone.  The cards made are those of the objects      *)
(* that were looked at, from the first on, and the list read is unchanged. *)
CardsOf(o) ==
  IF o.t = "VCARD" /\ ~HasCategory(o, "NOTHANDY") THEN ToSet(HandyCards(o)) ELSE {}

FirstDone(k) ==
  /\ vhandy \in Seq(ToSet(vhandy))
  /\ ToSet(vhandy) = UNION {CardsOf(vgiven[i]) : i \in 1 .. k}
  /\ vcmd = "imphandy" =>
       vlist = vgiven /\ vat = IF k = Len(vgiven) THEN 0 ELSE vgiven[k + 1].n
  /\ vcmd = "done" => k = Len(vgiven) /\ vlist = vgiven \o vhandy

HandyInv ==
  vjob = "imphandy" =>
    /\ vgiven \in HFiles
    /\ \/ \E o \in ToSet(vgiven) : HasCategory(o, "HANDY")
       \/ \E k \in 0 .. Len(vgiven) : FirstDone(k)

LEMMA Joined ==
  ASSUME NEW T, NEW a \in Seq(T), NEW b \in Seq(T)
  PROVE  a \o b \in Seq(T) /\ ToSet(a \o b) = ToSet(a) \cup ToSet(b)
<1> DEFINE c == a \o b
<1>1. /\ Len(a) \in Nat /\ Len(b) \in Nat /\ c \in Seq(T) /\ Len(c) = Len(a) + Len(b)
      /\ DOMAIN a = 1 .. Len(a) /\ DOMAIN b = 1 .. Len(b) /\ DOMAIN c = 1 .. Len(a) + Len(b)
      /\ \A i \in 1 .. Len(a) + Len(b) : c[i] = IF i <= Len(a) THEN a[i] ELSE b[i - Len(a)]
  BY ConcatProperties
<1> HIDE DEF c
<1>2. ASSUME NEW i \in 1 .. Len(a) + Len(b) PROVE c[i] \in ToSet(a) \cup ToSet(b)
  <2>1. CASE i <= Len(a)
    BY <1>1, <2>1 DEF ToSet
  <2>2. CASE i > Len(a)
    <3>1. i - Len(a) \in DOMAIN b /\ c[i] = b[i - Len(a)]
      BY <1>1, <2>2
    <3> QED
      BY <3>1 DEF ToSet
  <2> QED
    BY <1>1, <2>1, <2>2
<1>3. ASSUME NEW i \in DOMAIN a PROVE a[i] \in ToSet(c)
  <2>1. i \in DOMAIN c /\ c[i] = a[i]
    BY <1>1
  <2> QED
    BY <2>1 DEF ToSet
<1>4. ASSUME NEW i \in DOMAIN b PROVE b[i] \in ToSet(c)
  <2>1. i + Len(a) \in DOMAIN c /\ c[i + Len(a)] = b[i]
    BY <1>1
  <2> QED
    BY <2>1 DEF ToSet
<1>5. ToSet(c) \subseteq ToSet(a) \cup ToSet(b)
  BY <1>1, <1>2 DEF ToSet
<1>6. ToSet(a) \subseteq ToSet(c) /\ ToSet(b) \subseteq ToSet(c)
  BY <1>3, <1>4 DEF ToSet
<1> QED
  BY <1>1, <1>5, <1>6 DEF c

(* Up to three lists put together, which is what a card has numbers.       *)
LEMMA Flattened ==
  ASSUME NEW T, NEW n \in 1 .. 3, NEW s, s \in [1 .. n -> Seq(T)]
  PROVE  /\ FlattenSeq(s) \in Seq(T)
         /\ ToSet(FlattenSeq(s)) = UNION {ToSet(s[i]) : i \in 1 .. n}
<1> DEFINE g == [i \in 1 .. n |-> IF i = 1 THEN s[1] ELSE IF i = 2 THEN s[1] \o s[2]
                                  ELSE (s[1] \o s[2]) \o s[3]]
           F(f) == f = [i \in 1 .. n |-> IF i = 1 THEN s[i] ELSE f[i - 1] \o s[i]]
           h == CHOOSE f : F(f)
<1>1. Len(s) = n /\ s \in Seq(Seq(T))
  BY LenProperties
<1>2. F(g)
  <2>0. /\ g = [i \in 1 .. n |-> g[i]]
        /\ \A i \in 1 .. n : g[i] = IF i = 1 THEN s[1] ELSE IF i = 2 THEN s[1] \o s[2]
                                    ELSE (s[1] \o s[2]) \o s[3]
    BY Zenon
  <2> HIDE DEF g
  <2>1. ASSUME NEW i \in 1 .. n PROVE g[i] = IF i = 1 THEN s[i] ELSE g[i - 1] \o s[i]
    <3>1. CASE i = 1
      BY <2>0, <3>1, Zenon
    <3>2. CASE i = 2
      <4>1. 1 \in 1 .. n /\ 2 # 1 /\ i - 1 = 1
        BY <3>2
      <4>2. g[1] = s[1] /\ g[2] = s[1] \o s[2]
        BY <2>0, <3>2, <4>1, Zenon
      <4> QED
        BY <3>2, <4>1, <4>2, Zenon
    <3>3. CASE i = 3
      <4>1. 2 \in 1 .. n /\ 2 # 1 /\ 3 # 1 /\ 3 # 2 /\ i - 1 = 2
        BY <3>3
      <4>2. g[2] = s[1] \o s[2] /\ g[3] = (s[1] \o s[2]) \o s[3]
        BY <2>0, <3>3, <4>1, Zenon
      <4> QED
        BY <3>3, <4>1, <4>2, Zenon
    <3> QED
      BY <3>1, <3>2, <3>3
  <2>3. g = [i \in 1 .. n |-> IF i = 1 THEN s[i] ELSE g[i - 1] \o s[i]]
    BY <2>0, <2>1, Zenon
  <2> QED
    BY <2>3
<1> HIDE DEF g
<1>3. F(h)
  BY <1>2, Zenon
<1>4. FlattenSeq(s) = h[n]
  <2>1. Len(s) # 0
    BY <1>1
  <2>2. FlattenSeq(s) = h[Len(s)]
    BY <1>1, <2>1, Zenon DEF FlattenSeq
  <2> QED
    BY <1>1, <2>2
<1> HIDE DEF h
<1>5. /\ h[1] = s[1]
      /\ n >= 2 => h[2] = s[1] \o s[2]
      /\ n >= 3 => h[3] = (s[1] \o s[2]) \o s[3]
  <2>1. \A i \in 1 .. n : h[i] = IF i = 1 THEN s[i] ELSE h[i - 1] \o s[i]
    BY <1>3, Zenon
  <2> HIDE DEF F
  <2>2. h[1] = s[1]
    BY <2>1
  <2>3. n >= 2 => h[2] = s[1] \o s[2]
    <3>1. n >= 2 => 2 \in 1 .. n /\ 2 - 1 = 1 /\ 2 # 1
      OBVIOUS
    <3>2. 2 \in 1 .. n => h[2] = IF 2 = 1 THEN s[2] ELSE h[2 - 1] \o s[2]
      BY <2>1, Zenon
    <3> QED
      BY <2>2, <3>1, <3>2, Zenon
  <2>4. n >= 3 => h[3] = h[2] \o s[3]
    <3>1. n >= 3 => 3 \in 1 .. n /\ 3 - 1 = 2 /\ 3 # 1
      OBVIOUS
    <3>2. 3 \in 1 .. n => h[3] = IF 3 = 1 THEN s[3] ELSE h[3 - 1] \o s[3]
      BY <2>1, Zenon
    <3> QED
      BY <3>1, <3>2, Zenon
  <2>5. n >= 3 => n >= 2
    OBVIOUS
  <2> QED
    BY <2>2, <2>3, <2>4, <2>5, Zenon
<1>6. CASE n = 1
  <2>1. s[1] \in Seq(T) /\ 1 .. n = {1}
    BY <1>6
  <2>2. UNION {ToSet(s[i]) : i \in 1 .. n} = ToSet(s[1])
    BY <2>1, Zenon
  <2>3. FlattenSeq(s) = s[1]
    BY <1>4, <1>5, <1>6
  <2> QED
    BY <2>1, <2>2, <2>3
<1>7. CASE n = 2
  <2>1. s[1] \in Seq(T) /\ s[2] \in Seq(T) /\ 1 .. n = {1, 2} /\ n >= 2
    BY <1>7
  <2>2. UNION {ToSet(s[i]) : i \in 1 .. n} = ToSet(s[1]) \cup ToSet(s[2])
    BY <2>1
  <2>3. FlattenSeq(s) = s[1] \o s[2]
    BY <1>4, <1>5, <1>7, <2>1
  <2> QED
    BY <2>1, <2>2, <2>3, Joined
<1>8. CASE n = 3
  <2>1. s[1] \in Seq(T) /\ s[2] \in Seq(T) /\ s[3] \in Seq(T) /\ 1 .. n = {1, 2, 3} /\ n >= 3
    BY <1>8
  <2>2. UNION {ToSet(s[i]) : i \in 1 .. n} = (ToSet(s[1]) \cup ToSet(s[2])) \cup ToSet(s[3])
    BY <2>1
  <2>3. FlattenSeq(s) = (s[1] \o s[2]) \o s[3]
    BY <1>4, <1>5, <1>8, <2>1
  <2>4. s[1] \o s[2] \in Seq(T) /\ ToSet(s[1] \o s[2]) = ToSet(s[1]) \cup ToSet(s[2])
    BY <2>1, Joined
  <2>5. /\ (s[1] \o s[2]) \o s[3] \in Seq(T)
        /\ ToSet((s[1] \o s[2]) \o s[3]) = ToSet(s[1] \o s[2]) \cup ToSet(s[3])
    <3> DEFINE ab == s[1] \o s[2]
               c  == s[3]
    <3>1. ab \in Seq(T) /\ c \in Seq(T)
      BY <2>1, <2>4
    <3> HIDE DEF ab, c
    <3>2. ab \o c \in Seq(T) /\ ToSet(ab \o c) = ToSet(ab) \cup ToSet(c)
      BY <3>1, Joined
    <3> QED
      BY <3>2 DEF ab, c
  <2>6. ToSet(FlattenSeq(s)) = (ToSet(s[1]) \cup ToSet(s[2])) \cup ToSet(s[3])
    BY <2>3, <2>4, <2>5
  <2> QED
    BY <2>2, <2>3, <2>5, <2>6, Zenon
<1> QED
  BY <1>6, <1>7, <1>8

LEMMA NumbersWanted ==
  ASSUME NEW o
  PROVE  Len(Wanted(o)) \in {1, 3} /\ DOMAIN Wanted(o) = 1 .. Len(Wanted(o))
<1>1. CASE HasCategory(o, "S35SIM")
  <2>1. Wanted(o) = << <<"CELL", <<>> >> >>
    BY <1>1, Zenon DEF Wanted
  <2> QED
    BY <2>1
<1>2. CASE ~HasCategory(o, "S35SIM") /\ HasCategory(o, "Personal")
  <2>1. Wanted(o) = << <<"HOME", <<"!">> >>, <<"WORK", <<"-", "B", "u", "e", "r", "o", "!">> >>,
                       <<"CELL", Mobile \o <<"!">> >> >>
    BY <1>2, Zenon DEF Wanted
  <2> QED
    BY <2>1
<1>3. CASE ~HasCategory(o, "S35SIM") /\ ~HasCategory(o, "Personal")
  <2>1. Wanted(o) = << <<"WORK", <<>> >>, <<"HOME", <<"-", "p", "r", "i", "v">> >>,
                       <<"CELL", Mobile>> >>
    BY <1>3, Zenon DEF Wanted
  <2> QED
    BY <2>1
<1> QED
  BY <1>1, <1>2, <1>3

(* The numbers of a card that get a card of their own.                     *)
NumberOf(o, i) == TelnoValue(o, Wanted(o)[i][1])
CardOf(o, i) == NewHandyCard(10 * o.n + i, NameValue(o, NamePart(o)), Wanted(o)[i][2], NumberOf(o, i))
Made(o, i) == /\ NameValue(o, NamePart(o)) # <<>> /\ NumberOf(o, i) # <<>>
              /\ i > 1 => NumberOf(o, i) # NumberOf(o, 1)

LEMMA CardsMade ==
  ASSUME NEW o
  PROVE  /\ HandyCards(o) \in Seq(ToSet(HandyCards(o)))
         /\ ToSet(HandyCards(o)) = {CardOf(o, i) : i \in {k \in DOMAIN Wanted(o) : Made(o, k)}}
<1> DEFINE w == Wanted(o)
           n == Len(w)
           M == {k \in DOMAIN w : Made(o, k)}
           T == {CardOf(o, i) : i \in M}
           s == [i \in 1 .. n |-> IF i \in M THEN <<CardOf(o, i)>> ELSE <<>>]
<1>1. n \in 1 .. 3 /\ DOMAIN w = 1 .. n
  BY NumbersWanted
<1>2. HandyCards(o) = FlattenSeq(s)
  <2> DEFINE name == NameValue(o, NamePart(o))
             tel == [i \in DOMAIN w |-> NumberOf(o, i)]
             s1 == [i \in DOMAIN w |->
                      IF name = <<>> \/ tel[i] = <<>> \/ (i > 1 /\ tel[i] = tel[1]) THEN <<>>
                      ELSE <<NewHandyCard(10 * o.n + i, name, w[i][2], tel[i])>>]
  <2>1. HandyCards(o) = FlattenSeq(s1)
    BY Zenon DEF HandyCards, NumberOf
  <2>2. 1 \in DOMAIN w
    BY <1>1
  <2>3. \A i \in DOMAIN w : tel[i] = NumberOf(o, i)
    OBVIOUS
  <2> HIDE DEF tel, w
  <2>4. ASSUME NEW i \in DOMAIN w
        PROVE  (IF name = <<>> \/ tel[i] = <<>> \/ (i > 1 /\ tel[i] = tel[1]) THEN <<>>
                ELSE <<NewHandyCard(10 * o.n + i, name, w[i][2], tel[i])>>)
               = IF i \in M THEN <<CardOf(o, i)>> ELSE <<>>
    BY <2>2, <2>3, Zenon DEF CardOf, Made, w
  <2>5. s1 = s
    BY <1>1, <2>4, Zenon
  <2> QED
    BY <2>1, <2>5
<1>3. s \in [1 .. n -> Seq(T)]
  <2>1. ASSUME NEW i \in 1 .. n PROVE (IF i \in M THEN <<CardOf(o, i)>> ELSE <<>>) \in Seq(T)
    <3>1. CASE i \in M
      <4>1. CardOf(o, i) \in T
        BY <3>1
      <4> HIDE DEF M, T
      <4> QED
        BY <3>1, <4>1
    <3>2. CASE i \notin M
      <4> HIDE DEF M, T
      <4> QED
        BY <3>2
    <3> QED
      BY <3>1, <3>2
  <2> HIDE DEF M, T, n
  <2> QED
    BY <2>1
<1>4. /\ FlattenSeq(s) \in Seq(T)
      /\ ToSet(FlattenSeq(s)) = UNION {ToSet(s[i]) : i \in 1 .. n}
  <2> HIDE DEF s, T, n
  <2> QED
    BY <1>1, <1>3, Flattened
<1>5. UNION {ToSet(s[i]) : i \in 1 .. n} = T
  <2>1. ASSUME NEW x PROVE ToSet(<<x>>) = {x} /\ ToSet(<<>>) = {}
    BY DEF ToSet
  <2>2. ASSUME NEW i \in 1 .. n
        PROVE  ToSet(s[i]) = IF i \in M THEN {CardOf(o, i)} ELSE {}
    <3>1. s[i] = IF i \in M THEN <<CardOf(o, i)>> ELSE <<>>
      BY Zenon
    <3> HIDE DEF s, M
    <3> QED
      BY <2>1, <3>1, Zenon
  <2>3. M \subseteq 1 .. n
    BY <1>1
  <2> HIDE DEF s, M, n
  <2> QED
    BY <2>2, <2>3, Zenon
<1>6. ToSet(HandyCards(o)) = T
  BY <1>2, <1>4, <1>5
<1> QED
  BY <1>2, <1>4, <1>6

LEMMA NewCard ==
  ASSUME NEW m, NEW name, NEW suffix, NEW tel
  PROVE  LET c == NewHandyCard(m, name, suffix, tel) IN
         /\ c.n = m
         /\ StringValue(c.ps, "TEL") = tel
         /\ SubValue(c.ps, "N", "FAMILY") = HandyName(name, suffix)
<1> DEFINE c  == NewHandyCard(m, name, suffix, tel)
           p1 == Prop("N", <<>>, [FAMILY |-> HandyName(name, suffix)])
           p2 == Prop("TEL", tel, [CELL |-> <<>>])
           p3 == Prop("CATEGORIES", <<"HANDY">>, NoSub)
           ps == <<p1, p2, p3>>
<1>1. c.n = m /\ c.ps = ps
  BY DEF NewHandyCard
<1>2. /\ p1.id = "N" /\ p2.id = "TEL" /\ p3.id = "CATEGORIES" /\ p2.val = tel
      /\ "FAMILY" \in DOMAIN p1.sub /\ p1.sub["FAMILY"] = HandyName(name, suffix)
  BY DEF Prop
<1> HIDE DEF c, p1, p2, p3
<1>3. Len(ps) = 3 /\ ps[1] = p1 /\ ps[2] = p2 /\ ps[3] = p3
  OBVIOUS
<1> HIDE DEF ps
<1>4. {i \in 1 .. Len(ps) : ps[i].id = "N"} = {1} /\ {i \in 1 .. Len(ps) : ps[i].id = "TEL"} = {2}
  <2>1. 1 .. Len(ps) = {1, 2, 3}
    BY <1>3
  <2> QED
    BY <1>2, <1>3, <2>1
<1>5. \A k \in Nat : Min({k}) = k
  BY DEF Min
<1>6. IsAPropertyOf(ps, "N") = 1 /\ IsAPropertyOf(ps, "TEL") = 2
  <2>1. IsAPropertyOf(ps, "N") = Min({1})
    BY <1>4, Zenon DEF IsAPropertyOf, SelectInSeq
  <2>2. IsAPropertyOf(ps, "TEL") = Min({2})
    BY <1>4, Zenon DEF IsAPropertyOf, SelectInSeq
  <2> QED
    BY <1>5, <2>1, <2>2
<1>7. StringValue(ps, "TEL") = tel
  BY <1>2, <1>3, <1>6 DEF StringValue, Has
<1>8. SubValue(ps, "N", "FAMILY") = HandyName(name, suffix)
  BY <1>2, <1>3, <1>6 DEF SubValue, Has
<1> QED
  BY <1>1, <1>7, <1>8 DEF c

-----------------------------------------------------------------------------
(* A name with a suffix has it after its first characters; without one it  *)
(* is the name as far as it fits.                                          *)
LEMMA NameCut ==
  ASSUME NEW T, NEW s \in Seq(T), NEW n \in Nat
  PROVE  /\ CutTo(s, n) \in Seq(T)
         /\ Len(CutTo(s, n)) = IF Len(s) < n THEN Len(s) ELSE n
         /\ \A i \in 1 .. Len(CutTo(s, n)) : CutTo(s, n)[i] = s[i]
  BY DEF CutTo

(* how much of a name is kept in front of a suffix                         *)
Kept(name) == IF Len(name) < 14 THEN Len(name) ELSE 14

HasSuffix(h, k, suffix) ==
  /\ Len(h) = IF k + Len(suffix) < 18 THEN k + Len(suffix) ELSE 18
  /\ \A i \in 1 .. Len(suffix) : k + i <= 18 => h[k + i] = suffix[i]

LEMMA SuffixedName ==
  ASSUME NEW T, NEW name \in Seq(T), NEW suffix \in Seq(T), suffix # <<>>
  PROVE  HasSuffix(HandyName(name, suffix), Kept(name), suffix)
<1> DEFINE b == CutTo(name, 14)
           c == b \o suffix
           h == CutTo(c, 18)
           k == IF Len(name) < 14 THEN Len(name) ELSE 14
<1>1. HandyName(name, suffix) = h
  BY DEF HandyName, MaxName, MaxSuffix
<1>0. 14 \in Nat /\ 18 \in Nat /\ Len(name) \in Nat /\ Len(suffix) \in Nat
  OBVIOUS
<1>2. b \in Seq(T) /\ Len(b) = k
  BY <1>0, NameCut, Zenon
<1>7. Kept(name) = k
  BY Zenon DEF Kept
<1>5. k \in 0 .. 14
  <2> DEFINE m == Len(name)
  <2>1. m \in Nat
    BY <1>0
  <2> HIDE DEF m
  <2>2. (IF m < 14 THEN m ELSE 14) \in 0 .. 14
    BY <2>1
  <2> QED
    BY <2>2 DEF m
<1> HIDE DEF b, k
<1>3. /\ c \in Seq(T) /\ Len(c) = k + Len(suffix)
      /\ \A i \in 1 .. k + Len(suffix) : c[i] = IF i <= k THEN b[i] ELSE suffix[i - k]
  BY <1>2, ConcatProperties
<1> HIDE DEF c
<1>4. /\ Len(h) = IF Len(c) < 18 THEN Len(c) ELSE 18
      /\ \A i \in 1 .. Len(h) : h[i] = c[i]
  BY <1>0, <1>3, NameCut, Zenon
<1> HIDE DEF h
<1>6. ASSUME NEW i \in 1 .. Len(suffix), k + i <= 18 PROVE h[k + i] = suffix[i]
  <2>1. k + i \in 1 .. Len(h) /\ k + i \in 1 .. k + Len(suffix) /\ ~(k + i <= k) /\ (k + i) - k = i
    BY <1>0, <1>3, <1>4, <1>5, <1>6
  <2> QED
    BY <1>3, <1>4, <2>1
<1> QED
  BY <1>1, <1>3, <1>4, <1>6, <1>7 DEF HasSuffix

LEMMA SuffixesTell ==
  ASSUME NEW T, NEW name \in Seq(T), NEW s \in Seq(T), NEW t \in Seq(T), NEW i \in 1 .. 4,
         i <= Len(s), i <= Len(t), s[i] # t[i]
  PROVE  HandyName(name, s) # HandyName(name, t)
<1> DEFINE k == Kept(name)
<1>0. Len(name) \in Nat /\ Len(s) \in Nat /\ Len(t) \in Nat /\ s # <<>> /\ t # <<>>
  OBVIOUS
<1>1. /\ k \in 0 .. 14 /\ k + i <= 18 /\ s # <<>> /\ t # <<>>
      /\ i \in 1 .. Len(s) /\ i \in 1 .. Len(t)
  <2> DEFINE m == Len(name)
             a == Len(s)
             b == Len(t)
  <2>1. m \in Nat /\ a \in Nat /\ b \in Nat /\ i <= a /\ i <= b
    BY <1>0
  <2> HIDE DEF m, a, b
  <2>2. /\ (IF m < 14 THEN m ELSE 14) \in 0 .. 14
        /\ (IF m < 14 THEN m ELSE 14) + i <= 18 /\ i \in 1 .. a /\ i \in 1 .. b
    BY <2>1
  <2> QED
    BY <1>0, <2>2, Zenon DEF m, a, b, Kept
<1>2. HandyName(name, s)[k + i] = s[i]
  <2>1. HasSuffix(HandyName(name, s), k, s)
    BY <1>1, SuffixedName, Zenon
  <2> QED
    BY <1>1, <2>1, Zenon DEF HasSuffix
<1>3. HandyName(name, t)[k + i] = t[i]
  <2>1. HasSuffix(HandyName(name, t), k, t)
    BY <1>1, SuffixedName, Zenon
  <2> QED
    BY <1>1, <2>1, Zenon DEF HasSuffix
<1> QED
  BY <1>2, <1>3

LEMMA SuffixTells ==
  ASSUME NEW T, NEW name \in Seq(T), NEW s \in Seq(T), Len(s) > 0, s[1] = "-",
         Len(name) > MaxName - MaxSuffix => name[MaxName - MaxSuffix + 1] # "-"
  PROVE  HandyName(name, <<>>) # HandyName(name, s)
<1> DEFINE k == Kept(name)
<1>1. Len(name) > 14 => name[15] # "-"
  BY DEF MaxName, MaxSuffix
<1>2. HandyName(name, <<>>) = CutTo(name, 18)
  BY DEF HandyName, MaxName
<1>3. /\ Len(CutTo(name, 18)) = IF Len(name) < 18 THEN Len(name) ELSE 18
      /\ \A i \in 1 .. Len(CutTo(name, 18)) : CutTo(name, 18)[i] = name[i]
  <2>1. 18 \in Nat
    OBVIOUS
  <2> QED
    BY <2>1, NameCut, Zenon
<1>4. Len(s) \in Nat /\ Len(name) \in Nat /\ s # <<>> /\ 1 \in 1 .. Len(s)
  OBVIOUS
<1>5. /\ Len(HandyName(name, s)) = IF k + Len(s) < 18 THEN k + Len(s) ELSE 18
      /\ k + 1 <= 18 => HandyName(name, s)[k + 1] = "-"
  <2>1. HasSuffix(HandyName(name, s), k, s)
    BY <1>4, SuffixedName, Zenon
  <2> QED
    BY <1>4, <2>1, Zenon DEF HasSuffix
<1> DEFINE m == Len(name)
           h == HandyName(name, s)
           f == CutTo(name, 18)
<1>8. /\ m \in Nat /\ Len(s) \in Nat /\ Len(s) > 0
      /\ m > 14 => name[15] # "-"
      /\ Len(f) = IF m < 18 THEN m ELSE 18
      /\ \A i \in 1 .. Len(f) : f[i] = name[i]
      /\ k = IF m < 14 THEN m ELSE 14
      /\ Len(h) = IF k + Len(s) < 18 THEN k + Len(s) ELSE 18
      /\ k + 1 <= 18 => h[k + 1] = "-"
  BY <1>1, <1>3, <1>4, <1>5, Zenon DEF Kept
<1> HIDE DEF m, h, f, k
<1>6. CASE m <= 14
  <2>1. Len(f) = m /\ Len(h) # m
    BY <1>6, <1>8
  <2> QED
    BY <1>2, <2>1, Zenon DEF f, h
<1>7. CASE m > 14
  <2>1. k = 14 /\ 15 \in 1 .. Len(f)
    BY <1>7, <1>8
  <2>2. h[15] = "-"
    BY <1>8, <2>1
  <2>3. f[15] # "-"
    BY <1>7, <1>8, <2>1
  <2> QED
    BY <1>2, <2>2, <2>3, Zenon DEF f, h
<1> QED
  BY <1>6, <1>7, <1>8

(* The cards of one object have different names.                           *)
LEMMA NamesDiffer ==
  ASSUME NEW o, PlainCard(o), o.t = "VCARD", NEW i \in DOMAIN Wanted(o), NEW k \in DOMAIN Wanted(o),
         i < k
  PROVE  HandyName(NameValue(o, NamePart(o)), Wanted(o)[i][2])
           # HandyName(NameValue(o, NamePart(o)), Wanted(o)[k][2])
<1> DEFINE name == NameValue(o, NamePart(o))
           C == {"-", "!", "B", "u", "e", "r", "o", "p", "i", "v", "m", "b", "l"}
           T == ToSet(name) \cup C
<1>1. /\ name \in Seq(ToSet(name))
      /\ Len(name) > MaxName - MaxSuffix => name[MaxName - MaxSuffix + 1] # "-"
  BY DEF PlainCard
<1> HIDE DEF name
<1>2. name \in Seq(T)
  BY <1>1
<1>3. Seq(C) \subseteq Seq(T)
  OBVIOUS
<1>4. Mobile \in Seq(C) /\ Len(Mobile) = 6 /\ Mobile[1] = "-" /\ Mobile[2] = "m"
  BY DEF Mobile
<1>5. <<"!">> \in Seq(C) /\ Len(<<"!">>) = 1 /\ <<"!">>[1] = "!"
  OBVIOUS
<1> HIDE DEF C, T
<1>6. CASE HasCategory(o, "S35SIM")
  <2>1. Wanted(o) = << <<"CELL", <<>> >> >>
    BY <1>6, Zenon DEF Wanted
  <2>2. DOMAIN Wanted(o) = {1}
    BY <2>1
  <2> QED
    BY <2>2
<1>7. CASE ~HasCategory(o, "S35SIM") /\ HasCategory(o, "Personal")
  <2> DEFINE a == <<"!">>
             b == <<"-", "B", "u", "e", "r", "o", "!">>
             c == Mobile \o a
  <2>1. Wanted(o) = << <<"HOME", a>>, <<"WORK", b>>, <<"CELL", c>> >>
    BY <1>7, Zenon DEF Wanted
  <2>2. b \in Seq(C) /\ Len(b) = 7 /\ b[1] = "-" /\ b[2] = "B"
    BY DEF C
  <2>3. c \in Seq(C) /\ Len(c) = 7 /\ c[1] = "-" /\ c[2] = "m"
    <3> DEFINE x == Mobile
    <3>1. x \in Seq(C) /\ a \in Seq(C) /\ Len(x) = 6 /\ Len(a) = 1 /\ x[1] = "-" /\ x[2] = "m"
      BY <1>4, <1>5
    <3> HIDE DEF x, a
    <3>2. x \o a \in Seq(C) /\ Len(x \o a) = 7 /\ (x \o a)[1] = "-" /\ (x \o a)[2] = "m"
      <4>1. /\ x \o a \in Seq(C) /\ Len(x \o a) = Len(x) + Len(a)
            /\ \A j \in 1 .. Len(x) + Len(a) :
                 (x \o a)[j] = IF j <= Len(x) THEN x[j] ELSE a[j - Len(x)]
        BY <3>1, ConcatProperties
      <4> QED
        BY <3>1, <4>1
    <3> QED
      BY <3>2 DEF x
  <2>4. a \in Seq(C) /\ Len(a) = 1 /\ a[1] = "!"
    BY <1>5
  <2> HIDE DEF a, b, c
  <2>5. /\ DOMAIN Wanted(o) = {1, 2, 3}
        /\ Wanted(o)[1][2] = a /\ Wanted(o)[2][2] = b /\ Wanted(o)[3][2] = c
    BY <2>1
  <2>6. a \in Seq(T) /\ b \in Seq(T) /\ c \in Seq(T)
    BY <1>3, <2>2, <2>3, <2>4
  <2>7. HandyName(name, a) # HandyName(name, b)
    <3>1. 1 \in 1 .. 4 /\ 1 <= Len(a) /\ 1 <= Len(b) /\ a[1] # b[1]
      BY <2>2, <2>4
    <3> QED
      BY <1>2, <2>6, <3>1, SuffixesTell, Zenon
  <2>8. HandyName(name, a) # HandyName(name, c)
    <3>1. 1 \in 1 .. 4 /\ 1 <= Len(a) /\ 1 <= Len(c) /\ a[1] # c[1]
      BY <2>3, <2>4
    <3> QED
      BY <1>2, <2>6, <3>1, SuffixesTell, Zenon
  <2>9. HandyName(name, b) # HandyName(name, c)
    <3>1. 2 \in 1 .. 4 /\ 2 <= Len(b) /\ 2 <= Len(c) /\ b[2] # c[2]
      BY <2>2, <2>3
    <3> QED
      BY <1>2, <2>6, <3>1, SuffixesTell, Zenon
  <2>10. \/ i = 1 /\ k = 2
         \/ i = 1 /\ k = 3
         \/ i = 2 /\ k = 3
    BY <2>5
  <2> QED
    BY <2>5, <2>7, <2>8, <2>9, <2>10, Zenon DEF name
<1>8. CASE ~HasCategory(o, "S35SIM") /\ ~HasCategory(o, "Personal")
  <2> DEFINE b == <<"-", "p", "r", "i", "v">>
             c == Mobile
  <2>1. Wanted(o) = << <<"WORK", <<>> >>, <<"HOME", b>>, <<"CELL", c>> >>
    BY <1>8, Zenon DEF Wanted
  <2>2. b \in Seq(C) /\ Len(b) = 5 /\ b[1] = "-" /\ b[2] = "p"
    BY DEF C
  <2>3. c \in Seq(C) /\ Len(c) = 6 /\ c[1] = "-" /\ c[2] = "m"
    BY <1>4
  <2> HIDE DEF b, c
  <2>5. /\ DOMAIN Wanted(o) = {1, 2, 3}
        /\ Wanted(o)[1][2] = <<>> /\ Wanted(o)[2][2] = b /\ Wanted(o)[3][2] = c
    BY <2>1
  <2>6. b \in Seq(T) /\ c \in Seq(T) /\ Len(b) > 0 /\ Len(c) > 0
    BY <1>3, <2>2, <2>3
  <2>7. HandyName(name, <<>>) # HandyName(name, b)
    BY <1>1, <1>2, <2>2, <2>6, SuffixTells, Zenon
  <2>8. HandyName(name, <<>>) # HandyName(name, c)
    BY <1>1, <1>2, <2>3, <2>6, SuffixTells, Zenon
  <2>9. HandyName(name, b) # HandyName(name, c)
    <3>1. 2 \in 1 .. 4 /\ 2 <= Len(b) /\ 2 <= Len(c) /\ b[2] # c[2]
      BY <2>2, <2>3
    <3> QED
      BY <1>2, <2>6, <3>1, SuffixesTell, Zenon
  <2>10. \/ i = 1 /\ k = 2
         \/ i = 1 /\ k = 3
         \/ i = 2 /\ k = 3
    BY <2>5
  <2> QED
    BY <2>5, <2>7, <2>8, <2>9, <2>10, Zenon DEF name
<1> QED
  BY <1>6, <1>7, <1>8

(* No two characters that are kept go to the same place.                   *)
LEMMA PlacesDiffer ==
  ASSUME NEW tel, tel \in Seq(ToSet(tel)),
         NEW j \in Dialled(tel), NEW k \in Dialled(tel), j < k
  PROVE  Place(tel, j) # Place(tel, k)
<1> DEFINE J == {i \in Dialled(tel) : i <= j}
           K == {i \in Dialled(tel) : i <= k}
<1>0. Len(tel) \in Nat /\ DOMAIN tel = 1 .. Len(tel)
  BY LenProperties
<1>1. Dialled(tel) \subseteq 1 .. Len(tel) /\ Len(tel) \in Nat
  BY <1>0, Zenon DEF Dialled
<1>2. IsFiniteSet(K)
  <2>1. K \in SUBSET (1 .. Len(tel))
    BY <1>1
  <2>2. IsFiniteSet(1 .. Len(tel))
    BY <1>1, FS_Interval
  <2> HIDE DEF K
  <2> QED
    BY <2>1, <2>2, FS_Subset
<1>3. J \in SUBSET K /\ k \in K /\ k \notin J
  BY <1>1
<1> HIDE DEF J, K
<1>4. Cardinality(J) # Cardinality(K)
  BY <1>2, <1>3, FS_Subset
<1> QED
  BY <1>4 DEF J, K, Place

LEMMA PlaceIn ==
  ASSUME NEW tel, tel \in Seq(ToSet(tel)), NEW k \in Dialled(tel)
  PROVE  /\ Place(tel, k) \in DOMAIN tel
         /\ Dialled(tel) = DOMAIN tel => Place(tel, k) = k
<1> DEFINE K == {i \in Dialled(tel) : i <= k}
<1>0. Len(tel) \in Nat /\ DOMAIN tel = 1 .. Len(tel)
  BY LenProperties
<1>1. /\ Dialled(tel) \subseteq 1 .. Len(tel) /\ Len(tel) \in Nat
      /\ DOMAIN tel = 1 .. Len(tel) /\ k \in 1 .. Len(tel)
  BY <1>0, Zenon DEF Dialled
<1>2. IsFiniteSet(1 .. k) /\ Cardinality(1 .. k) = k
  BY <1>1, FS_Interval
<1>3. K \in SUBSET (1 .. k) /\ k \in K
  BY <1>1
<1>4. Dialled(tel) = DOMAIN tel => K = 1 .. k
  BY <1>1
<1> HIDE DEF K
<1>5. IsFiniteSet(K) /\ Cardinality(K) <= k
  BY <1>2, <1>3, FS_Subset
<1>6. Cardinality(K) # 0 /\ Cardinality(K) \in Nat
  BY <1>3, <1>5, FS_EmptySet, FS_CardinalityType
<1>7. Place(tel, k) = Cardinality(K)
  BY DEF K, Place
<1> QED
  BY <1>1, <1>2, <1>4, <1>5, <1>6, <1>7

(* TelnoValue makes a number of the one it found.                          *)
LEMMA NumberMade ==
  ASSUME NEW o, NEW type, TelnoFound(o, type) \in Seq(ToSet(TelnoFound(o, type)))
  PROVE  /\ MadeFrom(TelnoFound(o, type), TelnoValue(o, type))
         /\ TelnoValue(o, type) = <<>> <=> TelnoFound(o, type) = <<>>
<1> DEFINE tel == TelnoFound(o, type)
           From(i) == CHOOSE k \in Dialled(tel) : Place(tel, k) = i
           s == [i \in DOMAIN tel |-> IF \E k \in Dialled(tel) : Place(tel, k) = i
                                      THEN tel[From(i)] ELSE tel[i]]
<1>1. TelnoValue(o, type) = s
  BY Zenon DEF TelnoValue
<1>2. tel \in Seq(ToSet(tel))
  OBVIOUS
<1> HIDE DEF tel
<1>3. ASSUME NEW k \in Dialled(tel) PROVE s[Place(tel, k)] = tel[k]
  <2>1. Place(tel, k) \in DOMAIN tel
    BY <1>2, PlaceIn
  <2>2. From(Place(tel, k)) \in Dialled(tel) /\ Place(tel, From(Place(tel, k))) = Place(tel, k)
    BY Zenon
  <2>3. s[Place(tel, k)] = tel[From(Place(tel, k))]
    BY <2>1, Zenon
  <2> HIDE DEF From
  <2>4. Dialled(tel) \subseteq Int
    <3>1. Len(tel) \in Nat /\ DOMAIN tel = 1 .. Len(tel)
      BY <1>2, LenProperties
    <3>2. Dialled(tel) \subseteq 1 .. Len(tel)
      BY <3>1, Zenon DEF Dialled
    <3> QED
      BY <3>1, <3>2
  <2>5. From(Place(tel, k)) = k
    BY <1>2, <2>2, <2>4, PlacesDiffer
  <2> QED
    BY <2>3, <2>5, Zenon
<1>4. DOMAIN s = DOMAIN tel
  BY Zenon
<1>5. s = [i \in DOMAIN tel |-> s[i]]
  BY <1>4, Zenon
<1> HIDE DEF s
<1>6. ASSUME Dialled(tel) = DOMAIN tel PROVE s = tel
  <2>1. ASSUME NEW i \in DOMAIN tel PROVE s[i] = tel[i]
    BY <1>2, <1>3, <1>6, PlaceIn
  <2>2. tel = [i \in DOMAIN tel |-> tel[i]]
    BY <1>2
  <2> QED
    BY <1>5, <2>1, <2>2, Zenon
<1>7. s = <<>> <=> tel = <<>>
  <2>1. tel = <<>> <=> DOMAIN tel = {}
    BY <1>2
  <2>2. s = <<>> => DOMAIN s = {}
    OBVIOUS
  <2>3. DOMAIN tel = {} => s = <<>>
    BY <1>5
  <2> QED
    BY <1>4, <2>1, <2>2, <2>3
<1>8. MadeFrom(tel, s)
  BY <1>3, <1>4, <1>6, Zenon DEF MadeFrom
<1> QED
  BY <1>1, <1>7, <1>8, Zenon DEF tel

LEMMA FoundNumber ==
  ASSUME NEW o, PlainCard(o), NEW type
  PROVE  /\ TelnoFound(o, type) \in Seq(ToSet(TelnoFound(o, type)))
         /\ o.t # "VCARD" => TelnoFound(o, type) = <<>>
<1> DEFINE dflt == SelectInSeq(o.ps, LAMBDA p : p.id = "TEL" /\ p.sub = NoSub)
           IsTel(i) == i = 0 \/ (i \in DOMAIN o.ps /\ o.ps[i].id = "TEL")
           i == CASE TelWith(o.ps, type) # 0 -> TelWith(o.ps, type)
                  [] TelWith(o.ps, type) = 0 /\ TelWith(o.ps, "PREF") # 0 -> TelWith(o.ps, "PREF")
                  [] OTHER -> dflt
<1>1. o.ps \in Seq(ToSet(o.ps)) /\ DOMAIN o.ps = 1 .. Len(o.ps)
  BY DEF PlainCard
<1>2. ASSUME NEW u PROVE IsTel(TelWith(o.ps, u))
  <2> DEFINE I == {k \in 1 .. Len(o.ps) : o.ps[k].id = "TEL" /\ u \in DOMAIN o.ps[k].sub}
  <2>1. TelWith(o.ps, u) = IF I # {} THEN Min(I) ELSE 0
    BY Zenon DEF TelWith, SelectInSeq
  <2>2. I \subseteq Nat
    OBVIOUS
  <2>3. I # {} => Min(I) \in I
    <3> HIDE DEF I
    <3> QED
      BY <2>2, MinIn
  <2> QED
    BY <1>1, <2>1, <2>3, Zenon
<1>3. IsTel(dflt)
  <2> DEFINE I == {k \in 1 .. Len(o.ps) : o.ps[k].id = "TEL" /\ o.ps[k].sub = NoSub}
  <2>1. dflt = IF I # {} THEN Min(I) ELSE 0
    BY Zenon DEF SelectInSeq
  <2>2. I \subseteq Nat
    OBVIOUS
  <2>3. I # {} => Min(I) \in I
    <3> HIDE DEF I
    <3> QED
      BY <2>2, MinIn
  <2> QED
    BY <1>1, <2>1, <2>3, Zenon
<1>4. TelnoFound(o, type) = IF i = 0 THEN <<>> ELSE o.ps[i].val
  BY Zenon DEF TelnoFound
<1> HIDE DEF dflt
<1>5. IsTel(i)
  BY <1>2, <1>3, Zenon
<1> HIDE DEF i
<1>6. CASE i = 0
  <2>1. TelnoFound(o, type) = <<>>
    BY <1>4, <1>6
  <2> QED
    BY <2>1 DEF ToSet
<1>7. CASE i # 0
  <2>1. i \in 1 .. Len(o.ps) /\ o.ps[i].id = "TEL" /\ o.ps[i] \in ToSet(o.ps)
    BY <1>1, <1>5, <1>7 DEF ToSet
  <2>2. o.t = "VCARD"
    BY <2>1 DEF PlainCard
  <2>3. o.ps[i].val \in Seq(ToSet(o.ps[i].val))
    BY <2>1 DEF PlainCard
  <2> QED
    BY <1>4, <1>7, <2>2, <2>3
<1> QED
  BY <1>6, <1>7

(* What HandyMade says of one object and the cards made for it.            *)
Telnos(o) == IF HasCategory(o, "NOTHANDY") THEN {}
             ELSE {TelnoFound(o, w[1]) : w \in ToSet(Wanted(o))} \ {<<>>}
Complete(o, own) ==
  /\ \A t \in Telnos(o) : \E c \in own : MadeFrom(t, StringValue(c.ps, "TEL"))
  /\ \A c \in own : \E t \in Telnos(o) : MadeFrom(t, StringValue(c.ps, "TEL"))
  /\ \A c, d \in own : c # d => SubValue(c.ps, "N", "FAMILY") # SubValue(d.ps, "N", "FAMILY")

LEMMA CardsComplete ==
  ASSUME NEW o, PlainCard(o)
  PROVE  Complete(o, CardsOf(o)) /\ \A c \in CardsOf(o) : c.n \div 10 = o.n
<1> DEFINE W == DOMAIN Wanted(o)
           M == {k \in W : Made(o, k)}
           Found(i) == TelnoFound(o, Wanted(o)[i][1])
<1>1. W \subseteq 1 .. 3 /\ 1 \in W
  BY NumbersWanted
<1>2. {TelnoFound(o, w[1]) : w \in ToSet(Wanted(o))} = {Found(i) : i \in W}
  BY Zenon DEF ToSet
<1>0. ASSUME NEW i \in W
      PROVE  MadeFrom(Found(i), NumberOf(o, i)) /\ (NumberOf(o, i) = <<>> <=> Found(i) = <<>>)
  BY FoundNumber, NumberMade, Zenon DEF NumberOf
<1>3. CASE o.t = "VCARD" /\ ~HasCategory(o, "NOTHANDY")
  <2>1. CardsOf(o) = {CardOf(o, i) : i \in M}
    BY <1>3, CardsMade DEF CardsOf
  <2>2. ASSUME NEW i \in W
        PROVE  /\ CardOf(o, i).n = 10 * o.n + i
               /\ StringValue(CardOf(o, i).ps, "TEL") = NumberOf(o, i)
               /\ SubValue(CardOf(o, i).ps, "N", "FAMILY")
                    = HandyName(NameValue(o, NamePart(o)), Wanted(o)[i][2])
    <3> DEFINE name == NameValue(o, NamePart(o))
               s    == Wanted(o)[i][2]
               tel  == NumberOf(o, i)
               m    == 10 * o.n + i
    <3>1. CardOf(o, i) = NewHandyCard(m, name, s, tel)
      BY DEF CardOf
    <3> HIDE DEF name, s, tel, m
    <3>2. /\ NewHandyCard(m, name, s, tel).n = m
          /\ StringValue(NewHandyCard(m, name, s, tel).ps, "TEL") = tel
          /\ SubValue(NewHandyCard(m, name, s, tel).ps, "N", "FAMILY") = HandyName(name, s)
      BY NewCard
    <3> QED
      BY <3>1, <3>2, Zenon DEF name, s, tel, m
  <2>3. NameValue(o, NamePart(o)) # <<>>
    BY <1>3 DEF PlainCard
  <2>4. {NumberOf(o, i) : i \in M} = {NumberOf(o, i) : i \in W} \ {<<>>}
    <3>1. ASSUME NEW i \in M PROVE NumberOf(o, i) # <<>> /\ i \in W
      BY Zenon DEF Made
    <3>2. ASSUME NEW i \in W, NumberOf(o, i) # <<>>
          PROVE  \E k \in M : NumberOf(o, k) = NumberOf(o, i)
      <4>1. CASE i > 1 => NumberOf(o, i) # NumberOf(o, 1)
        BY <2>3, <3>2, <4>1, Zenon DEF Made
      <4>2. CASE NumberOf(o, i) = NumberOf(o, 1)
        <5>1. ~(1 > 1)
          OBVIOUS
        <5> QED
          BY <1>1, <2>3, <3>2, <4>2, <5>1, Zenon DEF Made
      <4> QED
        BY <4>1, <4>2, Zenon
    <3> HIDE DEF W, M
    <3> QED
      BY <3>1, <3>2, Zenon
  <2>5. Telnos(o) = {Found(i) : i \in W} \ {<<>>}
    BY <1>2, <1>3, Zenon DEF Telnos
  <2>9. ASSUME NEW i \in M PROVE i \in W /\ NumberOf(o, i) # <<>> /\ CardOf(o, i) \in CardsOf(o)
    BY <2>1, Zenon DEF Made
  <2>10. \A t \in Telnos(o) : \E c \in CardsOf(o) : MadeFrom(t, StringValue(c.ps, "TEL"))
    <3>1. SUFFICES ASSUME NEW i \in W, Found(i) # <<>>
                   PROVE  \E c \in CardsOf(o) : MadeFrom(Found(i), StringValue(c.ps, "TEL"))
      BY <2>5, Zenon
    <3>2. NumberOf(o, i) \in {NumberOf(o, k) : k \in M}
      BY <1>0, <2>4, <3>1, Zenon
    <3>3. PICK k \in M : NumberOf(o, k) = NumberOf(o, i)
      BY <3>2, Zenon
    <3>4. CardOf(o, k) \in CardsOf(o) /\ StringValue(CardOf(o, k).ps, "TEL") = NumberOf(o, i)
      BY <2>2, <2>9, <3>3, Zenon
    <3> QED
      BY <1>0, <3>4, Zenon
  <2>11. \A c \in CardsOf(o) : \E t \in Telnos(o) : MadeFrom(t, StringValue(c.ps, "TEL"))
    <3>1. SUFFICES ASSUME NEW i \in M
                   PROVE  \E t \in Telnos(o) : MadeFrom(t, StringValue(CardOf(o, i).ps, "TEL"))
      BY <2>1, Zenon
    <3>2. Found(i) \in Telnos(o) /\ StringValue(CardOf(o, i).ps, "TEL") = NumberOf(o, i)
      BY <1>0, <2>2, <2>5, <2>9, Zenon
    <3> QED
      BY <1>0, <2>9, <3>2, Zenon
  <2>6. ASSUME NEW i \in W, NEW k \in W, i < k
        PROVE  SubValue(CardOf(o, i).ps, "N", "FAMILY") # SubValue(CardOf(o, k).ps, "N", "FAMILY")
    <3>1. SubValue(CardOf(o, i).ps, "N", "FAMILY")
            = HandyName(NameValue(o, NamePart(o)), Wanted(o)[i][2])
      BY <2>2
    <3>2. SubValue(CardOf(o, k).ps, "N", "FAMILY")
            = HandyName(NameValue(o, NamePart(o)), Wanted(o)[k][2])
      BY <2>2
    <3>3. HandyName(NameValue(o, NamePart(o)), Wanted(o)[i][2])
            # HandyName(NameValue(o, NamePart(o)), Wanted(o)[k][2])
      BY <1>3, <2>6, NamesDiffer
    <3> QED
      BY <3>1, <3>2, <3>3, Zenon
  <2>7. ASSUME NEW c \in CardsOf(o), NEW d \in CardsOf(o), c # d
        PROVE  SubValue(c.ps, "N", "FAMILY") # SubValue(d.ps, "N", "FAMILY")
    <3>1. PICK i \in M : c = CardOf(o, i)
      BY <2>1, Zenon
    <3>2. PICK k \in M : d = CardOf(o, k)
      BY <2>1, Zenon
    <3>3. i \in W /\ k \in W /\ i # k
      BY <2>7, <3>1, <3>2, Zenon
    <3>4. i < k \/ k < i
      <4> HIDE DEF W, M
      <4> QED
        BY <1>1, <3>3
    <3> QED
      BY <2>6, <3>1, <3>2, <3>3, <3>4, Zenon
  <2>8. ASSUME NEW c \in CardsOf(o) PROVE c.n \div 10 = o.n
    <3>1. PICK i \in M : c = CardOf(o, i)
      BY <2>1, Zenon
    <3>2. i \in W /\ c.n = 10 * o.n + i
      BY <2>2, <3>1, Zenon
    <3>3. o.n \in Nat
      BY DEF PlainCard
    <3> HIDE DEF W, M
    <3>4. i \in 1 .. 3
      BY <1>1, <3>2
    <3>5. ASSUME NEW m \in Nat PROVE (10 * m + i) \div 10 = m
      BY <3>4
    <3> QED
      BY <3>2, <3>3, <3>5
  <2> QED
    BY <2>7, <2>8, <2>10, <2>11, Zenon DEF Complete
<1>4. CASE ~(o.t = "VCARD" /\ ~HasCategory(o, "NOTHANDY"))
  <2>1. CardsOf(o) = {}
    BY <1>4, Zenon DEF CardsOf
  <2>2. Telnos(o) = {}
    <3>1. ASSUME o.t # "VCARD", NEW i \in W PROVE Found(i) = <<>>
      BY <3>1, FoundNumber, Zenon
    <3> HIDE DEF W, Found
    <3> QED
      BY <1>2, <1>4, <3>1, Zenon DEF Telnos
  <2> QED
    BY <2>1, <2>2, Zenon DEF Complete
<1> QED
  BY <1>3, <1>4

-----------------------------------------------------------------------------
(* imphandy goes from one object to the next.                              *)
LEMMA PlaceOf ==
  ASSUME NEW os \in HFiles, NEW k \in 1 .. Len(os)
  PROVE  At(os, os[k].n) = k
<1>1. /\ os \in Seq(ToSet(os)) /\ DOMAIN os = 1 .. Len(os) /\ Len(os) \in Nat
      /\ \A i, j \in DOMAIN os : os[i].n = os[j].n => i = j
  BY CardsAssumption
<1>2. {i \in 1 .. Len(os) : os[i].n = os[k].n} = {k}
  BY <1>1
<1>3. At(os, os[k].n) = Min({k})
  BY <1>2, Zenon DEF At, SelectInSeq
<1>4. k \in Nat
  BY <1>1
<1>5. Min({k}) = k
  BY <1>4 DEF Min
<1> QED
  BY <1>3, <1>5

LEMMA NextDone ==
  ASSUME ConvInv, HandyInv, ImpHandy, ~\E o \in ToSet(vgiven) : HasCategory(o, "HANDY")
  PROVE  vgiven \in HFiles /\ vgiven' = vgiven /\ \E k \in 0 .. Len(vgiven) : FirstDone(k)'
<1>1. /\ vcmd = "imphandy" /\ vjob = "imphandy" /\ vat # 0 /\ UNCHANGED <<vcmd, vjob, vgiven, vtab>>
  BY DEF ImpHandy, ConvInv
<1>2. vgiven \in HFiles
  BY <1>1 DEF HandyInv
<1>3. PICK k \in 0 .. Len(vgiven) : FirstDone(k)
  BY <1>1, Zenon DEF HandyInv
<1>4. /\ vlist = vgiven /\ vat = IF k = Len(vgiven) THEN 0 ELSE vgiven[k + 1].n
      /\ vhandy \in Seq(ToSet(vhandy))
      /\ ToSet(vhandy) = UNION {CardsOf(vgiven[i]) : i \in 1 .. k}
  BY <1>1, <1>3, Zenon DEF FirstDone
<1>5. Len(vgiven) \in Nat /\ DOMAIN vgiven = 1 .. Len(vgiven)
  BY <1>2, CardsAssumption
<1>6. k # Len(vgiven) /\ vat = vgiven[k + 1].n
  BY <1>1, <1>4, Zenon
<1>7. k + 1 \in 1 .. Len(vgiven)
  <2> DEFINE n == Len(vgiven)
  <2>1. k # n /\ n \in Nat /\ k \in 0 .. n
    BY <1>5, <1>6
  <2> HIDE DEF n
  <2>2. k + 1 \in 1 .. n
    BY <2>1
  <2> QED
    BY <2>2 DEF n
<1>8. At(vlist, vat) = k + 1
  <2>1. At(vgiven, vgiven[k + 1].n) = k + 1
    BY <1>2, <1>7, PlaceOf, Zenon
  <2> QED
    BY <1>4, <1>6, <2>1, Zenon
<1> DEFINE o == vgiven[k + 1]
<1>9. o \in ToSet(vgiven)
  BY <1>5, <1>7 DEF ToSet
<1>10. Following(vat) = IF k + 1 = Len(vgiven) THEN 0 ELSE vgiven[(k + 1) + 1].n
  BY <1>4, <1>8, Zenon DEF Following
<1>11. UNION {CardsOf(vgiven[i]) : i \in 1 .. k + 1} = ToSet(vhandy) \cup CardsOf(o)
  <2>1. 1 .. k + 1 = (1 .. k) \cup {k + 1}
    BY <1>5
  <2> QED
    BY <1>4, <2>1, Zenon
<1>12. /\ vlist' = vgiven /\ vat' = IF k + 1 = Len(vgiven) THEN 0 ELSE vgiven[(k + 1) + 1].n
       /\ vhandy' \in Seq(ToSet(vhandy'))
       /\ ToSet(vhandy') = ToSet(vhandy) \cup CardsOf(o)
  <2>1. ~HasCategory(o, "HANDY")
    BY <1>9, Zenon
  <2>2. \/ /\ o.t # "VCARD" \/ HasCategory(o, "NOTHANDY")
           /\ vat' = Following(vat) /\ UNCHANGED <<vlist, vhandy>>
        \/ /\ o.t = "VCARD" /\ ~HasCategory(o, "NOTHANDY")
           /\ vhandy' = vhandy \o HandyCards(o)
           /\ vat' = Following(vat) /\ UNCHANGED vlist
    BY <1>4, <1>8, <2>1, Zenon DEF ImpHandy
  <2>3. CASE /\ o.t # "VCARD" \/ HasCategory(o, "NOTHANDY")
             /\ vat' = Following(vat) /\ UNCHANGED <<vlist, vhandy>>
    <3>1. CardsOf(o) = {}
      BY <2>3, Zenon DEF CardsOf
    <3> QED
      BY <1>4, <1>10, <2>3, <3>1
  <2>4. CASE /\ o.t = "VCARD" /\ ~HasCategory(o, "NOTHANDY")
             /\ vhandy' = vhandy \o HandyCards(o)
             /\ vat' = Following(vat) /\ UNCHANGED vlist
    <3> DEFINE new == HandyCards(o)
               T   == ToSet(vhandy) \cup ToSet(new)
    <3>1. new \in Seq(ToSet(new)) /\ CardsOf(o) = ToSet(new)
      BY <2>4, CardsMade, Zenon DEF CardsOf
    <3> HIDE DEF new
    <3>2. vhandy \in Seq(T) /\ new \in Seq(T)
      BY <1>4, <3>1
    <3>3. vhandy \o new \in Seq(T) /\ ToSet(vhandy \o new) = T
      <4> HIDE DEF T
      <4>1. vhandy \o new \in Seq(T) /\ ToSet(vhandy \o new) = ToSet(vhandy) \cup ToSet(new)
        BY <3>2, Joined
      <4> QED
        BY <4>1 DEF T
    <3>4. vhandy' = vhandy \o new
      BY <2>4 DEF new
    <3> QED
      BY <1>4, <1>10, <2>4, <3>1, <3>3, <3>4, Zenon
  <2> QED
    BY <2>2, <2>3, <2>4
<1>13. FirstDone(k + 1)'
  <2>1. ToSet(vhandy') = UNION {CardsOf(vgiven'[i]) : i \in 1 .. k + 1}
    BY <1>1, <1>11, <1>12, Zenon
  <2>2. vcmd' # "done"
    BY <1>1
  <2> QED
    BY <1>1, <1>12, <2>1, <2>2 DEF FirstDone
<1>14. k + 1 \in 0 .. Len(vgiven)
  BY <1>5, <1>7
<1> QED
  BY <1>1, <1>2, <1>13, <1>14, Zenon

LEMMA HandyStep == ASSUME ConvInv, HandyInv, [ConvNext]_vvars PROVE HandyInv'
<1>1. CASE UNCHANGED vvars
  BY <1>1 DEF HandyInv, FirstDone, vvars
<1>2. CASE Start
  <2> SUFFICES ASSUME vjob' = "imphandy"
               PROVE  vgiven' \in HFiles /\ \E k \in 0 .. Len(vgiven') : FirstDone(k)'
    BY DEF HandyInv
  <2>1. vcmd' = "imphandy" /\ vhandy' = <<>>
    BY <1>2 DEF Start, ConvInv
  <2>2. PICK os \in HFiles : /\ vgiven' = os /\ vlist' = os
                             /\ vat' = IF os = <<>> THEN 0 ELSE os[1].n
    BY <1>2, <2>1 DEF Start
  <2>3. os \in Seq(ToSet(os))
    BY CardsAssumption
  <2>4. (os = <<>> <=> 0 = Len(os)) /\ 0 \in 0 .. Len(os)
    BY <2>3
  <2>5. vhandy' \in Seq(ToSet(vhandy')) /\ ToSet(vhandy') = {}
    <3>1. <<>> \in Seq(ToSet(<<>>)) /\ DOMAIN <<>> = {}
      OBVIOUS
    <3> QED
      BY <2>1, <3>1 DEF ToSet
  <2>6. UNION {CardsOf(vgiven'[i]) : i \in 1 .. 0} = {}
    <3>1. 1 .. 0 = {}
      OBVIOUS
    <3> QED
      BY <3>1, Zenon
  <2>7. vat' = IF 0 = Len(vgiven') THEN 0 ELSE vgiven'[0 + 1].n
    <3>1. 0 + 1 = 1
      OBVIOUS
    <3> QED
      BY <2>2, <2>4, <3>1, Zenon
  <2>8. FirstDone(0)'
    <3>1. vcmd' # "done"
      BY <2>1
    <3> QED
      BY <2>2, <2>5, <2>6, <2>7, <3>1, Zenon DEF FirstDone
  <2> QED
    BY <2>2, <2>4, <2>8, Zenon
<1>3. CASE Sort \/ Convert
  <2>1. vjob # "imphandy" /\ vjob' = vjob
    BY <1>3 DEF Sort, Convert, ConvInv
  <2> QED
    BY <2>1 DEF HandyInv
<1>4. CASE ImpHandy
  <2>1. vjob = "imphandy" /\ vgiven' = vgiven /\ vgiven \in HFiles
    BY <1>4 DEF ImpHandy, ConvInv, HandyInv
  <2>2. CASE \E o \in ToSet(vgiven) : HasCategory(o, "HANDY")
    BY <2>1, <2>2, Zenon DEF HandyInv
  <2>3. CASE ~\E o \in ToSet(vgiven) : HasCategory(o, "HANDY")
    <3>1. \E k \in 0 .. Len(vgiven) : FirstDone(k)'
      BY <1>4, <2>3, NextDone, Zenon
    <3> QED
      BY <2>1, <3>1, Zenon DEF HandyInv
  <2> QED
    BY <2>2, <2>3
<1>5. CASE Finish
  <2>1. /\ vcmd' = "done" /\ vcmd = vjob /\ vat = 0 /\ vlist' = vlist \o vhandy
        /\ UNCHANGED <<vjob, vgiven, vtab, vat, vhandy>>
    BY <1>5 DEF Finish, ConvInv
  <2> SUFFICES ASSUME vjob = "imphandy", ~\E o \in ToSet(vgiven) : HasCategory(o, "HANDY")
               PROVE  vgiven \in HFiles /\ \E k \in 0 .. Len(vgiven) : FirstDone(k)'
    BY <2>1, Zenon DEF HandyInv
  <2>2. vgiven \in HFiles
    BY DEF HandyInv
  <2>3. PICK k \in 0 .. Len(vgiven) : FirstDone(k)
    BY Zenon DEF HandyInv
  <2>4. /\ vlist = vgiven /\ 0 = IF k = Len(vgiven) THEN 0 ELSE vgiven[k + 1].n
        /\ vhandy \in Seq(ToSet(vhandy))
        /\ ToSet(vhandy) = UNION {CardsOf(vgiven[i]) : i \in 1 .. k}
    BY <2>1, <2>3, Zenon DEF FirstDone
  <2>5. k = Len(vgiven)
    <3> SUFFICES ASSUME k # Len(vgiven) PROVE FALSE
      OBVIOUS
    <3>1. k + 1 \in DOMAIN vgiven
      BY <2>2, CardsAssumption
    <3>2. vgiven[k + 1].n # 0
      <4>1. PlainCard(vgiven[k + 1])
        BY <2>2, <3>1, CardsAssumption, Zenon
      <4> QED
        BY <4>1 DEF PlainCard
    <3> QED
      BY <2>4, <3>2, Zenon
  <2>6. FirstDone(k)'
    <3>1. vcmd' # "imphandy"
      BY <2>1
    <3> QED
      BY <2>1, <2>4, <2>5, <3>1, Zenon DEF FirstDone
  <2> QED
    BY <2>2, <2>6, Zenon
<1> QED
  BY <1>1, <1>2, <1>3, <1>4, <1>5 DEF ConvNext

(* When imphandy has looked at all objects.                                *)
LEMMA AllMade == ASSUME HandyInv PROVE HandyMade
<1> SUFFICES ASSUME vcmd = "done", vjob = "imphandy",
                    ~\E o \in ToSet(vgiven) : HasCategory(o, "HANDY")
             PROVE  /\ ToSet(vgiven) \subseteq ToSet(vlist)
                    /\ \A o \in ToSet(vgiven) :
                         Complete(o, {c \in ToSet(vhandy) : c.n \div 10 = o.n})
  BY Zenon DEF HandyMade, Ended, Complete, Telnos
<1>1. vgiven \in HFiles
  BY DEF HandyInv
<1>2. PICK k \in 0 .. Len(vgiven) : FirstDone(k)
  BY Zenon DEF HandyInv
<1>3. /\ k = Len(vgiven) /\ vlist = vgiven \o vhandy
      /\ vhandy \in Seq(ToSet(vhandy))
      /\ ToSet(vhandy) = UNION {CardsOf(vgiven[i]) : i \in 1 .. k}
  BY <1>2, Zenon DEF FirstDone
<1>4. /\ vgiven \in Seq(ToSet(vgiven)) /\ DOMAIN vgiven = 1 .. k
      /\ \A i \in DOMAIN vgiven : PlainCard(vgiven[i])
      /\ \A i, j \in DOMAIN vgiven : vgiven[i].n = vgiven[j].n => i = j
  <2>1. vgiven \in Seq(ToSet(vgiven))
    BY <1>1, CardsAssumption, Zenon
  <2>2. DOMAIN vgiven = 1 .. k
    BY <1>3, <2>1
  <2> QED
    BY <1>1, <2>1, <2>2, CardsAssumption, Zenon
<1>5. ToSet(vgiven) \subseteq ToSet(vlist)
  <2> DEFINE T == ToSet(vgiven) \cup ToSet(vhandy)
  <2>1. vgiven \in Seq(T) /\ vhandy \in Seq(T)
    BY <1>3, <1>4
  <2> HIDE DEF T
  <2>2. ToSet(vgiven \o vhandy) = ToSet(vgiven) \cup ToSet(vhandy)
    BY <2>1, Joined
  <2> QED
    BY <1>3, <2>2
<1>6. ASSUME NEW o \in ToSet(vgiven)
      PROVE  Complete(o, {c \in ToSet(vhandy) : c.n \div 10 = o.n})
  <2>1. PICK i \in DOMAIN vgiven : o = vgiven[i]
    BY DEF ToSet
  <2>2. ASSUME NEW j \in DOMAIN vgiven
        PROVE  Complete(vgiven[j], CardsOf(vgiven[j]))
               /\ \A c \in CardsOf(vgiven[j]) : c.n \div 10 = vgiven[j].n
    BY <1>4, CardsComplete, Zenon
  <2>3. {c \in ToSet(vhandy) : c.n \div 10 = o.n} = CardsOf(o)
    <3>1. ASSUME NEW c \in CardsOf(o) PROVE c \in ToSet(vhandy) /\ c.n \div 10 = o.n
      <4>1. c \in CardsOf(vgiven[i]) /\ i \in 1 .. k
        BY <1>4, <2>1, Zenon
      <4>2. c \in ToSet(vhandy)
        BY <1>3, <4>1, Zenon
      <4> QED
        BY <2>1, <2>2, <4>1, <4>2, Zenon
    <3>2. ASSUME NEW c \in ToSet(vhandy), c.n \div 10 = o.n PROVE c \in CardsOf(o)
      <4>1. PICK j \in 1 .. k : c \in CardsOf(vgiven[j])
        BY <1>3, Zenon
      <4>2. j \in DOMAIN vgiven /\ c.n \div 10 = vgiven[j].n
        BY <1>4, <2>2, <4>1, Zenon
      <4>3. i = j
        BY <1>4, <2>1, <3>2, <4>2, Zenon
      <4> QED
        BY <2>1, <4>1, <4>3, Zenon
    <3> QED
      BY <3>1, <3>2, Zenon
  <2> QED
    BY <2>1, <2>2, <2>3, Zenon
<1> QED
  BY <1>5, <1>6

(* imphandy makes a card for each number of each card, and two of a card   *)
(* never have the same name, for any cards with names that do not go on    *)
(* like a suffix where one would begin (vcard_to_handy, new_handycard).    *)
THEOREM HandyNumbers == ConvSpec => []HandyMade
<1>1. NoJob => ConvInv /\ HandyInv
  BY DEF NoJob, ConvInv, HandyInv, Convs
<1>2. ConvInv /\ HandyInv /\ [ConvNext]_vvars => (ConvInv /\ HandyInv)'
  BY ConvStep, HandyStep
<1>3. ConvInv /\ HandyInv => HandyMade
  BY AllMade
<1> QED
  BY <1>1, <1>2, <1>3, PTL DEF ConvSpec
=============================================================================
