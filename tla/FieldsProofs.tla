---------------------------- MODULE FieldsProofs ----------------------------
(***************************************************************************)
(* What any number of edits and conversions leave as it was, for any       *)
(* fields entered on the IC35 and any properties in the PIM file: lemmas   *)
(* on what each setter of a property changes and what is read from it      *)
(* then, on records and the data exchanged for them, and three theorems.   *)
(***************************************************************************)
EXTENDS Fields, SequenceTheorems, FiniteSetTheorems, WellFoundedInduction, TLAPS

(***************************************************************************)
(* Numbers and lists.                                                      *)
(***************************************************************************)

(* A set of numbers has a least: of the intervals from 0 to each of them   *)
(* the one that contains no other is that to it.                           *)
LEMMA MinIn ==
  ASSUME NEW I, I \subseteq Nat, I # {}
  PROVE  Min(I) \in I /\ \A i \in I : Min(I) <= i
<1> DEFINE F == {0 .. i : i \in I}
<1>1. F \subseteq FiniteSubsetsOf(Nat)
  <2>1. ASSUME NEW i \in I PROVE IsFiniteSet(0 .. i) /\ 0 .. i \subseteq Nat
    BY FS_Interval
  <2> QED
    BY <2>1 DEF FiniteSubsetsOf
<1>2. PICK b \in F : \A c \in F : ~(<<c, b>> \in StrictSubsetOrdering(Nat))
  <2>1. IsWellFoundedOn(StrictSubsetOrdering(Nat), FiniteSubsetsOf(Nat))
    BY FS_StrictSubsetOrderingWellFounded
  <2>2. F # {}
    OBVIOUS
  <2> HIDE DEF F
  <2> QED
    BY <1>1, <2>1, <2>2, WFMin
<1>3. PICK x \in I : b = 0 .. x
  OBVIOUS
<1>4. ASSUME NEW y \in I, ~(x <= y) PROVE FALSE
  <2>1. 0 .. y \in F /\ 0 .. y \subseteq 0 .. x /\ 0 .. y # 0 .. x
    BY <1>4
  <2>2. 0 .. y \subseteq Nat /\ 0 .. x \subseteq Nat
    OBVIOUS
  <2> HIDE DEF F
  <2> QED
    BY <1>2, <1>3, <2>1, <2>2 DEF StrictSubsetOrdering
<1> QED
  BY <1>4 DEF Min

LEMMA Induction ==
  ASSUME NEW T, 0 \in T, \A n \in Nat : n \in T => n + 1 \in T
  PROVE  Nat \subseteq T
<1> SUFFICES ASSUME Nat \ T # {} PROVE FALSE
  OBVIOUS
<1> DEFINE x == Min(Nat \ T)
<1>1. x \in Nat \ T /\ \A y \in Nat \ T : x <= y
  BY MinIn
<1> HIDE DEF x
<1>2. x # 0 /\ x - 1 \in Nat
  BY <1>1
<1> QED
  BY <1>1, <1>2

(* of numbers up to n there is a greatest: it is the least from above      *)
LEMMA MaxIn ==
  ASSUME NEW n \in Nat, NEW I, I \subseteq 1 .. n, I # {}
  PROVE  Max(I) \in I
<1> DEFINE J == {n - i : i \in I}
           x == n - Min(J)
<1>1. J \subseteq Nat /\ J # {}
  <2>1. \A i \in I : n - i \in Nat
    OBVIOUS
  <2> QED
    BY <2>1
<1>2. Min(J) \in J /\ \A j \in J : Min(J) <= j
  <2> HIDE DEF J
  <2> QED
    BY <1>1, MinIn
<1>3. x \in I /\ \A y \in I : x >= y
  <2> DEFINE m == Min(J)
  <2>1. m \in J /\ \A j \in J : m <= j
    BY <1>2
  <2> HIDE DEF m
  <2>2. PICK i \in I : m = n - i
    BY <2>1
  <2>3. \A y \in I : m <= n - y
    BY <2>1
  <2>4. n - m = i /\ \A y \in I : n - m >= y
    BY <2>2, <2>3
  <2> QED
    BY <2>4 DEF m
<1> HIDE DEF x
<1> QED
  BY <1>3 DEF Max

LEMMA SeqList == ASSUME NEW S, NEW s \in Seq(S) PROVE IsList(s)
<1>1. Len(s) \in Nat /\ s \in [1 .. Len(s) -> S]
  BY LenProperties
<1> QED
  BY <1>1 DEF IsList

LEMMA ListSeq ==
  ASSUME NEW s, IsList(s)
  PROVE  s \in Seq(ToSet(s)) /\ DOMAIN s = 1 .. Len(s) /\ Len(s) \in Nat
<1> DEFINE n == Len(s)
<1>1. n \in Nat /\ s = [i \in 1 .. n |-> s[i]]
  BY DEF IsList
<1> HIDE DEF n
<1>2. DOMAIN s = 1 .. n
  BY <1>1
<1>3. s \in [1 .. n -> ToSet(s)]
  BY <1>1, <1>2 DEF ToSet
<1> QED
  BY <1>1, <1>2, <1>3, SeqDef DEF n

LEMMA Together ==
  ASSUME NEW s, NEW t, IsList(s), IsList(t)
  PROVE  \E S : s \in Seq(S) /\ t \in Seq(S)
<1>1. s \in Seq(ToSet(s) \cup ToSet(t)) /\ t \in Seq(ToSet(s) \cup ToSet(t))
  BY ListSeq, SeqMonotonic
<1> QED
  BY <1>1

LEMMA SmallLists ==
  /\ IsList(<<>>) /\ Len(<<>>) = 0 /\ ToSet(<<>>) = {}
  /\ \A e : IsList(<<e>>) /\ Len(<<e>>) = 1 /\ <<e>>[1] = e /\ ToSet(<<e>>) = {e}
<1>1. IsList(<<>>) /\ Len(<<>>) = 0
  <2>1. <<>> \in Seq({})
    BY EmptySeq
  <2> QED
    BY <2>1, SeqList
<1>2. ASSUME NEW e PROVE IsList(<<e>>) /\ Len(<<e>>) = 1 /\ <<e>>[1] = e /\ ToSet(<<e>>) = {e}
  <2>1. <<e>> \in Seq({e}) /\ Len(<<e>>) = 1 /\ <<e>>[1] = e /\ DOMAIN <<e>> = {1}
    OBVIOUS
  <2> QED
    BY <2>1, SeqList DEF ToSet
<1>3. ToSet(<<>>) = {}
  BY DEF ToSet
<1> QED
  BY <1>1, <1>2, <1>3

LEMMA SameLists ==
  ASSUME NEW s, NEW t, IsList(s), IsList(t), Len(s) = Len(t),
         \A i \in 1 .. Len(s) : s[i] = t[i]
  PROVE  s = t
<1> PICK S : s \in Seq(S) /\ t \in Seq(S)
  BY Together
<1> QED
  BY SeqEqual

JoinedSo(s, t, u) ==
  /\ IsList(u) /\ Len(u) = Len(s) + Len(t)
  /\ \A i \in 1 .. Len(s) : u[i] = s[i]
  /\ \A i \in 1 .. Len(t) : u[Len(s) + i] = t[i]
  /\ ToSet(u) = ToSet(s) \cup ToSet(t)

LEMMA Joined ==
  ASSUME NEW s, NEW t, IsList(s), IsList(t) PROVE JoinedSo(s, t, s \o t)
<1> PICK S : s \in Seq(S) /\ t \in Seq(S)
  BY Together
<1> DEFINE u == s \o t
<1>1. /\ u \in Seq(S) /\ Len(u) = Len(s) + Len(t)
      /\ \A i \in 1 .. Len(s) + Len(t) : u[i] = IF i <= Len(s) THEN s[i] ELSE t[i - Len(s)]
  BY ConcatProperties
<1> HIDE DEF u
<1>2. /\ DOMAIN s = 1 .. Len(s) /\ Len(s) \in Nat
      /\ DOMAIN t = 1 .. Len(t) /\ Len(t) \in Nat
      /\ DOMAIN u = 1 .. Len(s) + Len(t)
  BY <1>1, LenProperties
<1>3. \A i \in 1 .. Len(s) : i \in DOMAIN u /\ u[i] = s[i]
  BY <1>1, <1>2
<1>4. \A i \in 1 .. Len(t) : Len(s) + i \in DOMAIN u /\ u[Len(s) + i] = t[i]
  <2> TAKE i \in 1 .. Len(t)
  <2>1. Len(s) + i \in 1 .. Len(s) + Len(t) /\ ~(Len(s) + i <= Len(s)) /\ Len(s) + i - Len(s) = i
    BY <1>2
  <2> QED
    BY <1>1, <1>2, <2>1
<1>5. \A i \in DOMAIN u : \/ i \in DOMAIN s /\ u[i] = s[i]
                          \/ i - Len(s) \in DOMAIN t /\ u[i] = t[i - Len(s)]
  BY <1>1, <1>2
<1>6. ToSet(u) = ToSet(s) \cup ToSet(t)
  BY <1>2, <1>3, <1>4, <1>5 DEF ToSet
<1>7. IsList(u)
  BY <1>1, SeqList
<1>8. JoinedSo(s, t, u)
  BY <1>1, <1>3, <1>4, <1>6, <1>7 DEF JoinedSo
<1> QED
  BY <1>8 DEF u

LEMMA Added ==
  ASSUME NEW s, NEW e, IsList(s)
  PROVE  /\ IsList(Append(s, e)) /\ Len(Append(s, e)) = Len(s) + 1
         /\ \A i \in 1 .. Len(s) : Append(s, e)[i] = s[i]
         /\ Append(s, e)[Len(s) + 1] = e
<1> DEFINE S == ToSet(s) \cup {e}
           a == Append(s, e)
<1>1. s \in Seq(S)
  BY ListSeq, SeqMonotonic
<1>2. e \in S
  OBVIOUS
<1> HIDE DEF S
<1>3. /\ a \in Seq(S) /\ Len(a) = Len(s) + 1
      /\ \A i \in 1 .. Len(s) : a[i] = s[i]
      /\ a[Len(s) + 1] = e
  BY <1>1, <1>2, AppendProperties
<1>4. IsList(a)
  <2> HIDE DEF a
  <2> QED
    BY <1>3, SeqList
<1> QED
  BY <1>3, <1>4

(* The part of a list from m to n.                                         *)
LEMMA PartOf ==
  ASSUME NEW s, IsList(s), NEW m \in Int, NEW n \in Int, 1 <= m, n <= Len(s)
  PROVE  /\ IsList(SubSeq(s, m, n)) /\ Len(SubSeq(s, m, n)) = IF m <= n THEN n - m + 1 ELSE 0
         /\ \A i \in 1 .. n - m + 1 : SubSeq(s, m, n)[i] = s[m + i - 1]
         /\ ToSet(SubSeq(s, m, n)) \subseteq ToSet(s)
<1> DEFINE S == ToSet(s)
           t == SubSeq(s, m, n)
<1>1. s \in Seq(S) /\ Len(s) \in Nat /\ DOMAIN s = 1 .. Len(s)
  BY ListSeq
<1>2. \A i \in m .. n : s[i] \in S
  BY <1>1 DEF ToSet
<1> HIDE DEF S
<1>3. /\ t \in Seq(S) /\ Len(t) = IF m <= n THEN n - m + 1 ELSE 0
      /\ \A i \in 1 .. n - m + 1 : t[i] = s[m + i - 1]
  BY <1>2, SubSeqProperties
<1> HIDE DEF t
<1>4. IsList(t) /\ ToSet(t) \subseteq S
  <2>1. t \in [1 .. Len(t) -> S]
    BY <1>3, LenProperties
  <2> QED
    BY <1>3, <2>1, SeqList DEF ToSet
<1> QED
  BY <1>3, <1>4 DEF t, S

LEMMA Elements ==
  ASSUME NEW s, IsList(s)
  PROVE  /\ ToSet(s) = {s[i] : i \in 1 .. Len(s)}
         /\ s = <<>> <=> Len(s) = 0
<1>1. s \in Seq(ToSet(s)) /\ DOMAIN s = 1 .. Len(s) /\ Len(s) \in Nat
  BY ListSeq
<1>2. s = <<>> <=> Len(s) = 0
  <2>1. Len(s) = 0 => s = <<>>
    BY <1>1, EmptySeq
  <2> QED
    BY <2>1, SmallLists
<1> QED
  BY <1>1, <1>2 DEF ToSet

-----------------------------------------------------------------------------
(***************************************************************************)
(* Lists put together.                                                     *)
(***************************************************************************)

LEMMA OffsetsExist ==
  ASSUME NEW n \in Nat, NEW l
  PROVE  \E h : h = [i \in 0 .. n |-> IF i = 0 THEN 0 ELSE h[i - 1] + l[i]]
<1> DEFINE R(h, m) == h = [i \in 0 .. m |-> IF i = 0 THEN 0 ELSE h[i - 1] + l[i]]
           T == {m \in Nat : \E h : R(h, m)}
<1>1. 0 \in T
  <2>1. R([i \in 0 .. 0 |-> 0], 0)
    OBVIOUS
  <2> QED
    BY <2>1
<1>2. ASSUME NEW m \in Nat, m \in T PROVE m + 1 \in T
  <2>1. PICK h : R(h, m)
    BY <1>2
  <2> DEFINE g == [i \in 0 .. m + 1 |-> IF i <= m THEN h[i] ELSE h[m] + l[m + 1]]
  <2>2. ASSUME NEW i \in 0 .. m + 1
        PROVE  g[i] = IF i = 0 THEN 0 ELSE g[i - 1] + l[i]
    <3>1. CASE i = 0
      BY <2>1, <3>1
    <3>2. CASE i # 0 /\ i <= m
      <4>1. i \in 0 .. m /\ i - 1 \in 0 .. m + 1 /\ i - 1 <= m
        BY <3>2
      <4>2. h[i] = h[i - 1] + l[i]
        BY <2>1, <3>2, <4>1
      <4> QED
        BY <3>2, <4>1, <4>2
    <3>3. CASE i = m + 1
      BY <3>3
    <3> QED
      BY <3>1, <3>2, <3>3
  <2>3. R(g, m + 1)
    <3>1. g = [i \in 0 .. m + 1 |-> g[i]]
      OBVIOUS
    <3> HIDE DEF g
    <3> QED
      BY <2>2, <3>1, Zenon
  <2> HIDE DEF R, g
  <2> QED
    BY <2>3
<1> HIDE DEF T
<1>3. Nat \subseteq T
  BY <1>1, <1>2, Induction
<1>4. n \in T
  BY <1>3
<1> QED
  BY <1>4 DEF T

LEMMA OffsetsStep ==
  ASSUME NEW n \in Nat, NEW l \in [1 .. n -> Nat]
  PROVE  /\ Offsets(l) = [i \in 1 .. n + 1 |-> Offsets(l)[i]]
         /\ Offsets(l)[1] = 0
         /\ \A i \in 1 .. n : Offsets(l)[i + 1] = Offsets(l)[i] + l[i]
<1> DEFINE F(h) == h = [i \in 0 .. n |-> IF i = 0 THEN 0 ELSE h[i - 1] + l[i]]
           h == CHOOSE h : F(h)
<1>1. Len(l) = n
  BY LenProperties
<1>2. F(h)
  BY OffsetsExist
<1>3. Offsets(l) = [i \in 1 .. n + 1 |-> h[i - 1]]
  <2>1. Offsets(l) = [i \in 1 .. Len(l) + 1 |->
                       (CHOOSE g : g = [j \in 0 .. Len(l) |-> IF j = 0 THEN 0 ELSE g[j - 1] + l[j]])[i - 1]]
    BY Zenon DEF Offsets
  <2> QED
    BY <1>1, <2>1, Zenon
<1> HIDE DEF h
<1>4. h[0] = 0 /\ \A i \in 1 .. n : h[i] = h[i - 1] + l[i]
  <2>1. \A i \in 0 .. n : h[i] = IF i = 0 THEN 0 ELSE h[i - 1] + l[i]
    BY <1>2, Zenon
  <2> HIDE DEF F
  <2> QED
    BY <2>1
<1>5. Offsets(l)[1] = 0
  BY <1>3, <1>4
<1>6. ASSUME NEW i \in 1 .. n PROVE Offsets(l)[i + 1] = Offsets(l)[i] + l[i]
  <2>1. i + 1 \in 1 .. n + 1 /\ i \in 1 .. n + 1 /\ i + 1 - 1 = i
    OBVIOUS
  <2>2. Offsets(l)[i + 1] = h[i + 1 - 1] /\ Offsets(l)[i] = h[i - 1]
    BY <1>3, <2>1
  <2>3. h[i] = h[i - 1] + l[i]
    BY <1>4
  <2> QED
    BY <2>1, <2>2, <2>3, Zenon
<1>7. Offsets(l) = [i \in 1 .. n + 1 |-> Offsets(l)[i]]
  BY <1>3, Zenon
<1> QED
  BY <1>5, <1>6, <1>7

LEMMA OffsetsRise ==
  ASSUME NEW n \in Nat, NEW l \in [1 .. n -> Nat], NEW at, at = Offsets(l)
  PROVE  \A j \in 1 .. n + 1 : \A i \in 1 .. j : at[i] \in Nat /\ at[i] <= at[j]
<1>1. at[1] = 0 /\ \A i \in 1 .. n : at[i + 1] = at[i] + l[i]
  BY OffsetsStep
<1> DEFINE Q(j) == \A i \in 1 .. j : at[i] \in Nat /\ at[i] <= at[j]
           T == {m \in Nat : m < n + 1 => Q(m + 1)}
<1>2. 0 \in T
  BY <1>1
<1>3. ASSUME NEW m \in Nat, m \in T PROVE m + 1 \in T
  <2> SUFFICES ASSUME m + 1 < n + 1 PROVE Q(m + 1 + 1)
    OBVIOUS
  <2>1. m + 1 \in 1 .. n /\ Q(m + 1)
    BY <1>3
  <2>2. at[m + 1 + 1] = at[m + 1] + l[m + 1] /\ l[m + 1] \in Nat
    BY <1>1, <2>1
  <2>3. ASSUME NEW i \in 1 .. m + 1 + 1 PROVE at[i] \in Nat /\ at[i] <= at[m + 1 + 1]
    <3>0. at[m + 1] \in Nat
      BY <2>1
    <3>1. CASE i = m + 1 + 1
      BY <2>2, <3>0, <3>1
    <3>2. CASE i \in 1 .. m + 1
      <4>1. at[i] \in Nat /\ at[i] <= at[m + 1]
        BY <2>1, <3>2
      <4> QED
        BY <2>2, <3>0, <4>1
    <3> QED
      BY <3>1, <3>2
  <2> QED
    BY <2>1, <2>2, <2>3
<1> HIDE DEF T
<1>4. Nat \subseteq T
  BY <1>2, <1>3, Induction
<1>5. ASSUME NEW j \in 1 .. n + 1 PROVE Q(j)
  <2>1. j - 1 \in T /\ j - 1 < n + 1 /\ j - 1 + 1 = j
    BY <1>4
  <2> HIDE DEF Q
  <2>2. Q(j - 1 + 1)
    BY <2>1 DEF T
  <2> QED
    BY <2>1, <2>2
<1> QED
  BY <1>5

LEMMA FlattenExists ==
  ASSUME NEW n \in Nat, NEW s
  PROVE  \E h : h = [i \in 1 .. n |-> IF i = 1 THEN s[i] ELSE h[i - 1] \o s[i]]
<1> DEFINE R(h, m) == h = [i \in 1 .. m |-> IF i = 1 THEN s[i] ELSE h[i - 1] \o s[i]]
           T == {m \in Nat : \E h : R(h, m)}
<1>1. 0 \in T
  <2>1. R([i \in 1 .. 0 |-> 0], 0)
    OBVIOUS
  <2> QED
    BY <2>1
<1>2. ASSUME NEW m \in Nat, m \in T PROVE m + 1 \in T
  <2>1. PICK h : R(h, m)
    BY <1>2
  <2> DEFINE g == [i \in 1 .. m + 1 |-> IF i <= m THEN h[i]
                                        ELSE IF i = 1 THEN s[i] ELSE h[m] \o s[i]]
  <2>2. ASSUME NEW i \in 1 .. m + 1
        PROVE  g[i] = IF i = 1 THEN s[i] ELSE g[i - 1] \o s[i]
    <3>0. g[i] = IF i <= m THEN h[i] ELSE IF i = 1 THEN s[i] ELSE h[m] \o s[i]
      BY Zenon
    <3>1. CASE i <= m
      <4>1. i \in 1 .. m
        BY <3>1
      <4>2. h[i] = IF i = 1 THEN s[i] ELSE h[i - 1] \o s[i]
        BY <2>1, <4>1, Zenon
      <4>3. i # 1 => g[i - 1] = h[i - 1]
        <5>1. i # 1 => i - 1 \in 1 .. m + 1 /\ i - 1 <= m
          BY <4>1
        <5> QED
          BY <5>1, Zenon
      <4> HIDE DEF g
      <4> QED
        BY <3>0, <3>1, <4>2, <4>3, Zenon
    <3>2. CASE i = m + 1
      <4>1. ~(i <= m) /\ (i # 1 => i - 1 \in 1 .. m + 1 /\ i - 1 <= m /\ i - 1 = m)
        BY <3>2
      <4>2. i # 1 => g[i - 1] = h[m]
        BY <4>1, Zenon
      <4> HIDE DEF g
      <4> QED
        BY <3>0, <4>1, <4>2, Zenon
    <3> QED
      BY <3>1, <3>2
  <2>3. R(g, m + 1)
    <3>1. g = [i \in 1 .. m + 1 |-> g[i]]
      BY Zenon
    <3> HIDE DEF g
    <3> QED
      BY <2>2, <3>1, Zenon
  <2> HIDE DEF R, g
  <2> QED
    BY <2>3
<1> HIDE DEF T
<1>3. Nat \subseteq T
  BY <1>1, <1>2, Induction
<1>4. n \in T
  BY <1>3
<1> QED
  BY <1>4 DEF T

(* In the lists of s put together to u the i-th begins after at[i].        *)
Lens(s) == [i \in 1 .. Len(s) |-> Len(s[i])]
LaidOut(s, u, at) ==
  /\ IsList(u) /\ Len(u) = at[Len(s) + 1]
  /\ \A i \in 1 .. Len(s) : \A m \in 1 .. Len(s[i]) :
       at[i] + m \in 1 .. Len(u) /\ u[at[i] + m] = s[i][m]
  /\ \A k \in 1 .. Len(u) : \E i \in 1 .. Len(s) : \E m \in 1 .. Len(s[i]) : k = at[i] + m

LEMMA LaidOutSo ==
  ASSUME NEW s, IsList(s), \A i \in 1 .. Len(s) : IsList(s[i])
  PROVE  LaidOut(s, FlattenSeq(s), Offsets(Lens(s)))
<1> DEFINE n == Len(s)
           at == Offsets(Lens(s))
           F(h) == h = [i \in 1 .. n |-> IF i = 1 THEN s[i] ELSE h[i - 1] \o s[i]]
           h == CHOOSE h : F(h)
<1>0. n \in Nat
  BY ListSeq
<1>1. Lens(s) \in [1 .. n -> Nat] /\ \A i \in 1 .. n : Lens(s)[i] = Len(s[i]) /\ Len(s[i]) \in Nat
  BY ListSeq DEF Lens
<1>2. /\ at[1] = 0 /\ \A i \in 1 .. n : at[i + 1] = at[i] + Len(s[i])
      /\ \A j \in 1 .. n + 1 : \A i \in 1 .. j : at[i] \in Nat /\ at[i] <= at[j]
  <2> DEFINE l == Lens(s)
  <2> HIDE DEF n, l
  <2>1. at[1] = 0 /\ \A i \in 1 .. n : at[i + 1] = at[i] + l[i]
    BY <1>0, <1>1, OffsetsStep DEF l
  <2>2. \A j \in 1 .. n + 1 : \A i \in 1 .. j : at[i] \in Nat /\ at[i] <= at[j]
    BY <1>0, <1>1, OffsetsRise DEF l
  <2> HIDE DEF at
  <2> QED
    BY <1>1, <2>1, <2>2 DEF l
<1> HIDE DEF at
<1>3. CASE n = 0
  <2>1. FlattenSeq(s) = s
    BY <1>3, Zenon DEF FlattenSeq
  <2>2. Len(s) + 1 = 1 /\ 1 .. Len(s) = {}
    BY <1>3
  <2> QED
    BY <1>2, <1>3, <2>1, <2>2 DEF LaidOut, at
<1>4. CASE n # 0
  <2>1. F(h)
    BY <1>0, FlattenExists
  <2>2. FlattenSeq(s) = h[n]
    BY <1>4, Zenon DEF FlattenSeq
  <2> HIDE DEF h
  <2>3. \A i \in 1 .. n : h[i] = IF i = 1 THEN s[i] ELSE h[i - 1] \o s[i]
    BY <2>1, Zenon
  <2> HIDE DEF F
  <2> DEFINE L(j) == /\ IsList(h[j]) /\ Len(h[j]) = at[j + 1]
                     /\ \A i \in 1 .. j : \A m \in 1 .. Len(s[i]) :
                          at[i] + m \in 1 .. at[j + 1] /\ h[j][at[i] + m] = s[i][m]
                     /\ \A k \in 1 .. at[j + 1] :
                          \E i \in 1 .. j : \E m \in 1 .. Len(s[i]) : k = at[i] + m
             T == {m \in Nat : m < n => L(m + 1)}
  <2>4. 0 \in T
    <3>1. h[1] = s[1] /\ at[1 + 1] = Len(s[1]) /\ at[1] = 0
      BY <1>0, <1>1, <1>2, <1>4, <2>3
    <3>2. Len(s[1]) \in Nat /\ \A k \in 1 .. Len(s[1]) : k = 0 + k
      BY <1>0, <1>1, <1>4
    <3>3. IsList(s[1]) /\ 1 .. 1 = {1}
      BY <1>0, <1>4
    <3>4. /\ IsList(h[1]) /\ Len(h[1]) = at[1 + 1]
          /\ \A i \in 1 .. 1 : \A m \in 1 .. Len(s[i]) :
               at[i] + m \in 1 .. at[1 + 1] /\ h[1][at[i] + m] = s[i][m]
      BY <3>1, <3>2, <3>3
    <3>5. \A k \in 1 .. at[1 + 1] : \E i \in 1 .. 1 : \E m \in 1 .. Len(s[i]) : k = at[i] + m
      <4> TAKE k \in 1 .. at[1 + 1]
      <4>1. 1 \in 1 .. 1 /\ k \in 1 .. Len(s[1]) /\ k = at[1] + k
        BY <3>1, <3>2
      <4> QED
        BY <4>1
    <3>6. L(1)
      BY <3>4, <3>5, Zenon
    <3> QED
      BY <3>6
  <2>5. ASSUME NEW j \in Nat, j \in T PROVE j + 1 \in T
    <3> SUFFICES ASSUME j + 1 < n PROVE L(j + 1 + 1)
      <4>1. j + 1 \in Nat
        OBVIOUS
      <4> HIDE DEF L
      <4> QED
        BY <4>1, Zenon
    <3> DEFINE p == j + 1  q == p + 1  u == h[p]  t == s[q]  v == h[q]
    <3>1. L(p) /\ p \in 1 .. n /\ q \in 1 .. n /\ q # 1 /\ q - 1 = p
      BY <2>5
    <3>2. v = u \o t
      <4>1. h[q] = IF q = 1 THEN s[q] ELSE h[q - 1] \o s[q]
        BY <2>3, <3>1, Zenon
      <4> QED
        BY <3>1, <4>1
    <3>3. IsList(u) /\ IsList(t) /\ Len(u) = at[q] /\ at[q + 1] = at[q] + Len(t)
          /\ at[q] \in Nat /\ Len(t) \in Nat
      BY <1>1, <1>2, <3>1
    <3>4. /\ IsList(v) /\ Len(v) = Len(u) + Len(t)
          /\ \A i \in 1 .. Len(u) : v[i] = u[i]
          /\ \A i \in 1 .. Len(t) : v[Len(u) + i] = t[i]
      <4> HIDE DEF u, v, t
      <4>1. JoinedSo(u, t, v)
        BY <3>2, <3>3, Joined, Zenon
      <4> QED
        BY <4>1 DEF JoinedSo
    <3>5. /\ \A i \in 1 .. p : \A m \in 1 .. Len(s[i]) :
               at[i] + m \in 1 .. Len(u) /\ u[at[i] + m] = s[i][m]
          /\ \A k \in 1 .. Len(u) : \E i \in 1 .. p : \E m \in 1 .. Len(s[i]) : k = at[i] + m
      BY <3>1, <3>3
    <3>6. p \in Nat /\ q = p + 1
      OBVIOUS
    <3> HIDE DEF L, u, v, t, p, q
    <3>7. ASSUME NEW i \in 1 .. q, NEW m \in 1 .. Len(s[i])
          PROVE  at[i] + m \in 1 .. at[q + 1] /\ v[at[i] + m] = s[i][m]
      <4>1. CASE i \in 1 .. p
        <5>1. at[i] + m \in 1 .. Len(u) /\ u[at[i] + m] = s[i][m]
          BY <3>5, <4>1
        <5> QED
          BY <3>3, <3>4, <5>1
      <4>2. CASE i = q
        <5>1. m \in 1 .. Len(t) /\ at[i] + m = Len(u) + m /\ s[i][m] = t[m]
          BY <3>3, <4>2 DEF t
        <5> QED
          BY <3>3, <3>4, <5>1
      <4> QED
        BY <3>6, <4>1, <4>2
    <3>8. ASSUME NEW k \in 1 .. at[q + 1]
          PROVE  \E i \in 1 .. q : \E m \in 1 .. Len(s[i]) : k = at[i] + m
      <4>1. CASE k <= at[q]
        <5>1. PICK i \in 1 .. p : \E m \in 1 .. Len(s[i]) : k = at[i] + m
          BY <3>3, <3>5, <4>1
        <5> QED
          BY <3>6, <5>1
      <4>2. CASE k > at[q]
        <5>1. k - at[q] \in 1 .. Len(t) /\ k = at[q] + (k - at[q]) /\ q \in 1 .. q
          BY <3>3, <3>6, <4>2
        <5> QED
          BY <5>1 DEF t
      <4> QED
        BY <3>3, <4>1, <4>2
    <3>9. IsList(v) /\ Len(v) = at[q + 1]
      BY <3>3, <3>4
    <3>10. L(q)
      BY <3>7, <3>8, <3>9 DEF L, v
    <3> QED
      BY <3>10 DEF q, p
  <2> HIDE DEF T
  <2>6. Nat \subseteq T
    BY <2>4, <2>5, Induction
  <2>7. L(n)
    <3>1. n - 1 \in T /\ n - 1 < n /\ n - 1 + 1 = n
      BY <1>0, <1>4, <2>6
    <3> HIDE DEF L
    <3>2. L(n - 1 + 1)
      BY <3>1 DEF T
    <3> QED
      BY <3>1, <3>2
  <2> QED
    BY <2>2, <2>7 DEF LaidOut, at
<1> QED
  BY <1>3, <1>4

LEMMA FunctionList ==
  ASSUME NEW n \in Nat, NEW s, s = [i \in 1 .. n |-> s[i]]
  PROVE  IsList(s) /\ Len(s) = n
<1> DEFINE S == {s[i] : i \in 1 .. n}
<1>1. s \in [1 .. n -> S]
  OBVIOUS
<1> HIDE DEF S
<1>2. s \in Seq(S)
  BY <1>1, SeqDef
<1>3. Len(s) = n
  BY <1>1, <1>2, LenProperties
<1> QED
  BY <1>2, <1>3, SeqList

LEMMA Slices ==
  ASSUME NEW s, IsList(s), \A i \in 1 .. Len(s) : IsList(s[i])
  PROVE  /\ Len(FlattenSeq(s)) = Offsets(Lens(s))[Len(s) + 1]
         /\ \A i \in 1 .. Len(s) :
              SubSeq(FlattenSeq(s), Offsets(Lens(s))[i] + 1, Offsets(Lens(s))[i + 1]) = s[i]
<1> DEFINE n == Len(s)
           l == Lens(s)
           at == Offsets(l)
           u == FlattenSeq(s)
<1>1. LaidOut(s, u, at)
  BY LaidOutSo
<1>2. n \in Nat /\ l \in [1 .. n -> Nat] /\ \A i \in 1 .. n : l[i] = Len(s[i])
  BY ListSeq DEF Lens
<1> HIDE DEF n, l, u
<1>3. /\ \A i \in 1 .. n : at[i + 1] = at[i] + l[i]
      /\ \A j \in 1 .. n + 1 : \A i \in 1 .. j : at[i] \in Nat /\ at[i] <= at[j]
  <2>1. \A i \in 1 .. n : at[i + 1] = at[i] + l[i]
    BY <1>2, OffsetsStep
  <2>2. \A j \in 1 .. n + 1 : \A i \in 1 .. j : at[i] \in Nat /\ at[i] <= at[j]
    BY <1>2, OffsetsRise
  <2> QED
    BY <2>1, <2>2
<1> HIDE DEF at
<1>4. /\ IsList(u) /\ Len(u) = at[n + 1]
      /\ \A i \in 1 .. n : \A m \in 1 .. Len(s[i]) :
           at[i] + m \in 1 .. Len(u) /\ u[at[i] + m] = s[i][m]
  BY <1>1 DEF LaidOut, n
<1>5. ASSUME NEW i \in 1 .. n PROVE SubSeq(u, at[i] + 1, at[i + 1]) = s[i]
  <2> DEFINE a == at[i]  b == at[i + 1]  t == s[i]  w == SubSeq(u, a + 1, b)
  <2>1. a \in Nat /\ b \in Nat /\ b = a + Len(t) /\ Len(t) \in Nat /\ b <= Len(u) /\ IsList(t)
    <3>1. i + 1 \in 1 .. n + 1 /\ n + 1 \in 1 .. n + 1 /\ i \in 1 .. n + 1
          /\ i + 1 \in 1 .. i + 1 /\ i \in 1 .. i + 1
      BY <1>2
    <3>2. b \in Nat /\ b <= at[n + 1] /\ a \in Nat
      BY <1>3, <3>1
    <3>3. b = a + Len(t) /\ Len(t) \in Nat
      BY <1>2, <1>3
    <3> QED
      BY <1>4, <3>2, <3>3 DEF n
  <2>2. \A m \in 1 .. Len(t) : u[a + m] = t[m]
    BY <1>4
  <2> HIDE DEF a, b, t
  <2>3. /\ IsList(w) /\ Len(w) = IF a + 1 <= b THEN b - (a + 1) + 1 ELSE 0
        /\ \A m \in 1 .. b - (a + 1) + 1 : w[m] = u[a + 1 + m - 1]
    <3>1. a + 1 \in Int /\ b \in Int /\ 1 <= a + 1 /\ b <= Len(u)
      BY <2>1
    <3> DEFINE c == a + 1
    <3> HIDE DEF c
    <3>2. /\ IsList(SubSeq(u, c, b)) /\ Len(SubSeq(u, c, b)) = IF c <= b THEN b - c + 1 ELSE 0
          /\ \A m \in 1 .. b - c + 1 : SubSeq(u, c, b)[m] = u[c + m - 1]
      BY <1>4, <3>1, PartOf DEF c
    <3> QED
      BY <3>2, Zenon DEF c
  <2> HIDE DEF w
  <2>4. Len(w) = Len(t)
    BY <2>1, <2>3
  <2>5. \A m \in 1 .. Len(w) : w[m] = t[m]
    <3> TAKE m \in 1 .. Len(w)
    <3>1. m \in 1 .. b - (a + 1) + 1 /\ a + 1 + m - 1 = a + m /\ m \in 1 .. Len(t)
      BY <2>1, <2>4
    <3> QED
      BY <2>2, <2>3, <3>1
  <2>6. w = t
    BY <2>1, <2>3, <2>4, <2>5, SameLists
  <2> QED
    BY <2>6 DEF w, a, b, t
<1>6. Len(u) = at[n + 1] /\ \A i \in 1 .. n : SubSeq(u, at[i] + 1, at[i + 1]) = s[i]
  BY <1>4, <1>5
<1> QED
  BY <1>6 DEF n, u, at, l

LEMMA Flattened ==
  ASSUME NEW s, IsList(s), \A i \in 1 .. Len(s) : IsList(s[i])
  PROVE  /\ IsList(FlattenSeq(s))
         /\ ToSet(FlattenSeq(s)) = UNION {ToSet(s[i]) : i \in 1 .. Len(s)}
<1> DEFINE u == FlattenSeq(s)
           at == Offsets(Lens(s))
<1>1. LaidOut(s, u, at)
  BY LaidOutSo
<1> HIDE DEF u, at
<1>2. /\ IsList(u)
      /\ \A i \in 1 .. Len(s) : \A m \in 1 .. Len(s[i]) :
           at[i] + m \in 1 .. Len(u) /\ u[at[i] + m] = s[i][m]
      /\ \A k \in 1 .. Len(u) : \E i \in 1 .. Len(s) : \E m \in 1 .. Len(s[i]) : k = at[i] + m
  BY <1>1 DEF LaidOut
<1>3. DOMAIN u = 1 .. Len(u) /\ \A i \in 1 .. Len(s) : DOMAIN s[i] = 1 .. Len(s[i])
  BY <1>2, ListSeq
<1>4. ASSUME NEW x \in ToSet(u) PROVE x \in UNION {ToSet(s[i]) : i \in 1 .. Len(s)}
  <2>1. PICK k \in 1 .. Len(u) : x = u[k]
    BY <1>3 DEF ToSet
  <2>2. PICK i \in 1 .. Len(s) : \E m \in 1 .. Len(s[i]) : k = at[i] + m
    BY <1>2
  <2>0. PICK m \in 1 .. Len(s[i]) : k = at[i] + m
    BY <2>2
  <2>3. x = s[i][m] /\ m \in DOMAIN s[i]
    BY <1>2, <1>3, <2>0, <2>1
  <2>4. x \in ToSet(s[i])
    BY <2>3 DEF ToSet
  <2> QED
    BY <2>4
<1>5. ASSUME NEW i \in 1 .. Len(s), NEW x \in ToSet(s[i]) PROVE x \in ToSet(u)
  <2>1. PICK m \in 1 .. Len(s[i]) : x = s[i][m]
    BY <1>3 DEF ToSet
  <2>2. at[i] + m \in DOMAIN u /\ u[at[i] + m] = x
    BY <1>2, <1>3, <2>1
  <2> QED
    BY <2>2 DEF ToSet
<1> QED
  BY <1>2, <1>4, <1>5 DEF u

(* The elements of t at the places X, in order: g tells the place of each. *)
PickedBy(g, u, t, X) ==
  /\ IsList(u)
  /\ \A k \in 1 .. Len(u) : g[k] \in X /\ u[k] = t[g[k]]
  /\ \A j, k \in 1 .. Len(u) : g[j] = g[k] => j = k
  /\ \A i \in X : \E k \in 1 .. Len(u) : u[k] = t[i]

LEMMA Picked ==
  ASSUME NEW t, IsList(t), NEW X, X \subseteq 1 .. Len(t), NEW s, IsList(s), Len(s) = Len(t),
         \A i \in 1 .. Len(t) : s[i] = IF i \in X THEN <<t[i]>> ELSE <<>>
  PROVE  \E g : PickedBy(g, FlattenSeq(s), t, X)
<1> DEFINE u == FlattenSeq(s)
           at == Offsets(Lens(s))
<1>1. \A i \in 1 .. Len(s) :
        /\ IsList(s[i])
        /\ i \in X => Len(s[i]) = 1 /\ s[i][1] = t[i]
        /\ i \notin X => Len(s[i]) = 0
  BY SmallLists
<1>2. LaidOut(s, u, at)
  BY <1>1, LaidOutSo
<1> HIDE DEF u, at
<1>3. /\ IsList(u)
      /\ \A i \in 1 .. Len(s) : \A m \in 1 .. Len(s[i]) :
           at[i] + m \in 1 .. Len(u) /\ u[at[i] + m] = s[i][m]
      /\ \A k \in 1 .. Len(u) : \E i \in 1 .. Len(s) : \E m \in 1 .. Len(s[i]) : k = at[i] + m
  BY <1>2 DEF LaidOut
<1> DEFINE g == [k \in 1 .. Len(u) |-> CHOOSE i \in X : k = at[i] + 1]
<1>4. ASSUME NEW k \in 1 .. Len(u) PROVE g[k] \in X /\ k = at[g[k]] + 1
  <2>0. PICK i \in 1 .. Len(s) : \E m \in 1 .. Len(s[i]) : k = at[i] + m
    BY <1>3
  <2>1. PICK m \in 1 .. Len(s[i]) : k = at[i] + m
    BY <2>0
  <2>2. i \in X /\ m = 1
    <3>1. (i \in X => Len(s[i]) = 1) /\ (i \notin X => Len(s[i]) = 0)
      BY <1>1
    <3>2. Len(s[i]) # 0
      BY <2>1
    <3>3. i \in X /\ Len(s[i]) = 1
      BY <3>1, <3>2, Zenon
    <3> QED
      BY <2>1, <3>3
  <2>3. \E j \in X : k = at[j] + 1
    BY <2>1, <2>2
  <2> QED
    BY <2>3
<1> HIDE DEF g
<1>5. \A i \in X : at[i] + 1 \in 1 .. Len(u) /\ u[at[i] + 1] = t[i]
  BY <1>1, <1>3
<1>6. \A k \in 1 .. Len(u) : g[k] \in X /\ u[k] = t[g[k]]
  <2> TAKE k \in 1 .. Len(u)
  <2> DEFINE i == g[k]
  <2>1. i \in X /\ k = at[i] + 1
    BY <1>4
  <2> HIDE DEF i
  <2>2. u[k] = t[i]
    BY <1>5, <2>1
  <2> QED
    BY <2>1, <2>2 DEF i
<1>7. ASSUME NEW j \in 1 .. Len(u), NEW k \in 1 .. Len(u), g[j] = g[k] PROVE j = k
  BY <1>4, <1>7, Zenon
<1>8. PickedBy(g, u, t, X)
  <2>0. ASSUME NEW i \in X PROVE \E k \in 1 .. Len(u) : u[k] = t[i]
    BY <1>5
  <2> QED
    BY <1>3, <1>6, <1>7, <2>0 DEF PickedBy
<1> QED
  BY <1>8 DEF u

-----------------------------------------------------------------------------
(***************************************************************************)
(* Lists of properties.                                                    *)
(***************************************************************************)
Those(ps, id) == {ps[i] : i \in {j \in 1 .. Len(ps) : ps[j].id = id}}

LEMMA ObjectSo ==
  ASSUME NEW ps
  PROVE  Object(ps) <=> /\ IsList(ps) /\ \A i \in 1 .. Len(ps) : PropOK(ps[i])
                        /\ \A i, j \in 1 .. Len(ps) :
                             ps[i].id = ps[j].id /\ ps[i].id \notin Repeated => i = j
<1>1. IsList(ps) => DOMAIN ps = 1 .. Len(ps)
  BY ListSeq
<1> QED
  BY <1>1, Zenon DEF Object

LEMMA Look ==
  ASSUME NEW ps, Object(ps), NEW id, NEW n, n = IsAPropertyOf(ps, id)
  PROVE  \/ n = 0 /\ ~Has(ps, id) /\ Those(ps, id) = {}
         \/ /\ n \in 1 .. Len(ps) /\ n # 0 /\ Has(ps, id) /\ ps[n].id = id
            /\ id \notin Repeated => Those(ps, id) = {ps[n]}
<1> DEFINE I == {i \in 1 .. Len(ps) : ps[i].id = id}
<1>1. /\ IsList(ps) /\ Len(ps) \in Nat
      /\ \A i, j \in 1 .. Len(ps) : ps[i].id = ps[j].id /\ ps[i].id \notin Repeated => i = j
  BY ObjectSo, ListSeq
<1>2. n = IF I # {} THEN Min(I) ELSE 0
  BY Zenon DEF IsAPropertyOf, SelectInSeq
<1>3. Has(ps, id) <=> n # 0
  BY Zenon DEF Has
<1>4. CASE I = {}
  <2>1. n = 0
    BY <1>2, <1>4, Zenon
  <2>2. Those(ps, id) = {}
    BY <1>4 DEF Those
  <2> QED
    BY <1>3, <2>1, <2>2
<1>5. CASE I # {}
  <2>1. n = Min(I)
    BY <1>2, <1>5, Zenon
  <2>2. I \subseteq Nat
    OBVIOUS
  <2>3. n \in I
    <3> HIDE DEF I
    <3> QED
      BY <1>5, <2>1, <2>2, MinIn
  <2>4. n \in 1 .. Len(ps) /\ n # 0 /\ ps[n].id = id
    BY <2>3
  <2>5. ASSUME id \notin Repeated PROVE Those(ps, id) = {ps[n]}
    <3>1. \A i \in I : i = n
      BY <1>1, <2>3, <2>4, <2>5
    <3>2. I = {n}
      BY <2>3, <3>1
    <3> QED
      BY <3>2 DEF Those
  <2> QED
    BY <1>3, <2>4, <2>5
<1> QED
  BY <1>4, <1>5

LEMMA ValueOf ==
  ASSUME NEW ps, Object(ps), NEW id, id \notin Repeated
  PROVE  /\ Has(ps, id) <=> Those(ps, id) # {}
         /\ Those(ps, id) = {} => /\ StringValue(ps, id) = <<>>
                                  /\ \A k : SubValue(ps, id, k) = <<>>
         /\ \A p : Those(ps, id) = {p} =>
              /\ p.id = id /\ PropOK(p)
              /\ StringValue(ps, id) = p.val
              /\ \A k : SubValue(ps, id, k) = IF k \in DOMAIN p.sub THEN p.sub[k] ELSE <<>>
         /\ Those(ps, id) = {} \/ \E p : Those(ps, id) = {p}
<1> DEFINE n == IsAPropertyOf(ps, id)
<1>0. \A i \in 1 .. Len(ps) : PropOK(ps[i])
  BY ObjectSo
<1>1. CASE n = 0 /\ ~Has(ps, id) /\ Those(ps, id) = {}
  BY <1>1, Zenon DEF StringValue, SubValue
<1>2. CASE n \in 1 .. Len(ps) /\ Has(ps, id) /\ ps[n].id = id /\ Those(ps, id) = {ps[n]}
  <2>1. StringValue(ps, id) = ps[n].val
    BY <1>2, Zenon DEF StringValue
  <2>2. \A k : SubValue(ps, id, k) = IF k \in DOMAIN ps[n].sub THEN ps[n].sub[k] ELSE <<>>
    BY <1>2, Zenon DEF SubValue
  <2>3. PropOK(ps[n])
    BY <1>0, <1>2
  <2> HIDE DEF n
  <2> DEFINE p == ps[n]
  <2>4. p.id = id /\ PropOK(p) /\ StringValue(ps, id) = p.val
        /\ (\A k : SubValue(ps, id, k) = IF k \in DOMAIN p.sub THEN p.sub[k] ELSE <<>>)
        /\ Those(ps, id) = {p} /\ Has(ps, id)
    BY <1>2, <2>1, <2>2, <2>3, Zenon
  <2> HIDE DEF p
  <2>5. \A q : {p} = {q} => q = p
    OBVIOUS
  <2>6. {p} # {}
    OBVIOUS
  <2> QED
    BY <2>4, <2>5, <2>6, Zenon
<1>3. \/ n = 0 /\ ~Has(ps, id) /\ Those(ps, id) = {}
      \/ n \in 1 .. Len(ps) /\ Has(ps, id) /\ ps[n].id = id /\ Those(ps, id) = {ps[n]}
  <2> HIDE DEF n
  <2>1. n = IsAPropertyOf(ps, id)
    BY DEF n
  <2> QED
    BY <2>1, Look, Zenon
<1> QED
  BY <1>1, <1>2, <1>3, Zenon

(* What is written depends on what the list has of each name.              *)
LEMMA SameValues ==
  ASSUME NEW ps, NEW qs, Object(ps), Object(qs), NEW id, id \notin Repeated,
         Those(ps, id) = Those(qs, id)
  PROVE  /\ StringValue(ps, id) = StringValue(qs, id)
         /\ \A k : SubValue(ps, id, k) = SubValue(qs, id, k)
<1>1. CASE Those(ps, id) = {}
  <2>1. StringValue(ps, id) = <<>> /\ \A k : SubValue(ps, id, k) = <<>>
    BY <1>1, ValueOf
  <2>2. StringValue(qs, id) = <<>> /\ \A k : SubValue(qs, id, k) = <<>>
    BY <1>1, ValueOf
  <2> QED
    BY <2>1, <2>2, Zenon
<1>2. CASE \E p : Those(ps, id) = {p}
  <2>1. PICK p : Those(ps, id) = {p}
    BY <1>2
  <2>2. /\ StringValue(ps, id) = p.val
        /\ \A k : SubValue(ps, id, k) = IF k \in DOMAIN p.sub THEN p.sub[k] ELSE <<>>
    BY <2>1, ValueOf
  <2>3. /\ StringValue(qs, id) = p.val
        /\ \A k : SubValue(qs, id, k) = IF k \in DOMAIN p.sub THEN p.sub[k] ELSE <<>>
    <3>1. Those(qs, id) = {p}
      BY <2>1
    <3> QED
      BY <3>1, ValueOf
  <2> QED
    BY <2>2, <2>3, Zenon
<1>3. Those(ps, id) = {} \/ \E p : Those(ps, id) = {p}
  BY ValueOf, Zenon
<1> QED
  BY <1>1, <1>2, <1>3

ReplacedSo(t, s, i, x) ==
  IsList(t) /\ Len(t) = Len(s) /\ \A j \in 1 .. Len(s) : t[j] = IF j = i THEN x ELSE s[j]

LEMMA Replaced ==
  ASSUME NEW s, IsList(s), NEW i, NEW x PROVE ReplacedSo([s EXCEPT ![i] = x], s, i, x)
<1> DEFINE t == [s EXCEPT ![i] = x]
           n == Len(s)
<1>1. n \in Nat /\ DOMAIN s = 1 .. n
  BY ListSeq
<1> HIDE DEF n
<1>2. DOMAIN t = 1 .. n /\ \A j \in 1 .. n : t[j] = IF j = i THEN x ELSE s[j]
  BY <1>1
<1>3. t = [j \in 1 .. n |-> t[j]]
  BY <1>1, <1>2
<1> HIDE DEF t
<1>4. IsList(t) /\ Len(t) = n
  BY <1>1, <1>3, FunctionList
<1>5. ReplacedSo(t, s, i, x)
  BY <1>2, <1>4 DEF ReplacedSo, n
<1> QED
  BY <1>5 DEF t

(* q is the only property of its name in qs, or one of several            *)
HasPut(ps, q, qs) ==
  /\ Object(qs)
  /\ \A id : id # q.id => Those(qs, id) = Those(ps, id)
  /\ q.id \notin Repeated => Those(qs, q.id) = {q}

LEMMA PutIn ==
  ASSUME NEW ps, Object(ps), NEW i \in 1 .. Len(ps), NEW q, PropOK(q), q.id = ps[i].id,
         NEW qs, ReplacedSo(qs, ps, i, q)
  PROVE  HasPut(ps, q, qs)
<1> DEFINE n == Len(ps)
<1>1. /\ IsList(ps) /\ n \in Nat /\ DOMAIN ps = 1 .. n /\ \A j \in 1 .. n : PropOK(ps[j])
      /\ \A j, k \in 1 .. n : ps[j].id = ps[k].id /\ ps[j].id \notin Repeated => j = k
  BY ObjectSo, ListSeq
<1> HIDE DEF n
<1>2. \A j \in 1 .. n : qs[j] = IF j = i THEN q ELSE ps[j]
  BY DEF n, ReplacedSo
<1>4. IsList(qs) /\ Len(qs) = n
  BY DEF n, ReplacedSo
<1>5. \A j \in 1 .. n : qs[j].id = ps[j].id /\ PropOK(qs[j])
  BY <1>1, <1>2
<1>6. Object(qs)
  <2>1. \A j, k \in 1 .. n : qs[j].id = qs[k].id /\ qs[j].id \notin Repeated => j = k
    BY <1>1, <1>5
  <2> QED
    BY <1>4, <1>5, <2>1, ObjectSo
<1>7. ASSUME NEW id, id # q.id PROVE Those(qs, id) = Those(ps, id)
  <2>1. \A j \in 1 .. n : ps[j].id = id => qs[j] = ps[j]
    BY <1>2, <1>7
  <2>2. \A j \in 1 .. n : qs[j].id = id <=> ps[j].id = id
    BY <1>5
  <2> QED
    BY <1>4, <2>1, <2>2 DEF Those, n
<1>8. ASSUME q.id \notin Repeated PROVE Those(qs, q.id) = {q}
  <2>1. i \in 1 .. n /\ qs[i] = q
    BY <1>2 DEF n
  <2>2. \A j \in 1 .. n : qs[j].id = q.id => j = i
    BY <1>1, <1>5, <1>8, <2>1
  <2>3. {j \in 1 .. n : qs[j].id = q.id} = {i}
    BY <2>1, <2>2
  <2> QED
    BY <1>4, <2>1, <2>3 DEF Those
<1> QED
  BY <1>6, <1>7, <1>8 DEF HasPut

ObjectOf(qs, ps, X) ==
  Object(qs) /\ \A id : Those(qs, id) = {ps[i] : i \in {j \in X : ps[j].id = id}}

LEMMA ObjectPicked ==
  ASSUME NEW ps, Object(ps), NEW X, X \subseteq 1 .. Len(ps), NEW g, NEW qs,
         PickedBy(g, qs, ps, X)
  PROVE  ObjectOf(qs, ps, X)
<1>1. /\ \A j \in 1 .. Len(ps) : PropOK(ps[j])
      /\ \A j, k \in 1 .. Len(ps) : ps[j].id = ps[k].id /\ ps[j].id \notin Repeated => j = k
  BY ObjectSo
<1>2. /\ IsList(qs)
      /\ \A k \in 1 .. Len(qs) : g[k] \in X /\ qs[k] = ps[g[k]]
      /\ \A j, k \in 1 .. Len(qs) : g[j] = g[k] => j = k
      /\ \A i \in X : \E k \in 1 .. Len(qs) : qs[k] = ps[i]
  BY DEF PickedBy
<1>3. Object(qs)
  <2>1. \A k \in 1 .. Len(qs) : PropOK(qs[k])
    BY <1>1, <1>2
  <2>2. ASSUME NEW j \in 1 .. Len(qs), NEW k \in 1 .. Len(qs), qs[j].id = qs[k].id,
               qs[j].id \notin Repeated
        PROVE  j = k
    <3>1. /\ g[j] \in 1 .. Len(ps) /\ g[k] \in 1 .. Len(ps)
          /\ qs[j] = ps[g[j]] /\ qs[k] = ps[g[k]]
      BY <1>2
    <3>2. g[j] = g[k]
      BY <1>1, <2>2, <3>1, Zenon
    <3> QED
      BY <1>2, <3>2, Zenon
  <2> QED
    BY <1>2, <2>1, <2>2, ObjectSo
<1>4. ASSUME NEW id PROVE Those(qs, id) = {ps[i] : i \in {j \in X : ps[j].id = id}}
  <2>1. ASSUME NEW k \in 1 .. Len(qs), qs[k].id = id
        PROVE  qs[k] \in {ps[i] : i \in {j \in X : ps[j].id = id}}
    BY <1>2, <2>1
  <2>2. ASSUME NEW i \in X, ps[i].id = id PROVE ps[i] \in Those(qs, id)
    <3>1. PICK k \in 1 .. Len(qs) : qs[k] = ps[i]
      BY <1>2
    <3> QED
      BY <2>2, <3>1 DEF Those
  <2> QED
    BY <2>1, <2>2 DEF Those
<1> QED
  BY <1>3, <1>4, Zenon DEF ObjectOf

LEMMA BothObjects ==
  ASSUME NEW s, NEW t, Object(s), Object(t),
         \A id : id \notin Repeated => Those(s, id) = {} \/ Those(t, id) = {}
  PROVE  Object(s \o t) /\ \A id : Those(s \o t, id) = Those(s, id) \cup Those(t, id)
<1> DEFINE u == s \o t
           n == Len(s)
           m == Len(t)
<1>1. /\ IsList(s) /\ \A i \in 1 .. n : PropOK(s[i])
      /\ \A i, j \in 1 .. n : s[i].id = s[j].id /\ s[i].id \notin Repeated => i = j
      /\ IsList(t) /\ \A i \in 1 .. m : PropOK(t[i])
      /\ \A i, j \in 1 .. m : t[i].id = t[j].id /\ t[i].id \notin Repeated => i = j
  BY ObjectSo
<1>2. /\ IsList(u) /\ Len(u) = n + m /\ n \in Nat /\ m \in Nat
      /\ \A i \in 1 .. n : u[i] = s[i]
      /\ \A i \in 1 .. m : u[n + i] = t[i]
  <2>1. JoinedSo(s, t, u)
    BY <1>1, Joined, Zenon
  <2>2. n \in Nat /\ m \in Nat
    BY <1>1, ListSeq
  <2> HIDE DEF u
  <2> QED
    BY <2>1, <2>2 DEF JoinedSo
<1> HIDE DEF u
<1>3. \A i \in 1 .. n : \A j \in 1 .. m : s[i].id = t[j].id => s[i].id \in Repeated
  <2> SUFFICES ASSUME NEW i \in 1 .. n, NEW j \in 1 .. m, s[i].id = t[j].id, s[i].id \notin Repeated
               PROVE  FALSE
    OBVIOUS
  <2>1. s[i] \in Those(s, s[i].id) /\ t[j] \in Those(t, s[i].id)
    BY DEF Those
  <2> QED
    BY <2>1
<1> HIDE DEF n, m
<1>4. \A i \in 1 .. n + m : \/ i \in 1 .. n /\ u[i] = s[i]
                            \/ i - n \in 1 .. m /\ u[i] = t[i - n]
  <2> TAKE i \in 1 .. n + m
  <2>1. CASE i <= n
    BY <1>2, <2>1
  <2>2. CASE i > n
    <3>1. i - n \in 1 .. m /\ n + (i - n) = i
      BY <1>2, <2>2
    <3> QED
      BY <1>2, <3>1
  <2> QED
    BY <1>2, <2>1, <2>2
<1>5. \A i \in 1 .. n + m : PropOK(u[i])
  BY <1>1, <1>4 DEF n, m
<1>6. ASSUME NEW i \in 1 .. n + m, NEW j \in 1 .. n + m, u[i].id = u[j].id, u[i].id \notin Repeated
      PROVE  i = j
  <2>1. CASE i \in 1 .. n /\ u[i] = s[i] /\ j \in 1 .. n /\ u[j] = s[j]
    BY <1>1, <1>6, <2>1 DEF n
  <2>2. CASE i - n \in 1 .. m /\ u[i] = t[i - n] /\ j - n \in 1 .. m /\ u[j] = t[j - n]
    <3>1. i - n = j - n
      BY <1>1, <1>6, <2>2 DEF m
    <3> QED
      BY <1>2, <3>1
  <2>3. CASE i \in 1 .. n /\ u[i] = s[i] /\ j - n \in 1 .. m /\ u[j] = t[j - n]
    BY <1>3, <1>6, <2>3, Zenon
  <2>4. CASE i - n \in 1 .. m /\ u[i] = t[i - n] /\ j \in 1 .. n /\ u[j] = s[j]
    BY <1>3, <1>6, <2>4, Zenon
  <2> QED
    BY <1>4, <2>1, <2>2, <2>3, <2>4
<1>7. Object(u)
  BY <1>2, <1>5, <1>6, ObjectSo
<1>8. ASSUME NEW id PROVE Those(u, id) = Those(s, id) \cup Those(t, id)
  <2>1. ASSUME NEW i \in 1 .. n + m, u[i].id = id PROVE u[i] \in Those(s, id) \cup Those(t, id)
    BY <1>4, <2>1 DEF Those, n, m
  <2>2. ASSUME NEW i \in 1 .. n, s[i].id = id PROVE s[i] \in Those(u, id)
    <3>1. i \in 1 .. Len(u) /\ u[i] = s[i]
      BY <1>2
    <3> QED
      BY <2>2, <3>1 DEF Those
  <2>3. ASSUME NEW i \in 1 .. m, t[i].id = id PROVE t[i] \in Those(u, id)
    <3>1. n + i \in 1 .. Len(u) /\ u[n + i] = t[i]
      BY <1>2
    <3> QED
      BY <2>3, <3>1 DEF Those
  <2>4. Those(u, id) \subseteq Those(s, id) \cup Those(t, id)
    BY <1>2, <2>1 DEF Those
  <2>5. Those(s, id) \subseteq Those(u, id) /\ Those(t, id) \subseteq Those(u, id)
    BY <2>2, <2>3 DEF Those, n, m
  <2> QED
    BY <2>4, <2>5
<1> QED
  BY <1>7, <1>8 DEF u

LEMMA PutLast ==
  ASSUME NEW ps, Object(ps), NEW p, PropOK(p), p.id \in Repeated \/ Those(ps, p.id) = {}
  PROVE  /\ Object(Append(ps, p))
         /\ \A id : id # p.id => Those(Append(ps, p), id) = Those(ps, id)
         /\ p.id \notin Repeated => Those(Append(ps, p), p.id) = {p}
<1> DEFINE t == <<p>>
           u == ps \o t
<1>1. Append(ps, p) = u
  <2>1. IsList(ps)
    BY ObjectSo
  <2>2. ps \in Seq(ToSet(ps) \cup {p}) /\ p \in ToSet(ps) \cup {p}
    BY <2>1, ListSeq, SeqMonotonic
  <2> QED
    BY <2>2, AppendIsConcat
<1>2. IsList(t) /\ Len(t) = 1 /\ t[1] = p
  BY SmallLists
<1> HIDE DEF t
<1>3. \A id : Those(t, id) = IF p.id = id THEN {p} ELSE {}
  BY <1>2 DEF Those
<1>4. Object(t)
  BY <1>2, ObjectSo
<1>5. \A id : id \notin Repeated => Those(ps, id) = {} \/ Those(t, id) = {}
  BY <1>3, Zenon
<1>6. Object(u) /\ \A id : Those(u, id) = Those(ps, id) \cup Those(t, id)
  BY <1>4, <1>5, BothObjects
<1> HIDE DEF u
<1> QED
  BY <1>1, <1>3, <1>6

LEMMA TakenOut ==
  ASSUME NEW ps, Object(ps), NEW i \in 1 .. Len(ps), NEW qs, qs = DelList(ps, i)
  PROVE  /\ Object(qs)
         /\ \A id : id # ps[i].id => Those(qs, id) = Those(ps, id)
         /\ ps[i].id \notin Repeated => Those(qs, ps[i].id) = {}
<1> DEFINE n == Len(ps)
           X == (1 .. n) \ {i}
<1>1. /\ IsList(ps) /\ n \in Nat
      /\ \A j, k \in 1 .. n : ps[j].id = ps[k].id /\ ps[j].id \notin Repeated => j = k
  BY ObjectSo, ListSeq
<1>2. \E g : PickedBy(g, qs, ps, X)
  <2>1. CASE i = n /\ n > 1
    <3> DEFINE a == SubSeq(ps, 2, n - 1)
               b == <<ps[1]>>
               g == [k \in 1 .. n - 1 |-> IF k <= n - 2 THEN k + 1 ELSE 1]
    <3>1. qs = a \o b
      BY <2>1, Zenon DEF DelList
    <3>2. IsList(a) /\ Len(a) = n - 2 /\ \A k \in 1 .. n - 2 : a[k] = ps[k + 1]
      <4>1. 2 \in Int /\ n - 1 \in Int /\ 1 <= 2 /\ n - 1 <= Len(ps)
        BY <1>1
      <4>2. /\ IsList(a) /\ Len(a) = IF 2 <= n - 1 THEN n - 1 - 2 + 1 ELSE 0
            /\ \A k \in 1 .. n - 1 - 2 + 1 : a[k] = ps[2 + k - 1]
        BY <1>1, <4>1, PartOf
      <4> HIDE DEF a
      <4>3. \A k \in 1 .. n - 2 : k \in 1 .. n - 1 - 2 + 1 /\ 2 + k - 1 = k + 1
        BY <1>1
      <4> QED
        BY <1>1, <2>1, <4>2, <4>3
    <3>3. IsList(b) /\ Len(b) = 1 /\ b[1] = ps[1]
      BY SmallLists
    <3> HIDE DEF a, b
    <3>4. /\ IsList(qs) /\ Len(qs) = n - 1
          /\ \A k \in 1 .. n - 2 : qs[k] = ps[k + 1]
          /\ qs[n - 1] = ps[1]
      <4>1. /\ IsList(qs) /\ Len(qs) = Len(a) + Len(b)
            /\ \A k \in 1 .. Len(a) : qs[k] = a[k]
            /\ \A k \in 1 .. Len(b) : qs[Len(a) + k] = b[k]
        <5>1. IsList(a) /\ IsList(b)
          BY <3>2, <3>3
        <5>2. JoinedSo(a, b, qs)
          BY <3>1, <5>1, Joined, Zenon
        <5> QED
          BY <5>2 DEF JoinedSo
      <4>2. Len(a) + Len(b) = n - 1 /\ Len(a) + 1 = n - 1 /\ 1 \in 1 .. Len(b)
        BY <1>1, <3>2, <3>3
      <4> QED
        BY <3>1, <3>2, <3>3, <4>1, <4>2
    <3>5. \A k \in 1 .. n - 1 : g[k] = (IF k <= n - 2 THEN k + 1 ELSE 1)
      OBVIOUS
    <3> HIDE DEF g, n
    <3>6. \A k \in 1 .. n - 1 : g[k] \in X /\ qs[k] = ps[g[k]]
      <4> TAKE k \in 1 .. n - 1
      <4>1. CASE k <= n - 2
        BY <1>1, <2>1, <3>4, <3>5, <4>1
      <4>2. CASE k = n - 1
        <5>1. g[k] = 1
          BY <1>1, <3>5, <4>2
        <5> QED
          BY <1>1, <2>1, <3>4, <4>2, <5>1
      <4> QED
        BY <1>1, <4>1, <4>2
    <3>7. \A j, k \in 1 .. n - 1 : g[j] = g[k] => j = k
      BY <1>1, <3>5
    <3>8. ASSUME NEW j \in X PROVE \E k \in 1 .. n - 1 : qs[k] = ps[j]
      <4>1. CASE j = 1
        BY <1>1, <2>1, <3>4, <4>1
      <4>2. CASE j # 1
        <5>1. j - 1 \in 1 .. n - 2 /\ j - 1 \in 1 .. n - 1 /\ j - 1 + 1 = j
          BY <1>1, <2>1, <4>2
        <5> QED
          BY <3>4, <5>1
      <4> QED
        BY <4>1, <4>2
    <3> HIDE DEF X
    <3>9. PickedBy(g, qs, ps, X)
      BY <3>4, <3>6, <3>7, <3>8 DEF PickedBy
    <3> QED
      BY <3>9
  <2>2. CASE ~(i = n /\ n > 1)
    <3> DEFINE a == SubSeq(ps, 1, i - 1)
               b == SubSeq(ps, i + 1, n)
               g == [k \in 1 .. n - 1 |-> IF k < i THEN k ELSE k + 1]
    <3>1. qs = a \o b
      BY <2>2, Zenon DEF DelList, RemoveAt
    <3>2. IsList(a) /\ Len(a) = i - 1 /\ \A k \in 1 .. i - 1 : a[k] = ps[k]
      <4>1. 1 \in Int /\ i - 1 \in Int /\ 1 <= 1 /\ i - 1 <= Len(ps)
        BY <1>1
      <4>2. /\ IsList(a) /\ Len(a) = IF 1 <= i - 1 THEN i - 1 - 1 + 1 ELSE 0
            /\ \A k \in 1 .. i - 1 - 1 + 1 : a[k] = ps[1 + k - 1]
        BY <1>1, <4>1, PartOf
      <4> HIDE DEF a
      <4>3. \A k \in 1 .. i - 1 : k \in 1 .. i - 1 - 1 + 1 /\ 1 + k - 1 = k
        BY <1>1
      <4> QED
        BY <1>1, <4>2, <4>3
    <3>3. IsList(b) /\ Len(b) = n - i /\ \A k \in 1 .. n - i : b[k] = ps[i + k]
      <4>1. i + 1 \in Int /\ n \in Int /\ 1 <= i + 1 /\ n <= Len(ps)
        BY <1>1
      <4>2. /\ IsList(b) /\ Len(b) = IF i + 1 <= n THEN n - (i + 1) + 1 ELSE 0
            /\ \A k \in 1 .. n - (i + 1) + 1 : b[k] = ps[i + 1 + k - 1]
        BY <1>1, <4>1, PartOf
      <4> HIDE DEF b
      <4>3. \A k \in 1 .. n - i : k \in 1 .. n - (i + 1) + 1 /\ i + 1 + k - 1 = i + k
        BY <1>1
      <4> QED
        BY <1>1, <4>2, <4>3
    <3> HIDE DEF a, b
    <3>4. /\ IsList(qs) /\ Len(qs) = n - 1
          /\ \A k \in 1 .. i - 1 : qs[k] = ps[k]
          /\ \A k \in 1 .. n - i : qs[i - 1 + k] = ps[i + k]
      <4>1. /\ IsList(qs) /\ Len(qs) = Len(a) + Len(b)
            /\ \A k \in 1 .. Len(a) : qs[k] = a[k]
            /\ \A k \in 1 .. Len(b) : qs[Len(a) + k] = b[k]
        <5>1. IsList(a) /\ IsList(b)
          BY <3>2, <3>3
        <5>2. JoinedSo(a, b, qs)
          BY <3>1, <5>1, Joined, Zenon
        <5> QED
          BY <5>2 DEF JoinedSo
      <4>2. Len(a) + Len(b) = n - 1
        BY <1>1, <3>2, <3>3
      <4> QED
        BY <3>1, <3>2, <3>3, <4>1, <4>2
    <3>5. \A k \in 1 .. n - 1 : g[k] = (IF k < i THEN k ELSE k + 1)
      OBVIOUS
    <3> HIDE DEF g, n
    <3>6. \A k \in 1 .. n - 1 : g[k] \in X /\ qs[k] = ps[g[k]]
      <4> TAKE k \in 1 .. n - 1
      <4>1. CASE k < i
        BY <1>1, <3>4, <3>5, <4>1
      <4>2. CASE k >= i
        <5>1. g[k] = k + 1 /\ k - i + 1 \in 1 .. n - i /\ i - 1 + (k - i + 1) = k
              /\ i + (k - i + 1) = k + 1
          BY <1>1, <3>5, <4>2 DEF n
        <5>2. qs[k] = ps[k + 1]
          BY <3>4, <5>1
        <5> QED
          BY <1>1, <4>2, <5>1, <5>2
      <4> QED
        BY <1>1, <4>1, <4>2 DEF n
    <3>7. \A j, k \in 1 .. n - 1 : g[j] = g[k] => j = k
      BY <1>1, <3>5 DEF n
    <3>8. ASSUME NEW j \in X PROVE \E k \in 1 .. n - 1 : qs[k] = ps[j]
      <4>1. CASE j < i
        <5>1. j \in 1 .. i - 1 /\ j \in 1 .. n - 1
          BY <1>1, <4>1 DEF n
        <5> QED
          BY <3>4, <5>1
      <4>2. CASE j > i
        <5>1. j - i \in 1 .. n - i /\ i - 1 + (j - i) = j - 1 /\ i + (j - i) = j
              /\ j - 1 \in 1 .. n - 1
          BY <1>1, <4>2 DEF n
        <5> QED
          BY <3>4, <5>1
      <4> QED
        BY <1>1, <4>1, <4>2 DEF n
    <3> HIDE DEF X
    <3>9. PickedBy(g, qs, ps, X)
      BY <3>4, <3>6, <3>7, <3>8 DEF PickedBy
    <3> QED
      BY <3>9
  <2> QED
    BY <2>1, <2>2
<1>3. Object(qs) /\ \A id : Those(qs, id) = {ps[j] : j \in {k \in X : ps[k].id = id}}
  <2>1. X \subseteq 1 .. Len(ps)
    OBVIOUS
  <2> HIDE DEF X
  <2>2. ObjectOf(qs, ps, X)
    BY <1>2, <2>1, ObjectPicked, Zenon
  <2> QED
    BY <2>2, Zenon DEF ObjectOf
<1>4. ASSUME NEW id, id # ps[i].id PROVE Those(qs, id) = Those(ps, id)
  <2>1. {k \in X : ps[k].id = id} = {k \in 1 .. n : ps[k].id = id}
    BY <1>4
  <2> QED
    BY <1>3, <2>1 DEF Those
<1>5. ASSUME ps[i].id \notin Repeated PROVE Those(qs, ps[i].id) = {}
  <2>1. {k \in X : ps[k].id = ps[i].id} = {}
    BY <1>1, <1>5
  <2> QED
    BY <1>3, <2>1
<1> QED
  BY <1>3, <1>4, <1>5

-----------------------------------------------------------------------------
(***************************************************************************)
(* What sets properties leaves the others, K among them, as they are.      *)
(***************************************************************************)
Vobject(v)    == DOMAIN v = {"ps", "dirty"} /\ Object(v.ps)
Does(v, w, K) == Vobject(w) /\ \A id \in K : Those(w.ps, id) = Those(v.ps, id)

LEMMA DoesNothing == ASSUME NEW v, Vobject(v), NEW K PROVE Does(v, v, K)
BY DEF Does

LEMMA DoesBoth ==
  ASSUME NEW u, NEW v, NEW w, NEW K, Does(u, v, K), Does(v, w, K) PROVE Does(u, w, K)
BY DEF Does

LEMMA DoesLess ==
  ASSUME NEW v, NEW w, NEW K, NEW J, Does(v, w, K), J \subseteq K PROVE Does(v, w, J)
BY DEF Does

LEMMA Made ==
  ASSUME NEW v, NEW qs, NEW d, Object(qs), NEW K, \A id \in K : Those(qs, id) = Those(v.ps, id)
  PROVE  Does(v, [ps |-> qs, dirty |-> d], K)
BY DEF Does, Vobject

LEMMA SubOfNew == \A id : SubOK(id, NoSub)
BY DEF SubOK, NoSub

LEMMA PropSo ==
  ASSUME NEW id, NEW s, NEW sub, ValOK(id, s), SubOK(id, sub)
  PROVE  PropOK(Prop(id, s, sub)) /\ Prop(id, s, sub).id = id
         /\ Prop(id, s, sub).val = s /\ Prop(id, s, sub).sub = sub
BY DEF PropOK, Prop

LEMMA ChangeAtSo ==
  ASSUME NEW v, Vobject(v), NEW i \in 1 .. Len(v.ps), NEW s, ValOK(v.ps[i].id, s),
         NEW K, v.ps[i].id \notin K
  PROVE  /\ Does(v, ChangeAt(v, i, s), K)
         /\ v.ps[i].id \notin Repeated =>
              StringValue(ChangeAt(v, i, s).ps, v.ps[i].id) = s
<1> DEFINE p == v.ps[i]
           q == [p EXCEPT !.val = s]
           qs == [v.ps EXCEPT ![i] = q]
           w == ChangeAt(v, i, s)
<1>1. Object(v.ps) /\ PropOK(p)
  BY ObjectSo DEF Vobject
<1>2. PropOK(q) /\ q.id = p.id /\ q.val = s
  <2>1. DOMAIN p = {"id", "val", "sub"} /\ SubOK(p.id, p.sub) /\ ValOK(p.id, s)
    BY <1>1 DEF PropOK
  <2>2. DOMAIN q = {"id", "val", "sub"} /\ q.id = p.id /\ q.val = s /\ q.sub = p.sub
    <3> HIDE DEF p
    <3> QED
      BY <2>1
  <2> HIDE DEF p, q
  <2> QED
    BY <2>1, <2>2 DEF PropOK
<1> HIDE DEF q
<1>3. /\ Object(qs)
      /\ \A id : id # q.id => Those(qs, id) = Those(v.ps, id)
      /\ q.id \notin Repeated => Those(qs, q.id) = {q}
  <2> DEFINE ps == v.ps
  <2>1. Object(ps) /\ i \in 1 .. Len(ps) /\ q.id = ps[i].id
    <3>1. Object(v.ps) /\ i \in 1 .. Len(v.ps)
      BY DEF Vobject
    <3> HIDE DEF qs
    <3> QED
      BY <1>2, <3>1
  <2>2. ReplacedSo(qs, ps, i, q)
    <3> HIDE DEF ps
    <3>1. IsList(ps)
      BY <2>1, ObjectSo
    <3> QED
      BY <3>1, Replaced, Zenon DEF ps
  <2> HIDE DEF ps, qs
  <2>3. HasPut(ps, q, qs)
    BY <1>2, <2>1, <2>2, PutIn, Zenon
  <2> QED
    BY <2>3 DEF ps, HasPut
<1>4. CASE p.val = s
  <2>1. w = v
    BY <1>4, Zenon DEF ChangeAt
  <2>2. ASSUME p.id \notin Repeated PROVE StringValue(v.ps, p.id) = s
    <3>1. p \in Those(v.ps, p.id)
      BY DEF Those
    <3> HIDE DEF p
    <3>2. PICK x : Those(v.ps, p.id) = {x}
      BY <1>1, <2>2, <3>1, ValueOf
    <3>3. Those(v.ps, p.id) = {p}
      BY <3>1, <3>2
    <3> QED
      BY <1>1, <1>4, <2>2, <3>3, ValueOf
  <2>3. Does(v, v, K)
    BY DoesNothing
  <2> HIDE DEF w, p
  <2>4. Does(v, w, K) /\ (p.id \notin Repeated => StringValue(w.ps, p.id) = s)
    BY <2>1, <2>2, <2>3
  <2> QED
    BY <2>4 DEF w, p
<1>5. CASE p.val # s
  <2>1. w = [ps |-> qs, dirty |-> TRUE]
    BY <1>5, Zenon DEF ChangeAt, q
  <2>2. Does(v, w, K)
    <3>1. \A id \in K : Those(qs, id) = Those(v.ps, id)
      BY <1>2, <1>3
    <3> HIDE DEF qs, w
    <3> QED
      BY <1>3, <2>1, <3>1, Made
  <2>3. ASSUME p.id \notin Repeated PROVE StringValue(qs, p.id) = s
    <3>1. Those(qs, p.id) = {q}
      BY <1>2, <1>3, <2>3
    <3> HIDE DEF p, qs
    <3> QED
      BY <1>2, <1>3, <2>3, <3>1, ValueOf
  <2>4. w.ps = qs
    <3> HIDE DEF qs, w
    <3> QED
      BY <2>1
  <2> HIDE DEF qs, w
  <2> QED
    BY <2>2, <2>3, <2>4 DEF w
<1> HIDE DEF w
<1> QED
  BY <1>4, <1>5 DEF w

LEMMA DelAtSo ==
  ASSUME NEW v, Vobject(v), NEW i \in 1 .. Len(v.ps), NEW K, v.ps[i].id \notin K
  PROVE  /\ Does(v, DelAt(v, i), K)
         /\ v.ps[i].id \notin Repeated => Those(DelAt(v, i).ps, v.ps[i].id) = {}
<1> DEFINE qs == DelList(v.ps, i)
           w == DelAt(v, i)
<1>1. w = [ps |-> qs, dirty |-> TRUE]
  BY DEF DelAt
<1>2. /\ Object(qs)
      /\ \A id : id # v.ps[i].id => Those(qs, id) = Those(v.ps, id)
      /\ v.ps[i].id \notin Repeated => Those(qs, v.ps[i].id) = {}
  <2>1. Object(v.ps)
    BY DEF Vobject
  <2> QED
    BY <2>1, TakenOut
<1> HIDE DEF qs, w
<1>3. Does(v, w, K)
  BY <1>1, <1>2, Made
<1>4. w.ps = qs
  BY <1>1
<1> QED
  BY <1>2, <1>3, <1>4 DEF w

LEMMA AddPropSo ==
  ASSUME NEW v, Vobject(v), NEW p, PropOK(p), p.id \in Repeated \/ Those(v.ps, p.id) = {},
         NEW K, p.id \notin K
  PROVE  /\ Does(v, AddProp(v, p), K)
         /\ p.id \notin Repeated => Those(AddProp(v, p).ps, p.id) = {p}
<1> DEFINE qs == Append(v.ps, p)
           w == AddProp(v, p)
<1>1. w = [ps |-> qs, dirty |-> TRUE]
  BY DEF AddProp
<1>2. /\ Object(qs)
      /\ \A id : id # p.id => Those(qs, id) = Those(v.ps, id)
      /\ p.id \notin Repeated => Those(qs, p.id) = {p}
  <2>1. Object(v.ps)
    BY DEF Vobject
  <2> QED
    BY <2>1, PutLast
<1> HIDE DEF qs, w
<1>3. Does(v, w, K)
  BY <1>1, <1>2, Made
<1>4. w.ps = qs
  BY <1>1
<1> QED
  BY <1>2, <1>3, <1>4 DEF w

LEMMA DelPropSo ==
  ASSUME NEW v, Vobject(v), NEW id, id \notin Repeated, NEW K, id \notin K
  PROVE  Does(v, DelProp(v, id), K) /\ Those(DelProp(v, id).ps, id) = {}
<1> DEFINE n == IsAPropertyOf(v.ps, id)
<1>1. \/ n = 0 /\ ~Has(v.ps, id) /\ Those(v.ps, id) = {}
      \/ n \in 1 .. Len(v.ps) /\ Has(v.ps, id) /\ v.ps[n].id = id
  <2> HIDE DEF n
  <2>1. n = IsAPropertyOf(v.ps, id) /\ Object(v.ps)
    BY DEF n, Vobject
  <2> QED
    BY <2>1, Look
<1>2. DelProp(v, id) = IF Has(v.ps, id) THEN DelAt(v, n) ELSE v
  BY Zenon DEF DelProp
<1> HIDE DEF n
<1>3. CASE ~Has(v.ps, id)
  BY <1>1, <1>2, <1>3, DoesNothing
<1>4. CASE Has(v.ps, id)
  <2>1. DelProp(v, id) = DelAt(v, n)
    BY <1>2, <1>4
  <2>2. n \in 1 .. Len(v.ps) /\ v.ps[n].id = id
    BY <1>1, <1>4
  <2> QED
    BY <2>1, <2>2, DelAtSo
<1> QED
  BY <1>3, <1>4

LEMMA SetStringSo ==
  ASSUME NEW v, Vobject(v), NEW id, id \notin Repeated, NEW s, ValOK(id, s),
         NEW K, id \notin K
  PROVE  Does(v, SetString(v, id, s), K) /\ StringValue(SetString(v, id, s).ps, id) = s
<1> DEFINE n == IsAPropertyOf(v.ps, id)
           w == SetString(v, id, s)
           p == Prop(id, s, NoSub)
<1>0. Object(v.ps)
  BY DEF Vobject
<1>1. \/ n = 0 /\ ~Has(v.ps, id) /\ Those(v.ps, id) = {}
      \/ n \in 1 .. Len(v.ps) /\ Has(v.ps, id) /\ v.ps[n].id = id
  <2> HIDE DEF n
  <2>1. n = IsAPropertyOf(v.ps, id)
    BY DEF n
  <2> QED
    BY <1>0, <2>1, Look
<1>2. CASE s = <<>>
  <2>1. w = DelProp(v, id)
    BY <1>2, Zenon DEF SetString
  <2> HIDE DEF w
  <2>2. Does(v, w, K) /\ Those(w.ps, id) = {}
    BY <2>1, DelPropSo
  <2>3. StringValue(w.ps, id) = <<>>
    BY <2>2, ValueOf DEF Does, Vobject
  <2> QED
    BY <1>2, <2>2, <2>3 DEF w
<1>3. CASE s # <<>> /\ Has(v.ps, id)
  <2>1. w = ChangeAt(v, n, s)
    BY <1>3, Zenon DEF SetString
  <2> HIDE DEF w, n
  <2>2. n \in 1 .. Len(v.ps) /\ v.ps[n].id = id
    BY <1>1, <1>3
  <2> QED
    BY <2>1, <2>2, ChangeAtSo DEF w
<1>4. CASE s # <<>> /\ ~Has(v.ps, id)
  <2>1. w = AddProp(v, p)
    BY <1>4, Zenon DEF SetString
  <2>2. PropOK(p) /\ p.id = id /\ p.val = s
    BY PropSo, SubOfNew
  <2> HIDE DEF w, n, p
  <2>3. Does(v, w, K) /\ Those(w.ps, id) = {p}
    BY <1>1, <1>4, <2>1, <2>2, AddPropSo
  <2>4. StringValue(w.ps, id) = s
    BY <2>2, <2>3, ValueOf DEF Does, Vobject
  <2> QED
    BY <2>3, <2>4 DEF w
<1> QED
  BY <1>2, <1>3, <1>4

(* The sub-properties in new replace those of the same names.              *)
LEMMA SetSubsSo ==
  ASSUME NEW v, Vobject(v), NEW id, id \notin Repeated, Has(v.ps, id),
         NEW new, SubOK(id, new), NEW K, id \notin K
  PROVE  /\ Does(v, SetSubs(v, id, new), K)
         /\ \A k : SubValue(SetSubs(v, id, new).ps, id, k) =
                   IF k \in DOMAIN new THEN new[k] ELSE SubValue(v.ps, id, k)
<1> DEFINE ps == v.ps
           i == IsAPropertyOf(ps, id)
           p == ps[i]
           old == p.sub
           Val(k) == IF k \in DOMAIN new THEN new[k] ELSE old[k]
           D == {j \in DOMAIN new \cup DOMAIN old : Val(j) # <<>>}
           sub == [k \in D |-> Val(k)]
           q == [p EXCEPT !.sub = sub]
           qs == [ps EXCEPT ![i] = q]
           w == SetSubs(v, id, new)
<1>1. w = IF sub = old THEN v ELSE [ps |-> qs, dirty |-> TRUE]
  BY Zenon DEF SetSubs
<1>2. Object(ps) /\ i \in 1 .. Len(ps) /\ p.id = id /\ Those(ps, id) = {p} /\ PropOK(p)
  <2>0. Object(ps)
    BY DEF Vobject
  <2>1. i \in 1 .. Len(ps) /\ p.id = id /\ Those(ps, id) = {p}
    <3>1. Has(ps, id)
      OBVIOUS
    <3>2. i = IsAPropertyOf(ps, id)
      OBVIOUS
    <3> HIDE DEF i, ps
    <3> QED
      BY <2>0, <3>1, <3>2, Look
  <2>2. PropOK(p)
    <3> HIDE DEF i, ps
    <3> QED
      BY <2>0, <2>1, ObjectSo
  <2> QED
    BY <2>0, <2>1, <2>2
<1> HIDE DEF i
<1>3. DOMAIN sub = D /\ \A k \in D : sub[k] = Val(k)
  BY Zenon
<1>4. \A k : k \in D <=> (k \in DOMAIN new \cup DOMAIN old /\ Val(k) # <<>>)
  BY Zenon
<1>5. \A k : /\ k \in DOMAIN new => Val(k) = new[k]
             /\ k \notin DOMAIN new => Val(k) = old[k]
  BY Zenon
<1>6. DOMAIN p = {"id", "val", "sub"} /\ ValOK(id, p.val) /\ SubOK(id, old)
  BY <1>2 DEF PropOK
<1> HIDE DEF Val, D, sub, p, qs
<1>7. SubOK(id, sub)
  <2>1. \A k \in DOMAIN new : IsList(new[k]) /\ (id = "N" => Word(new[k]))
    BY DEF SubOK
  <2>2. \A k \in DOMAIN old : IsList(old[k]) /\ (id = "N" => Word(old[k]))
    BY <1>6, Zenon DEF SubOK
  <2>3. \A k \in DOMAIN sub : IsList(sub[k]) /\ (id = "N" => Word(sub[k]))
    <3> TAKE k \in DOMAIN sub
    <3>1. k \in D /\ sub[k] = Val(k) /\ k \in DOMAIN new \cup DOMAIN old
      BY <1>3, <1>4, Zenon
    <3>2. CASE k \in DOMAIN new
      BY <1>5, <2>1, <3>1, <3>2, Zenon
    <3>3. CASE k \notin DOMAIN new
      <4>1. k \in DOMAIN old
        BY <3>1, <3>3
      <4> QED
        BY <1>5, <2>2, <3>1, <3>3, <4>1, Zenon
    <3> QED
      BY <3>2, <3>3
  <2> QED
    BY <2>3 DEF SubOK
<1>8. q.id = id /\ q.sub = sub /\ PropOK(q)
  <2>1. DOMAIN q = {"id", "val", "sub"} /\ q.id = p.id /\ q.val = p.val /\ q.sub = sub
    BY <1>6
  <2> HIDE DEF q
  <2> QED
    BY <1>2, <1>6, <1>7, <2>1 DEF PropOK
<1> HIDE DEF q, ps, w
<1>9. /\ Object(qs) /\ \A j \in K : Those(qs, j) = Those(ps, j)
      /\ Those(qs, id) = {q}
  <2>1. IsList(ps)
    BY <1>2, ObjectSo
  <2>2. ReplacedSo(qs, ps, i, q)
    BY <2>1, Replaced, Zenon DEF qs
  <2>3. q.id = ps[i].id /\ Object(ps) /\ i \in 1 .. Len(ps) /\ PropOK(q)
    BY <1>2, <1>8 DEF p
  <2>4. HasPut(ps, q, qs)
    BY <2>2, <2>3, PutIn, Zenon
  <2> QED
    BY <1>8, <2>4 DEF HasPut
<1>10. Does(v, w, K) /\ \E x : Those(w.ps, id) = {x} /\ x.sub = sub
  <2>1. CASE sub = old
    <3>1. w = v
      BY <1>1, <2>1
    <3>2. Does(v, v, K)
      BY DoesNothing
    <3>3. Those(w.ps, id) = {p} /\ p.sub = sub
      BY <1>2, <2>1, <3>1 DEF ps
    <3> QED
      BY <3>1, <3>2, <3>3
  <2>2. CASE sub # old
    <3>1. w = [ps |-> qs, dirty |-> TRUE]
      BY <1>1, <2>2
    <3>2. Does(v, w, K)
      BY <1>9, <3>1, Made DEF ps
    <3>3. w.ps = qs
      BY <3>1
    <3> QED
      BY <1>8, <1>9, <3>2, <3>3
  <2> QED
    BY <2>1, <2>2
<1>11. PICK x : Those(w.ps, id) = {x} /\ x.sub = sub
  BY <1>10
<1>12. \A k : SubValue(w.ps, id, k) = IF k \in DOMAIN sub THEN sub[k] ELSE <<>>
  <2>1. Object(w.ps)
    BY <1>10 DEF Does, Vobject
  <2>2. \A k : SubValue(w.ps, id, k) = IF k \in DOMAIN x.sub THEN x.sub[k] ELSE <<>>
    BY <1>11, <2>1, ValueOf
  <2> QED
    BY <1>11, <2>2
<1>13. \A k : SubValue(ps, id, k) = IF k \in DOMAIN old THEN old[k] ELSE <<>>
  BY <1>2, ValueOf
<1>14. ASSUME NEW k
       PROVE  SubValue(w.ps, id, k) = IF k \in DOMAIN new THEN new[k] ELSE SubValue(ps, id, k)
  <2>1. CASE k \in D
    <3>1. SubValue(w.ps, id, k) = Val(k)
      BY <1>3, <1>12, <2>1, Zenon
    <3>2. k \notin DOMAIN new => SubValue(ps, id, k) = old[k]
      <4>1. k \notin DOMAIN new => k \in DOMAIN old
        BY <1>4, <2>1
      <4> QED
        BY <1>13, <4>1, Zenon
    <3> QED
      BY <1>5, <3>1, <3>2, Zenon
  <2>2. CASE k \notin D
    <3>1. SubValue(w.ps, id, k) = <<>>
      BY <1>3, <1>12, <2>2, Zenon
    <3>2. CASE k \in DOMAIN new
      <4>1. k \in DOMAIN new \cup DOMAIN old
        BY <3>2
      <4>2. Val(k) = <<>> /\ Val(k) = new[k]
        BY <1>4, <1>5, <2>2, <3>2, <4>1, Zenon
      <4> QED
        BY <3>1, <3>2, <4>2, Zenon
    <3>3. CASE k \notin DOMAIN new /\ k \in DOMAIN old
      <4>1. k \in DOMAIN new \cup DOMAIN old
        BY <3>3
      <4>2. Val(k) = <<>> /\ Val(k) = old[k]
        BY <1>4, <1>5, <2>2, <3>3, <4>1, Zenon
      <4>3. SubValue(ps, id, k) = <<>>
        BY <1>13, <3>3, <4>2, Zenon
      <4> QED
        BY <3>1, <3>3, <4>3, Zenon
    <3>4. CASE k \notin DOMAIN new /\ k \notin DOMAIN old
      BY <1>13, <3>1, <3>4, Zenon
    <3> QED
      BY <3>2, <3>3, <3>4
  <2> QED
    BY <2>1, <2>2
<1> QED
  BY <1>10, <1>14 DEF w, ps

LEMMA SetPropSo ==
  ASSUME NEW v, Vobject(v), NEW id, id \notin Repeated, ValOK(id, <<>>), NEW K, id \notin K
  PROVE  /\ Does(v, SetProp(v, id), K) /\ Has(SetProp(v, id).ps, id)
         /\ \A k : SubValue(SetProp(v, id).ps, id, k) = SubValue(v.ps, id, k)
<1> DEFINE w == SetProp(v, id)
           p == Prop(id, <<>>, NoSub)
<1>0. Object(v.ps)
  BY DEF Vobject
<1>1. CASE Has(v.ps, id)
  <2>1. w = v
    BY <1>1, Zenon DEF SetProp
  <2>2. Does(v, v, K)
    BY DoesNothing
  <2> HIDE DEF w
  <2> QED
    BY <1>1, <2>1, <2>2 DEF w
<1>2. CASE ~Has(v.ps, id)
  <2>1. w = AddProp(v, p)
    BY <1>2, Zenon DEF SetProp
  <2>2. PropOK(p) /\ p.id = id /\ p.sub = NoSub
    BY PropSo, SubOfNew
  <2>3. Those(v.ps, id) = {}
    BY <1>0, <1>2, ValueOf
  <2> HIDE DEF w, p
  <2>4. Does(v, w, K) /\ Those(w.ps, id) = {p}
    BY <2>1, <2>2, <2>3, AddPropSo
  <2>5. Object(w.ps)
    BY <2>4 DEF Does, Vobject
  <2>6. Has(w.ps, id) /\ \A k : SubValue(w.ps, id, k) = <<>>
    <3>1. \A k : k \notin DOMAIN p.sub
      BY <2>2 DEF NoSub
    <3>2. \A k : SubValue(w.ps, id, k) = IF k \in DOMAIN p.sub THEN p.sub[k] ELSE <<>>
      BY <2>4, <2>5, ValueOf
    <3>3. Has(w.ps, id)
      BY <2>4, <2>5, ValueOf
    <3> QED
      BY <3>1, <3>2, <3>3, Zenon
  <2>7. \A k : SubValue(v.ps, id, k) = <<>>
    BY <1>0, <2>3, ValueOf
  <2> QED
    BY <2>4, <2>6, <2>7 DEF w
<1> QED
  BY <1>1, <1>2

LEMMA ValPut ==
  ASSUME NEW ps, Object(ps), NEW i \in 1 .. Len(ps), NEW s, ValOK(ps[i].id, s)
  PROVE  HasPut(ps, [ps[i] EXCEPT !.val = s], [ps EXCEPT ![i].val = s])
<1> DEFINE p == ps[i]
           q == [p EXCEPT !.val = s]
           qs == [ps EXCEPT ![i] = q]
<1>1. PropOK(p) /\ IsList(ps)
  BY ObjectSo
<1>2. PropOK(q) /\ q.id = p.id
  <2>1. DOMAIN p = {"id", "val", "sub"} /\ SubOK(p.id, p.sub) /\ ValOK(p.id, s)
    BY <1>1 DEF PropOK
  <2>2. DOMAIN q = {"id", "val", "sub"} /\ q.id = p.id /\ q.val = s /\ q.sub = p.sub
    <3> HIDE DEF p
    <3> QED
      BY <2>1
  <2> HIDE DEF p, q
  <2> QED
    BY <2>1, <2>2 DEF PropOK
<1> HIDE DEF q
<1>3. ReplacedSo(qs, ps, i, q)
  BY <1>1, Replaced, Zenon
<1> HIDE DEF qs
<1>4. HasPut(ps, q, qs)
  BY <1>2, <1>3, PutIn, Zenon
<1> QED
  BY <1>4 DEF q, qs

LEMMA SetLongSo ==
  ASSUME NEW v, Vobject(v), NEW id, id \notin Repeated, NEW n, ValOK(id, <<n>>),
         NEW K, id \notin K
  PROVE  Does(v, SetLong(v, id, n), K)
<1> DEFINE ps == v.ps
           i == IsAPropertyOf(ps, id)
           s == <<n>>
           p == Prop(id, s, NoSub)
           q == [ps[i] EXCEPT !.val = s]
           qs == IF Has(ps, id) THEN [ps EXCEPT ![i].val = s] ELSE Append(ps, p)
           w == SetLong(v, id, n)
<1>1. w = [v EXCEPT !.ps = qs]
  BY DEF SetLong
<1>2. Object(ps)
  BY DEF Vobject
<1>3. Object(qs) /\ \A j \in K : Those(qs, j) = Those(ps, j)
  <2>1. CASE Has(ps, id)
    <3>1. i \in 1 .. Len(ps) /\ ps[i].id = id
      <4>1. i = IsAPropertyOf(ps, id)
        OBVIOUS
      <4> HIDE DEF i, ps
      <4> QED
        BY <1>2, <2>1, <4>1, Look
    <3>2. qs = [ps EXCEPT ![i].val = s]
      BY <2>1, Zenon
    <3>3. HasPut(ps, q, [ps EXCEPT ![i].val = s])
      <4> HIDE DEF i, ps, s
      <4>1. ValOK(ps[i].id, s)
        BY <3>1 DEF s
      <4> QED
        BY <1>2, <3>1, <4>1, ValPut, Zenon
    <3>4. PropOK(ps[i]) /\ q.id = ps[i].id
      <4>1. PropOK(ps[i])
        <5> HIDE DEF i, ps
        <5> QED
          BY <1>2, <3>1, ObjectSo
      <4> DEFINE x == ps[i]
      <4> HIDE DEF x
      <4>2. PropOK(x) => [x EXCEPT !.val = s].id = x.id
        BY DEF PropOK
      <4> QED
        BY <4>1, <4>2 DEF x
    <3> HIDE DEF qs, q, i, ps
    <3>5. HasPut(ps, q, qs) /\ q.id = id
      BY <3>1, <3>2, <3>3, <3>4, Zenon
    <3> QED
      BY <3>5 DEF HasPut
  <2>2. CASE ~Has(ps, id)
    <3>1. qs = Append(ps, p)
      BY <2>2, Zenon
    <3>2. PropOK(p) /\ p.id = id
      BY PropSo, SubOfNew
    <3>3. Those(ps, id) = {}
      BY <1>2, <2>2, ValueOf
    <3> HIDE DEF qs, p, ps
    <3> QED
      BY <1>2, <3>1, <3>2, <3>3, PutLast
  <2> QED
    BY <2>1, <2>2
<1> HIDE DEF qs, w
<1>4. DOMAIN w = {"ps", "dirty"} /\ w.ps = qs
  BY <1>1 DEF Vobject
<1>5. Does(v, w, K)
  BY <1>3, <1>4 DEF Does, Vobject
<1> QED
  BY <1>5 DEF w

(* a value of another property than those that are texts, rules or         *)
(* categories is any list                                                  *)
Particular == {"SUMMARY", "NOTE", "DESCRIPTION", "RRULE", "CATEGORIES"}
LEMMA AnyVal == ASSUME NEW id, id \notin Particular, NEW s, IsList(s) PROVE ValOK(id, s)
BY DEF ValOK, Particular

LEMMA SetTelSo ==
  ASSUME NEW v, Vobject(v), NEW type, NEW s, IsList(s), NEW K, "TEL" \notin K
  PROVE  Does(v, SetTel(v, type, s), K)
<1> DEFINE i == TelWith(v.ps, type)
           I == {j \in 1 .. Len(v.ps) : v.ps[j].id = "TEL" /\ type \in DOMAIN v.ps[j].sub}
           p == Prop("TEL", s, [k \in {type} |-> <<>>])
           w == SetTel(v, type, s)
<1>1. i = 0 \/ (i \in 1 .. Len(v.ps) /\ v.ps[i].id = "TEL")
  <2>1. i = IF I # {} THEN Min(I) ELSE 0
    BY Zenon DEF TelWith, SelectInSeq
  <2>2. I \subseteq Nat
    OBVIOUS
  <2>3. I # {} => Min(I) \in I
    <3> HIDE DEF I
    <3> QED
      BY <2>2, MinIn
  <2>4. CASE I # {}
    <3>1. i \in I
      BY <2>1, <2>3, <2>4, Zenon
    <3> QED
      BY <3>1, Zenon
  <2>5. CASE I = {}
    BY <2>1, <2>5, Zenon
  <2> QED
    BY <2>4, <2>5
<1>2. ValOK("TEL", s) /\ "TEL" \in Repeated
  BY AnyVal DEF Particular, Repeated
<1>3. PropOK(p) /\ p.id = "TEL"
  <2>1. SubOK("TEL", [k \in {type} |-> <<>>])
    BY SmallLists DEF SubOK
  <2> QED
    BY <1>2, <2>1, PropSo
<1>4. w = CASE i # 0 /\ s # <<>> -> ChangeAt(v, i, s)
            [] i # 0 /\ s = <<>> -> DelAt(v, i)
            [] i = 0 /\ s = <<>> -> v
            [] OTHER             -> AddProp(v, p)
  BY DEF SetTel
<1> HIDE DEF i, p, w
<1>5. CASE i # 0 /\ s # <<>>
  <2>1. w = ChangeAt(v, i, s)
    BY <1>4, <1>5
  <2> QED
    BY <1>1, <1>2, <1>5, <2>1, ChangeAtSo DEF w
<1>6. CASE i # 0 /\ s = <<>>
  <2>1. w = DelAt(v, i)
    BY <1>4, <1>6
  <2> QED
    BY <1>1, <1>6, <2>1, DelAtSo DEF w
<1>7. CASE i = 0 /\ s = <<>>
  <2>1. w = v
    BY <1>4, <1>7
  <2> QED
    BY <2>1, DoesNothing DEF w
<1>8. CASE i = 0 /\ s # <<>>
  <2>1. w = AddProp(v, p)
    BY <1>4, <1>8
  <2> QED
    BY <1>2, <1>3, <2>1, AddPropSo DEF w
<1> QED
  BY <1>5, <1>6, <1>7, <1>8

LEMMA PlacesSo ==
  ASSUME NEW ps, Object(ps), NEW id
  PROVE  /\ IsList(Places(ps, id))
         /\ \A n \in 1 .. Len(Places(ps, id)) :
              Places(ps, id)[n] \in 1 .. Len(ps) /\ ps[Places(ps, id)[n]].id = id
<1> DEFINE m == Len(ps)
           X == {i \in 1 .. m : ps[i].id = id}
           t == [i \in 1 .. m |-> i]
           s == [i \in 1 .. m |-> IF ps[i].id = id THEN <<i>> ELSE <<>>]
           u == Places(ps, id)
<1>1. m \in Nat /\ DOMAIN ps = 1 .. m
  BY ObjectSo, ListSeq
<1>2. u = FlattenSeq(s)
  BY <1>1, Zenon DEF Places
<1>3. IsList(t) /\ Len(t) = m /\ \A i \in 1 .. m : t[i] = i
  <2> HIDE DEF m
  <2>1. t = [i \in 1 .. m |-> t[i]] /\ \A i \in 1 .. m : t[i] = i
    OBVIOUS
  <2> HIDE DEF t
  <2> QED
    BY <1>1, <2>1, FunctionList
<1>4. IsList(s) /\ Len(s) = m /\ \A i \in 1 .. m : s[i] = IF i \in X THEN <<t[i]>> ELSE <<>>
  <2>1. s = [i \in 1 .. m |-> s[i]]
    BY Zenon
  <2>2. \A i \in 1 .. m : s[i] = IF i \in X THEN <<t[i]>> ELSE <<>>
    <3> TAKE i \in 1 .. m
    <3>1. s[i] = IF ps[i].id = id THEN <<i>> ELSE <<>>
      BY Zenon
    <3>2. i \in X <=> ps[i].id = id
      OBVIOUS
    <3>3. t[i] = i
      BY <1>3
    <3> HIDE DEF s, t, X
    <3> QED
      BY <3>1, <3>2, <3>3, Zenon
  <2> HIDE DEF s, m
  <2>3. IsList(s) /\ Len(s) = m
    BY <1>1, <2>1, FunctionList
  <2> QED
    BY <2>2, <2>3
<1>5. X \subseteq 1 .. m
  OBVIOUS
<1> HIDE DEF s, t, m, u
<1>6. PICK g : PickedBy(g, FlattenSeq(s), t, X)
  <2> HIDE DEF X
  <2> QED
    BY <1>3, <1>4, <1>5, Picked
<1>7. IsList(u) /\ \A n \in 1 .. Len(u) : u[n] \in X
  <2>1. IsList(u) /\ \A n \in 1 .. Len(u) : g[n] \in X /\ u[n] = t[g[n]]
    BY <1>2, <1>6 DEF PickedBy
  <2> QED
    BY <1>3, <1>5, <2>1
<1>8. \A n \in 1 .. Len(u) : u[n] \in 1 .. m /\ ps[u[n]].id = id
  BY <1>7
<1> QED
  BY <1>7, <1>8 DEF u, m

LEMMA SetEmailSo ==
  ASSUME NEW v, Vobject(v), NEW n \in Nat \ {0}, NEW s, IsList(s), NEW K, "EMAIL" \notin K
  PROVE  Does(v, SetEmail(v, n, s), K)
<1> DEFINE at == Places(v.ps, "EMAIL")
           p == Prop("EMAIL", s, [INTERNET |-> <<>>])
           w == SetEmail(v, n, s)
<1>1. Len(at) \in Nat /\ \A k \in 1 .. Len(at) : at[k] \in 1 .. Len(v.ps) /\ v.ps[at[k]].id = "EMAIL"
  <2>1. Object(v.ps)
    BY DEF Vobject
  <2>2. IsList(at)
    BY <2>1, PlacesSo
  <2> QED
    BY <2>1, <2>2, PlacesSo, ListSeq
<1>2. ValOK("EMAIL", s) /\ "EMAIL" \in Repeated
  BY AnyVal DEF Particular, Repeated
<1>3. PropOK(p) /\ p.id = "EMAIL"
  <2>1. SubOK("EMAIL", [INTERNET |-> <<>>])
    BY SmallLists DEF SubOK
  <2> QED
    BY <1>2, <2>1, PropSo
<1>4. w = CASE n <= Len(at) /\ s # <<>> -> ChangeAt(v, at[n], s)
            [] n <= Len(at) /\ s = <<>> -> DelAt(v, at[n])
            [] n > Len(at) /\ s = <<>>  -> v
            [] OTHER                    -> AddProp(v, p)
  BY DEF SetEmail
<1> HIDE DEF at, p, w
<1> DEFINE i == at[n]
<1>5. n <= Len(at) => i \in 1 .. Len(v.ps) /\ v.ps[i].id = "EMAIL"
  BY <1>1
<1>6. CASE n <= Len(at) /\ s # <<>>
  <2>1. w = ChangeAt(v, i, s)
    BY <1>4, <1>6
  <2> HIDE DEF i
  <2> QED
    BY <1>2, <1>5, <1>6, <2>1, ChangeAtSo DEF w
<1>7. CASE n <= Len(at) /\ s = <<>>
  <2>1. w = DelAt(v, i)
    BY <1>4, <1>7
  <2> HIDE DEF i
  <2> QED
    BY <1>5, <1>7, <2>1, DelAtSo DEF w
<1>8. CASE n > Len(at) /\ s = <<>>
  <2>1. w = v
    BY <1>1, <1>4, <1>8
  <2> QED
    BY <2>1, DoesNothing DEF w
<1>9. CASE n > Len(at) /\ s # <<>>
  <2>1. w = AddProp(v, p)
    BY <1>1, <1>4, <1>9
  <2> QED
    BY <1>2, <1>3, <2>1, AddPropSo DEF w
<1> QED
  BY <1>1, <1>6, <1>7, <1>8, <1>9

-----------------------------------------------------------------------------
(***************************************************************************)
(* Strings.                                                                *)
(***************************************************************************)

LEMMA CRLFSo ==
  ASSUME NEW s, IsList(s) PROVE IsList(SubstCRLF(s)) /\ OneLine(SubstCRLF(s))
<1> DEFINE n == Len(s)
           t == [i \in DOMAIN s |->
                  IF s[i] # "CR" /\ ~(i < Len(s) /\ s[i + 1] = "NL") THEN <<s[i]>> ELSE <<>>]
<1>1. n \in Nat /\ DOMAIN s = 1 .. n
  BY ListSeq
<1> HIDE DEF n
<1>2. t = [i \in 1 .. n |-> t[i]]
  BY <1>1, Zenon
<1>3. \A i \in 1 .. n : IsList(t[i]) /\ "CR" \notin ToSet(t[i])
  <2> TAKE i \in 1 .. n
  <2>1. t[i] = <<>> \/ (t[i] = <<s[i]>> /\ s[i] # "CR")
    BY <1>1, Zenon
  <2> HIDE DEF t
  <2> QED
    BY <2>1, SmallLists
<1>4. SubstCRLF(s) = FlattenSeq(t)
  BY Zenon DEF SubstCRLF
<1> HIDE DEF t
<1>5. IsList(t) /\ Len(t) = n
  BY <1>1, <1>2, FunctionList
<1>6. IsList(FlattenSeq(t)) /\ ToSet(FlattenSeq(t)) = UNION {ToSet(t[i]) : i \in 1 .. n}
  BY <1>3, <1>5, Flattened
<1>7. "CR" \notin UNION {ToSet(t[i]) : i \in 1 .. n}
  BY <1>3
<1> QED
  BY <1>4, <1>6, <1>7 DEF OneLine

LEMMA NLSo == ASSUME NEW s, IsList(s) PROVE IsList(SubstNL(s))
<1> DEFINE n == Len(s)
           t == [i \in DOMAIN s |->
                  IF s[i] = "NL" /\ ~(i > 1 /\ s[i - 1] = "CR") THEN <<"CR", "NL">> ELSE <<s[i]>>]
<1>1. n \in Nat /\ DOMAIN s = 1 .. n
  BY ListSeq
<1> HIDE DEF n
<1>2. t = [i \in 1 .. n |-> t[i]]
  BY <1>1, Zenon
<1>3. \A i \in 1 .. n : IsList(t[i])
  <2> TAKE i \in 1 .. n
  <2>1. t[i] = <<"CR", "NL">> \/ t[i] = <<s[i]>>
    BY <1>1, Zenon
  <2>2. IsList(<<"CR", "NL">>)
    <3>1. <<"CR", "NL">> \in Seq({"CR", "NL"})
      OBVIOUS
    <3> QED
      BY <3>1, SeqList
  <2> HIDE DEF t
  <2> QED
    BY <2>1, <2>2, SmallLists
<1>4. SubstNL(s) = FlattenSeq(t)
  BY Zenon DEF SubstNL
<1> HIDE DEF t
<1>5. IsList(t) /\ Len(t) = n
  BY <1>1, <1>2, FunctionList
<1> QED
  BY <1>3, <1>4, <1>5, Flattened

LEMMA FindSo ==
  ASSUME NEW s, IsList(s), NEW t, NEW n, n = Find(s, t)
  PROVE  \/ n = 0 /\ \A i \in 1 .. Len(s) : ~OccursAt(s, t, i)
         \/ /\ n \in 1 .. Len(s) /\ n # 0 /\ OccursAt(s, t, n)
            /\ \A i \in 1 .. Len(s) : OccursAt(s, t, i) => n <= i
<1> DEFINE m == Len(s)
           f == [i \in 1 .. m |-> i]
           J == {i \in 1 .. Len(f) : OccursAt(s, t, f[i])}
           I == {i \in 1 .. m : OccursAt(s, t, i)}
<1>1. m \in Nat
  BY ListSeq
<1>2. n = IF J # {} THEN Min(J) ELSE 0
  BY Zenon DEF Find, SelectInSeq
<1>3. Len(f) = m /\ \A i \in 1 .. m : f[i] = i
  <2> HIDE DEF m
  <2>1. f = [i \in 1 .. m |-> f[i]] /\ \A i \in 1 .. m : f[i] = i
    BY Zenon
  <2> HIDE DEF f
  <2> QED
    BY <1>1, <2>1, FunctionList
<1> HIDE DEF f, m
<1>4. J = I
  <2>1. \A i \in 1 .. m : f[i] = i /\ Len(f) = m
    BY <1>3
  <2> QED
    BY <1>3, <2>1, Zenon
<1>5. n = IF I # {} THEN Min(I) ELSE 0
  BY <1>2, <1>4, Zenon
<1>6. I \subseteq Nat /\ \A i : i \in I <=> (i \in 1 .. m /\ OccursAt(s, t, i))
  OBVIOUS
<1> HIDE DEF I, J
<1>7. CASE I = {}
  <2>1. n = 0
    BY <1>5, <1>7, Zenon
  <2> QED
    BY <1>6, <1>7, <2>1 DEF m
<1>8. CASE I # {}
  <2>1. n = Min(I)
    BY <1>5, <1>8, Zenon
  <2>2. n \in I /\ \A i \in I : n <= i
    BY <1>6, <1>8, <2>1, MinIn
  <2>3. n \in 1 .. m /\ n # 0 /\ OccursAt(s, t, n)
    BY <1>6, <2>2
  <2> QED
    BY <1>6, <2>2, <2>3 DEF m
<1> QED
  BY <1>7, <1>8

LEMMA JoinedLists ==
  ASSUME NEW s, NEW t, IsList(s), IsList(t)
  PROVE  IsList(s \o t) /\ ToSet(s \o t) = ToSet(s) \cup ToSet(t)
<1> DEFINE u == s \o t
<1>1. JoinedSo(s, t, u)
  BY Joined, Zenon
<1> HIDE DEF u
<1>2. IsList(u) /\ ToSet(u) = ToSet(s) \cup ToSet(t)
  BY <1>1 DEF JoinedSo
<1> QED
  BY <1>2 DEF u

LEMMA BeforeSo ==
  ASSUME NEW s, IsList(s), NEW t
  PROVE  IsList(Before(s, t)) /\ ToSet(Before(s, t)) \subseteq ToSet(s)
<1> DEFINE n == Find(s, t)
<1>1. Before(s, t) = IF n = 0 THEN s ELSE SubSeq(s, 1, n - 1)
  BY Zenon DEF Before
<1>2. n = 0 \/ n \in 1 .. Len(s)
  BY FindSo
<1> HIDE DEF n
<1>3. CASE n = 0
  BY <1>1, <1>3
<1>4. CASE n \in 1 .. Len(s)
  <2>0. Len(s) \in Nat
    BY ListSeq
  <2> DEFINE k == n - 1
  <2>1. 1 \in Int /\ k \in Int /\ 1 <= 1 /\ k <= Len(s) /\ n # 0
    BY <1>4, <2>0
  <2>2. Before(s, t) = SubSeq(s, 1, k)
    BY <1>1, <2>1
  <2> HIDE DEF k
  <2> QED
    BY <2>1, <2>2, PartOf
<1> QED
  BY <1>2, <1>3, <1>4

LEMMA AfterSo ==
  ASSUME NEW s, IsList(s), NEW t, IsList(t)
  PROVE  IsList(After(s, t)) /\ ToSet(After(s, t)) \subseteq ToSet(s)
<1> DEFINE n == Find(s, t)
<1>1. After(s, t) = IF n = 0 THEN <<>> ELSE SubSeq(s, n + Len(t), Len(s))
  BY Zenon DEF After
<1>2. n = 0 \/ n \in 1 .. Len(s)
  BY FindSo
<1> HIDE DEF n
<1>3. CASE n = 0
  <2>1. After(s, t) = <<>>
    BY <1>1, <1>3
  <2> QED
    BY <2>1, SmallLists
<1>4. CASE n \in 1 .. Len(s)
  <2>0. Len(s) \in Nat /\ Len(t) \in Nat
    BY ListSeq
  <2> DEFINE k == n + Len(t)
             m == Len(s)
  <2>1. m \in Int /\ k \in Int /\ 1 <= k /\ m <= Len(s) /\ n # 0
    BY <1>4, <2>0
  <2>2. After(s, t) = SubSeq(s, k, m)
    BY <1>1, <2>1
  <2> HIDE DEF k, m
  <2> QED
    BY <2>1, <2>2, PartOf
<1> QED
  BY <1>2, <1>3, <1>4

(* What DupSubst makes of s, at n the place where old occurs first.        *)
LEMMA DupSubstSo ==
  ASSUME NEW s, IsList(s), NEW old, IsList(old), NEW new, IsList(new)
  PROVE  /\ IsList(DupSubst(s, old, new))
         /\ \A c : old = <<c>> => ToSet(s) \ {c} \subseteq ToSet(DupSubst(s, old, new))
<1> DEFINE n == Find(s, old)
           a == SubSeq(s, 1, n - 1)
           b == SubSeq(s, n + Len(old), Len(s))
           x == a \o new
           u == x \o b
           w == DupSubst(s, old, new)
<1>1. w = IF old = <<>> \/ n = 0 THEN s ELSE u
  BY Zenon DEF DupSubst
<1>2. \/ n = 0
      \/ n \in 1 .. Len(s) /\ OccursAt(s, old, n)
  BY FindSo
<1>3. Len(s) \in Nat /\ Len(old) \in Nat /\ DOMAIN s = 1 .. Len(s)
  BY ListSeq
<1> HIDE DEF n
<1>4. CASE w = s
  <2> HIDE DEF w
  <2> QED
    BY <1>4 DEF w
<1>5. CASE w # s
  <2>1. w = u /\ n # 0
    <3> HIDE DEF w, u
    <3> QED
      BY <1>1, <1>5
  <2>2. n \in 1 .. Len(s) /\ OccursAt(s, old, n)
    BY <1>2, <2>1
  <2>3. /\ IsList(a) /\ Len(a) = n - 1 /\ \A i \in 1 .. n - 1 : a[i] = s[i]
    <3> DEFINE k == n - 1
    <3>1. 1 \in Int /\ k \in Int /\ 1 <= 1 /\ k <= Len(s)
      BY <1>3, <2>2
    <3> HIDE DEF k
    <3>2. /\ IsList(SubSeq(s, 1, k)) /\ Len(SubSeq(s, 1, k)) = IF 1 <= k THEN k - 1 + 1 ELSE 0
          /\ \A i \in 1 .. k - 1 + 1 : SubSeq(s, 1, k)[i] = s[1 + i - 1]
      BY <3>1, PartOf
    <3>3. IsList(a) /\ Len(a) = (IF 1 <= k THEN k - 1 + 1 ELSE 0)
          /\ \A i \in 1 .. k - 1 + 1 : a[i] = s[1 + i - 1]
      BY <3>2, Zenon DEF k
    <3> HIDE DEF a
    <3>4. k = n - 1
      BY DEF k
    <3>5. \A i \in 1 .. n - 1 : i \in 1 .. k - 1 + 1 /\ 1 + i - 1 = i
      BY <2>2, <3>4
    <3> QED
      BY <2>2, <3>3, <3>4, <3>5
  <2>4. /\ IsList(b) /\ \A i \in 1 .. Len(s) - (n + Len(old)) + 1 :
                          b[i] = s[n + Len(old) + i - 1]
        /\ Len(b) = IF n + Len(old) <= Len(s) THEN Len(s) - (n + Len(old)) + 1 ELSE 0
    <3> DEFINE k == n + Len(old)
               m == Len(s)
    <3>1. m \in Int /\ k \in Int /\ 1 <= k /\ m <= Len(s)
      BY <1>3, <2>2
    <3> HIDE DEF k, m
    <3>2. /\ IsList(SubSeq(s, k, m)) /\ Len(SubSeq(s, k, m)) = IF k <= m THEN m - k + 1 ELSE 0
          /\ \A i \in 1 .. m - k + 1 : SubSeq(s, k, m)[i] = s[k + i - 1]
      BY <3>1, PartOf
    <3> QED
      BY <3>2, Zenon DEF k, m
  <2> HIDE DEF a, b
  <2>5. IsList(x) /\ ToSet(x) = ToSet(a) \cup ToSet(new)
    BY <2>3, JoinedLists
  <2> HIDE DEF x
  <2>6. IsList(u) /\ ToSet(u) = ToSet(x) \cup ToSet(b)
    BY <2>4, <2>5, JoinedLists
  <2> HIDE DEF u, w
  <2>7. ASSUME NEW c, old = <<c>>, NEW e \in ToSet(s), e # c PROVE e \in ToSet(w)
    <3>1. Len(old) = 1 /\ s[n] = c
      <4>1. Len(old) = 1
        BY <2>7
      <4>2. SubSeq(s, n, n + Len(old) - 1) = <<c>>
        BY <2>2, <2>7, Zenon DEF OccursAt
      <4>3. n + Len(old) - 1 = n
        BY <2>2, <4>1
      <4>4. SubSeq(s, n, n) = <<c>>
        BY <4>2, <4>3
      <4>5. n \in Int /\ 1 <= n /\ n <= Len(s) /\ 1 \in 1 .. n - n + 1 /\ n + 1 - 1 = n
        BY <1>3, <2>2
      <4>6. SubSeq(s, n, n)[1] = s[n + 1 - 1]
        BY <4>5, PartOf
      <4>7. <<c>>[1] = c
        OBVIOUS
      <4> QED
        BY <4>1, <4>4, <4>5, <4>6, <4>7, Zenon
    <3>2. PICK i \in 1 .. Len(s) : e = s[i]
      BY <1>3, <2>7 DEF ToSet
    <3>3. i # n
      BY <2>7, <3>1, <3>2
    <3>4. CASE i < n
      <4>1. i \in 1 .. n - 1 /\ i \in DOMAIN a
        <5>1. DOMAIN a = 1 .. Len(a)
          BY <2>3, ListSeq
        <5> QED
          BY <2>2, <2>3, <3>4, <5>1
      <4>2. e \in ToSet(a)
        BY <2>3, <3>2, <4>1 DEF ToSet
      <4> QED
        BY <2>1, <2>5, <2>6, <4>2
    <3>5. CASE i > n
      <4> DEFINE j == i - n
      <4>1. j \in 1 .. Len(s) - (n + Len(old)) + 1 /\ n + Len(old) + j - 1 = i
            /\ n + Len(old) <= Len(s)
        BY <1>3, <2>2, <3>1, <3>2, <3>5
      <4> HIDE DEF j
      <4>2. b[j] = e /\ j \in 1 .. Len(b)
        BY <2>4, <3>2, <4>1
      <4>3. DOMAIN b = 1 .. Len(b)
        BY <2>4, ListSeq
      <4>4. e \in ToSet(b)
        BY <4>2, <4>3 DEF ToSet
      <4> QED
        BY <2>1, <2>6, <4>4
    <3> QED
      BY <1>3, <2>2, <3>2, <3>3, <3>4, <3>5
  <2>8. IsList(w)
    BY <2>1, <2>6
  <2>9. \A c : old = <<c>> => ToSet(s) \ {c} \subseteq ToSet(w)
    BY <2>7
  <2> QED
    BY <2>8, <2>9 DEF w
<1> QED
  BY <1>4, <1>5

(* The parts of a list of categories: what is between the ";"              *)
LEMMA PartsSo ==
  ASSUME NEW s, IsList(s)
  PROVE  /\ IsList(Parts(s)) /\ ToSet(Parts(s)) = ToSet(s) \ {";"}
         /\ Len(s) <= 1 => Len(Parts(s)) <= 1
<1> DEFINE m == Len(s)
           X == {i \in 1 .. m : s[i] # ";"}
           t == [i \in 1 .. m |-> IF s[i] = ";" THEN <<>> ELSE <<s[i]>>]
           u == Parts(s)
<1>1. m \in Nat /\ DOMAIN s = 1 .. m
  BY ListSeq
<1>2. u = FlattenSeq(t)
  BY <1>1, Zenon DEF Parts
<1>3. X \subseteq 1 .. m
  OBVIOUS
<1>4. IsList(t) /\ Len(t) = m /\ \A i \in 1 .. m : t[i] = IF i \in X THEN <<s[i]>> ELSE <<>>
  <2>1. t = [i \in 1 .. m |-> t[i]]
    BY Zenon
  <2>2. \A i \in 1 .. m : t[i] = IF i \in X THEN <<s[i]>> ELSE <<>>
    <3> TAKE i \in 1 .. m
    <3>1. t[i] = IF s[i] = ";" THEN <<>> ELSE <<s[i]>>
      BY Zenon
    <3>2. i \in X <=> s[i] # ";"
      OBVIOUS
    <3> HIDE DEF t, X
    <3> QED
      BY <3>1, <3>2, Zenon
  <2> HIDE DEF t, m
  <2>3. IsList(t) /\ Len(t) = m
    BY <1>1, <2>1, FunctionList
  <2> QED
    BY <2>2, <2>3
<1> HIDE DEF t
<1>5. PICK g : PickedBy(g, FlattenSeq(t), s, X)
  <2> HIDE DEF X
  <2> QED
    BY <1>3, <1>4, Picked DEF m
<1>6. PickedBy(g, u, s, X)
  BY <1>2, <1>5, Zenon
<1> HIDE DEF u
<1>7. IsList(u)
  BY <1>6 DEF PickedBy
<1>8. Len(u) \in Nat /\ ToSet(u) = {u[k] : k \in 1 .. Len(u)} /\ ToSet(s) = {s[i] : i \in 1 .. m}
  BY <1>7, ListSeq, Elements
<1>9. ToSet(u) = ToSet(s) \ {";"}
  <2>1. \A k \in 1 .. Len(u) : g[k] \in 1 .. m /\ u[k] = s[g[k]] /\ s[g[k]] # ";"
    BY <1>6 DEF PickedBy
  <2>2. \A i \in 1 .. m : s[i] # ";" => \E k \in 1 .. Len(u) : u[k] = s[i]
    BY <1>6 DEF PickedBy
  <2> HIDE DEF m, X
  <2>3. ASSUME NEW k \in 1 .. Len(u) PROVE u[k] \in ToSet(s) /\ u[k] # ";"
    BY <1>8, <2>1, Zenon
  <2>4. ASSUME NEW i \in 1 .. m, s[i] # ";" PROVE s[i] \in ToSet(u)
    BY <1>8, <2>2, <2>4, Zenon
  <2>5. ToSet(u) \subseteq ToSet(s) \ {";"}
    BY <1>8, <2>3
  <2>6. ToSet(s) \ {";"} \subseteq ToSet(u)
    BY <1>8, <2>4, Zenon
  <2> QED
    BY <2>5, <2>6, Zenon
<1>10. m <= 1 => Len(u) <= 1
  <2> SUFFICES ASSUME m <= 1, Len(u) > 1 PROVE FALSE
    BY <1>1, <1>8
  <2>1. 1 \in 1 .. Len(u) /\ 2 \in 1 .. Len(u)
    BY <1>8
  <2>2. g[1] \in X /\ g[2] \in X
    BY <1>6, <2>1 DEF PickedBy
  <2> HIDE DEF m, X
  <2>0. \A i \in 1 .. m : i = 1
    BY <1>1
  <2>3. g[1] = 1 /\ g[2] = 1
    BY <1>3, <2>0, <2>2, Zenon
  <2> QED
    BY <1>6, <2>1, <2>3 DEF PickedBy
<1> QED
  BY <1>7, <1>9, <1>10 DEF u, m

LEMMA NothingOK == \A id : ValOK(id, <<>>)
<1>1. Len(Parts(<<>>)) <= 1
  <2>1. IsList(<<>>) /\ Len(<<>>) <= 1
    BY SmallLists
  <2> QED
    BY <2>1, PartsSo
<1>2. IsList(Parts(<<>>))
  BY SmallLists, PartsSo
<1>3. Len(Parts(<<>>)) \in Nat
  BY <1>2, ListSeq
<1>4. OneLine(<<>>)
  BY SmallLists DEF OneLine
<1> DEFINE n == Len(Parts(<<>>))
<1> HIDE DEF n
<1>5. ~(n > 1)
  BY <1>1, <1>3 DEF n
<1> QED
  BY <1>4, <1>5, SmallLists, Zenon DEF ValOK, n

LEMMA ValueSo ==
  ASSUME NEW ps, Object(ps), NEW id, id \notin Repeated
  PROVE  ValOK(id, StringValue(ps, id)) /\ IsList(StringValue(ps, id))
<1>1. ValOK(id, StringValue(ps, id))
  <2>1. CASE Those(ps, id) = {}
    <3>1. StringValue(ps, id) = <<>>
      BY <2>1, ValueOf
    <3> QED
      BY <3>1, NothingOK
  <2>2. ASSUME NEW p, Those(ps, id) = {p} PROVE ValOK(id, StringValue(ps, id))
    <3>1. p.id = id /\ PropOK(p) /\ StringValue(ps, id) = p.val
      BY <2>2, ValueOf
    <3> QED
      BY <3>1 DEF PropOK
  <2>3. Those(ps, id) = {} \/ \E p : Those(ps, id) = {p}
    BY ValueOf
  <2> QED
    BY <2>1, <2>2, <2>3
<1> QED
  BY <1>1 DEF ValOK

LEMMA SubSo ==
  ASSUME NEW ps, Object(ps), NEW id, id \notin Repeated, NEW k
  PROVE  IsList(SubValue(ps, id, k)) /\ (id = "N" => Word(SubValue(ps, id, k)))
<1> DEFINE s == SubValue(ps, id, k)
<1>1. IsList(<<>>) /\ Word(<<>>)
  <2>1. " " \notin {}
    OBVIOUS
  <2>2. 0 <= 1
    OBVIOUS
  <2> QED
    BY <2>1, <2>2, SmallLists, Zenon DEF Word
<1>2. CASE Those(ps, id) = {}
  <2>1. s = <<>>
    BY <1>2, ValueOf
  <2> HIDE DEF s
  <2> QED
    BY <1>1, <2>1 DEF s
<1>3. ASSUME NEW p, Those(ps, id) = {p} PROVE IsList(s) /\ (id = "N" => Word(s))
  <2>1. p.id = id /\ PropOK(p) /\ s = IF k \in DOMAIN p.sub THEN p.sub[k] ELSE <<>>
    BY <1>3, ValueOf
  <2>2. SubOK(id, p.sub)
    BY <2>1 DEF PropOK
  <2> HIDE DEF s
  <2> QED
    BY <1>1, <2>1, <2>2 DEF SubOK
<1>4. Those(ps, id) = {} \/ \E p : Those(ps, id) = {p}
  BY ValueOf
<1> QED
  BY <1>2, <1>3, <1>4

(* Notes: what is set is without carriage returns.                         *)
LEMMA NoteIdSo ==
  ASSUME NEW type
  PROVE  NoteId(type) \in {"NOTE", "DESCRIPTION"} /\ NoteId(type) \notin Repeated
<1>1. NoteId(type) \in {"NOTE", "DESCRIPTION"}
  BY DEF NoteId
<1> QED
  BY <1>1 DEF Repeated

LEMMA NoteOK ==
  ASSUME NEW type, NEW s, IsList(s), OneLine(s) PROVE ValOK(NoteId(type), s)
<1>1. NoteId(type) \in {"NOTE", "DESCRIPTION"}
  BY NoteIdSo
<1>2. ASSUME NEW id, id \in {"NOTE", "DESCRIPTION"} PROVE ValOK(id, s)
  BY <1>2 DEF ValOK
<1> QED
  BY <1>1, <1>2

LEMMA NotePropsLenSo ==
  ASSUME NEW s, IsList(s), NEW type PROVE NotePropsLen(s, type) \in 0 .. Len(s)
<1> DEFINE first == IF s # <<>> /\ s[1] = "NL" THEN 2 ELSE 1
           text == {i \in first .. Len(s) + 1 :
                      /\ i = first \/ s[i - 1] = "NL"
                      /\ i = Len(s) + 1 \/ s[i] \notin NoteMarks(type)}
<1>1. NotePropsLen(s, type) = IF text = {} THEN 0 ELSE Min(text) - 1
  BY Zenon DEF NotePropsLen
<1>2. Len(s) \in Nat
  BY ListSeq
<1>3. first \in 1 .. 2
  OBVIOUS
<1>4. text \subseteq first .. Len(s) + 1
  OBVIOUS
<1> HIDE DEF first, text
<1>5. text \subseteq 1 .. Len(s) + 1 /\ text \subseteq Nat
  BY <1>2, <1>3, <1>4
<1>6. CASE text = {}
  BY <1>1, <1>2, <1>6
<1>7. CASE text # {}
  <2>1. Min(text) \in text
    BY <1>5, <1>7, MinIn
  <2> DEFINE k == Min(text)
  <2>2. k \in 1 .. Len(s) + 1 /\ NotePropsLen(s, type) = k - 1
    BY <1>1, <1>5, <1>7, <2>1
  <2> HIDE DEF k
  <2> QED
    BY <1>2, <2>2
<1> QED
  BY <1>6, <1>7

LEMMA NotesValueSo ==
  ASSUME NEW ps, Object(ps), NEW type PROVE IsList(NotesValue(ps, type))
<1> DEFINE note == StringValue(ps, NoteId(type))
           n == NotePropsLen(note, type)
           k == n + 1
           rest == SubSeq(note, k, Len(note))
<1>1. IsList(note)
  BY ValueSo, NoteIdSo
<1>2. NotesValue(ps, type) = SubstNL(rest)
  BY DEF NotesValue
<1> HIDE DEF note
<1>3. n \in 0 .. Len(note) /\ Len(note) \in Nat
  BY <1>1, NotePropsLenSo, ListSeq
<1> HIDE DEF n
<1>4. k \in Int /\ 1 <= k /\ Len(note) \in Int /\ Len(note) <= Len(note)
  BY <1>3
<1> HIDE DEF k
<1>5. IsList(rest)
  BY <1>1, <1>4, PartOf
<1> HIDE DEF rest
<1> QED
  BY <1>2, <1>5, NLSo

LEMMA NotePropValueSo ==
  ASSUME NEW ps, Object(ps), NEW type, NEW mark
  PROVE  IsList(NotePropValue(ps, type, mark))
<1> DEFINE note == StringValue(ps, NoteId(type))
           long == <<"NL">> \o note
           s == SubstNL(long)
           line == <<"CR", "NL", mark>>
           rest == After(s, line)
<1>1. IsList(note)
  BY ValueSo, NoteIdSo
<1>2. NotePropValue(ps, type, mark) = Before(rest, <<"CR", "NL">>)
  BY DEF NotePropValue
<1> HIDE DEF note
<1>3. IsList(long)
  BY <1>1, SmallLists, JoinedLists
<1> HIDE DEF long
<1>4. IsList(s)
  BY <1>3, NLSo
<1>5. IsList(line)
  <2>1. line = <<"CR">> \o <<"NL">> \o <<mark>>
    OBVIOUS
  <2>2. IsList(<<"CR">>) /\ IsList(<<"NL">>) /\ IsList(<<mark>>)
    BY SmallLists
  <2> HIDE DEF line
  <2>3. IsList(<<"CR">> \o <<"NL">>)
    BY <2>2, JoinedLists
  <2> QED
    BY <2>1, <2>2, <2>3, JoinedLists
<1> HIDE DEF s, line
<1>6. IsList(rest)
  BY <1>4, <1>5, AfterSo
<1> HIDE DEF rest
<1> QED
  BY <1>2, <1>6, BeforeSo

LEMMA MarkedLineSo ==
  ASSUME NEW mark, NEW s, IsList(s) PROVE IsList(MarkedLine(mark, s))
<1> DEFINE a == <<mark>> \o s
           e == <<"CR", "NL">>
<1>1. IsList(a)
  BY SmallLists, JoinedLists
<1>2. IsList(e)
  <2>1. e = <<"CR">> \o <<"NL">>
    OBVIOUS
  <2>2. IsList(<<"CR">>) /\ IsList(<<"NL">>)
    BY SmallLists
  <2> HIDE DEF e
  <2> QED
    BY <2>1, <2>2, JoinedLists
<1>3. MarkedLine(mark, s) = IF s = <<>> THEN <<>> ELSE a \o e
  BY Zenon DEF MarkedLine
<1> HIDE DEF a, e
<1>4. IsList(a \o e)
  BY <1>1, <1>2, JoinedLists
<1> QED
  BY <1>3, <1>4, SmallLists, Zenon

LEMMA SetNotesSo ==
  ASSUME NEW v, Vobject(v), NEW type, NEW s, IsList(s), NEW K, NoteId(type) \notin K
  PROVE  Does(v, SetNotes(v, type, s), K)
<1> DEFINE id == NoteId(type)
           old == StringValue(v.ps, id)
           n == NotePropsLen(old, type)
           a == SubSeq(old, 1, n)
           b == SubstCRLF(s)
<1>1. SetNotes(v, type, s) = SetString(v, id, a \o b)
  BY Zenon DEF SetNotes
<1>2. id \in {"NOTE", "DESCRIPTION"} /\ id \notin Repeated
  BY NoteIdSo
<1>3. Object(v.ps)
  BY DEF Vobject
<1>4. ValOK(id, old) /\ IsList(old)
  BY <1>2, <1>3, ValueSo
<1>5. OneLine(old)
  <2> HIDE DEF id, old
  <2> QED
    BY <1>2, <1>4 DEF ValOK
<1> HIDE DEF old
<1>6. n \in 0 .. Len(old) /\ Len(old) \in Nat
  BY <1>4, NotePropsLenSo, ListSeq
<1> HIDE DEF n
<1>7. IsList(a) /\ ToSet(a) \subseteq ToSet(old)
  <2>1. 1 \in Int /\ n \in Int /\ 1 <= 1 /\ n <= Len(old)
    BY <1>6
  <2> QED
    BY <1>4, <2>1, PartOf
<1>8. IsList(b) /\ OneLine(b)
  BY CRLFSo
<1> HIDE DEF a, b
<1>9. IsList(a \o b) /\ ToSet(a \o b) = ToSet(a) \cup ToSet(b)
  BY <1>7, <1>8, JoinedLists
<1> DEFINE u == a \o b
<1> HIDE DEF u
<1>10. IsList(u) /\ ToSet(u) = ToSet(a) \cup ToSet(b)
  BY <1>9, Zenon DEF u
<1>11. OneLine(u)
  BY <1>5, <1>7, <1>8, <1>10 DEF OneLine
<1>12. ValOK(id, u)
  BY <1>10, <1>11, NoteOK
<1>13. Does(v, SetString(v, id, u), K)
  <2>1. id \notin K
    OBVIOUS
  <2> HIDE DEF id
  <2> QED
    BY <1>2, <1>12, <2>1, SetStringSo
<1> QED
  BY <1>1, <1>13, Zenon DEF u

LEMMA SetNotePropSo ==
  ASSUME NEW v, Vobject(v), NEW type, NEW mark, NEW s, IsList(s), NEW K, NoteId(type) \notin K
  PROVE  Does(v, SetNoteProp(v, type, mark, s), K)
<1> DEFINE id == NoteId(type)
           value == StringValue(v.ps, id)
           note == SubstNL(value)
           old == NotePropValue(v.ps, type, mark)
           new == MarkedLine(mark, s)
           was == MarkedLine(mark, old)
           u == SubstCRLF(IF old # <<>> THEN DupSubst(note, was, new) ELSE new \o note)
<1>1. SetNoteProp(v, type, mark, s) = SetString(v, id, u)
  BY Zenon DEF SetNoteProp
<1>2. id \in {"NOTE", "DESCRIPTION"} /\ id \notin Repeated /\ id \notin K
  BY NoteIdSo
<1>3. Object(v.ps)
  BY DEF Vobject
<1>4. IsList(value) /\ IsList(old)
  BY <1>2, <1>3, ValueSo, NotePropValueSo
<1> HIDE DEF value, old
<1>5. IsList(note) /\ IsList(new) /\ IsList(was)
  BY <1>4, NLSo, MarkedLineSo
<1> HIDE DEF note, new, was
<1>6. IsList(DupSubst(note, was, new)) /\ IsList(new \o note)
  BY <1>5, DupSubstSo, JoinedLists
<1>7. IsList(u) /\ OneLine(u)
  <2>1. CASE old # <<>>
    <3>1. u = SubstCRLF(DupSubst(note, was, new))
      BY <2>1, Zenon
    <3> HIDE DEF u
    <3> QED
      BY <1>6, <3>1, CRLFSo
  <2>2. CASE old = <<>>
    <3>1. u = SubstCRLF(new \o note)
      BY <2>2, Zenon
    <3> HIDE DEF u
    <3> QED
      BY <1>6, <3>1, CRLFSo
  <2> QED
    BY <2>1, <2>2
<1> HIDE DEF u
<1>8. ValOK(id, u)
  BY <1>7, NoteOK
<1> HIDE DEF id
<1> QED
  BY <1>1, <1>2, <1>8, SetStringSo

(* Categories: the one of the IC35, and the others that stay.              *)
LEMMA ContainsSo == ASSUME NEW s, IsList(s), NEW e PROVE Contains(s, e) <=> e \in ToSet(s)
<1>1. ToSet(s) = {s[i] : i \in 1 .. Len(s)}
  BY Elements
<1> QED
  BY <1>1 DEF Contains

LEMMA FirstStdSo ==
  ASSUME NEW s, IsList(s) PROVE FirstStd(s) = 0 \/ FirstStd(s) \in 1 .. Len(s)
<1> DEFINE I == {i \in 1 .. Len(s) : s[i] \in StdCategories}
<1>1. FirstStd(s) = IF I # {} THEN Min(I) ELSE 0
  BY Zenon DEF FirstStd, SelectInSeq
<1>2. I \subseteq 1 .. Len(s)
  OBVIOUS
<1> HIDE DEF I
<1>3. I \subseteq Nat
  BY <1>2
<1>4. CASE I = {}
  BY <1>1, <1>4
<1>5. CASE I # {}
  <2>1. Min(I) \in I
    BY <1>3, <1>5, MinIn
  <2> QED
    BY <1>1, <1>2, <1>5, <2>1
<1> QED
  BY <1>4, <1>5

LEMMA OneWord == \A e : IsList(<<e>>) /\ Len(<<e>>) <= 1
<1>1. 1 <= 1
  OBVIOUS
<1> QED
  BY <1>1, SmallLists, Zenon

LEMMA CategoryValueSo ==
  ASSUME NEW ps PROVE IsList(CategoryValue(ps)) /\ Len(CategoryValue(ps)) <= 1
<1> DEFINE cats == Parts(StringValue(ps, "CATEGORIES"))
           c == CategoryValue(ps)
           n == FirstStd(cats)
           x == <<"Unfiled">>
           y == <<cats[n]>>
           z == <<cats[1]>>
<1>1. c = CASE cats = <<>> -> x [] n # 0 -> y [] OTHER -> z
  BY Zenon DEF CategoryValue
<1>2. (\E e : x = <<e>>) /\ (\E e : y = <<e>>) /\ (\E e : z = <<e>>)
  BY Zenon
<1> HIDE DEF c, cats, n, x, y, z
<1>3. c \in {x, y, z}
  BY <1>1
<1>4. \E e : c = <<e>>
  BY <1>2, <1>3
<1> QED
  BY <1>4, OneWord, Zenon DEF c

LEMMA AtMostOne == \A n \in Nat : n <= 1 => ~(n > 1)
OBVIOUS

LEMMA CategoryOK ==
  ASSUME NEW s, IsList(s), Len(s) <= 1 \/ ";" \in ToSet(s) PROVE ValOK("CATEGORIES", s)
<1>1. Len(Parts(s)) > 1 => Contains(s, ";")
  <2>1. CASE ";" \in ToSet(s)
    BY <2>1, ContainsSo
  <2>2. CASE Len(s) <= 1
    <3>1. Len(Parts(s)) <= 1 /\ IsList(Parts(s))
      BY <2>2, PartsSo
    <3> DEFINE n == Len(Parts(s))
    <3>2. n \in Nat /\ n <= 1
      BY <3>1, ListSeq
    <3> HIDE DEF n
    <3> QED
      BY <3>2, AtMostOne, Zenon DEF n
  <2> QED
    BY <2>1, <2>2
<1> QED
  BY <1>1, Zenon DEF ValOK

LEMMA SetCategorySo ==
  ASSUME NEW v, Vobject(v), NEW new, IsList(new), Len(new) <= 1, NEW K, "CATEGORIES" \notin K,
         NEW cats, cats = Parts(StringValue(v.ps, "CATEGORIES"))
  PROVE  /\ Does(v, SetCategory(v, new), K)
         /\ Len(cats) > 1 =>
               OtherCategories(cats) \subseteq ToSet(StringValue(SetCategory(v, new).ps, "CATEGORIES"))
<1> DEFINE old == StringValue(v.ps, "CATEGORIES")
           std == FirstStd(cats)
           w == SetCategory(v, new)
           c == <<cats[std]>>
           swapped == DupSubst(old, c, new)
           head == new \o <<";">>
           longer == head \o old
           Kept(x) == Does(v, x, K) /\ (Len(cats) > 1 =>
                        OtherCategories(cats) \subseteq ToSet(StringValue(x.ps, "CATEGORIES")))
<1>1. \/ ~Contains(old, ";") /\ w = SetString(v, "CATEGORIES", new)
      \/ w = v
      \/ std # 0 /\ w = SetString(v, "CATEGORIES", swapped) /\ Contains(old, ";")
      \/ w = SetString(v, "CATEGORIES", longer)
  BY Zenon DEF SetCategory
<1>2. "CATEGORIES" \notin Repeated
  BY DEF Repeated
<1>3. ValOK("CATEGORIES", old) /\ IsList(old)
  BY <1>2, ValueSo DEF Vobject
<1>4. cats = Parts(old) /\ IsList(cats) /\ ToSet(cats) = ToSet(old) \ {";"}
  BY <1>3, PartsSo
<1>5. OtherCategories(cats) = IF std = 0 THEN ToSet(cats) ELSE ToSet(cats) \ {cats[std]}
  BY Zenon DEF OtherCategories
<1>6. OtherCategories(cats) \subseteq ToSet(cats)
  BY <1>5
<1> HIDE DEF w
<1>7. ASSUME NEW s, ValOK("CATEGORIES", s), Len(cats) > 1 => OtherCategories(cats) \subseteq ToSet(s)
      PROVE  Kept(SetString(v, "CATEGORIES", s))
  <2>1. Does(v, SetString(v, "CATEGORIES", s), K)
        /\ StringValue(SetString(v, "CATEGORIES", s).ps, "CATEGORIES") = s
    BY <1>2, <1>7, SetStringSo
  <2> QED
    BY <1>7, <2>1, Zenon
<1>8. CASE ~Contains(old, ";") /\ w = SetString(v, "CATEGORIES", new)
  <2>1. ValOK("CATEGORIES", new)
    BY CategoryOK
  <2>2. ~(Len(cats) > 1)
    BY <1>3, <1>4, <1>8, Zenon DEF ValOK
  <2>3. Kept(SetString(v, "CATEGORIES", new))
    BY <1>7, <2>1, <2>2, Zenon
  <2> QED
    BY <1>8, <2>3, Zenon DEF w
<1>9. CASE w = v
  <2>1. Does(v, v, K)
    BY DoesNothing
  <2>2. OtherCategories(cats) \subseteq ToSet(old)
    <3> HIDE DEF old, std
    <3> QED
      BY <1>4, <1>6
  <2> QED
    BY <1>9, <2>1, <2>2, Zenon DEF w
<1>10. CASE std # 0 /\ w = SetString(v, "CATEGORIES", swapped) /\ Contains(old, ";")
  <2>1. std \in 1 .. Len(cats)
    BY <1>4, <1>10, FirstStdSo
  <2>2. cats[std] \in ToSet(cats)
    <3> HIDE DEF std
    <3>1. ToSet(cats) = {cats[i] : i \in 1 .. Len(cats)}
      BY <1>4, Elements
    <3> QED
      BY <2>1, <3>1
  <2>3. ";" \in ToSet(old)
    BY <1>3, <1>10, ContainsSo
  <2>4. IsList(c)
    BY OneWord
  <2> DEFINE e == cats[std]
  <2>5. IsList(swapped) /\ ToSet(old) \ {e} \subseteq ToSet(swapped)
    <3> HIDE DEF old, std
    <3>1. IsList(swapped) /\ \A b : c = <<b>> => ToSet(old) \ {b} \subseteq ToSet(swapped)
      <4> HIDE DEF c
      <4> QED
        BY <1>3, <2>4, DupSubstSo
    <3> QED
      BY <3>1, Zenon
  <2> HIDE DEF swapped, old, std
  <2>6. ";" \in ToSet(swapped)
    BY <1>4, <2>2, <2>3, <2>5
  <2>7. ValOK("CATEGORIES", swapped)
    BY <2>5, <2>6, CategoryOK
  <2>8. OtherCategories(cats) \subseteq ToSet(swapped)
    BY <1>4, <1>5, <1>10, <2>5
  <2>9. Kept(SetString(v, "CATEGORIES", swapped))
    BY <1>7, <2>7, <2>8, Zenon
  <2> QED
    BY <1>10, <2>9, Zenon DEF w
<1>11. CASE w = SetString(v, "CATEGORIES", longer)
  <2>0. IsList(<<";">>) /\ ToSet(<<";">>) = {";"}
    BY SmallLists
  <2>1. IsList(head) /\ ToSet(head) = ToSet(new) \cup {";"}
    <3> DEFINE d == <<";">>
    <3> HIDE DEF d
    <3>1. IsList(d) /\ ToSet(d) = {";"}
      BY <2>0 DEF d
    <3>2. IsList(new \o d) /\ ToSet(new \o d) = ToSet(new) \cup ToSet(d)
      BY <3>1, JoinedLists
    <3> QED
      BY <3>1, <3>2, Zenon DEF d
  <2> HIDE DEF head, old, std
  <2>2. IsList(longer) /\ ToSet(longer) = ToSet(head) \cup ToSet(old)
    BY <1>3, <2>1, JoinedLists
  <2> HIDE DEF longer
  <2>3. ValOK("CATEGORIES", longer)
    BY <2>1, <2>2, CategoryOK
  <2>4. OtherCategories(cats) \subseteq ToSet(longer)
    BY <1>4, <1>6, <2>2
  <2>5. Kept(SetString(v, "CATEGORIES", longer))
    BY <1>7, <2>3, <2>4, Zenon
  <2> QED
    BY <1>11, <2>5, Zenon DEF w
<1> QED
  BY <1>1, <1>8, <1>9, <1>10, <1>11, Zenon DEF w

(* The fields of a record: strings of the lengths that the IC35 allows,    *)
(* the category a single one except where KOrganizer has it in the notes.  *)
StrOK(type, p, f, s) ==
  /\ IsList(s)
  /\ f = "Subject" => OneLine(s)
  /\ f = "Category" => (type = "VTODO" /\ p = "KDE") \/ Len(s) <= 1
  /\ f \in {"FirstName", "LastName"} => Word(s)
FldOK(type, p, f, fld) ==
  /\ DOMAIN fld = {"len", "str"} /\ StrOK(type, p, f, fld.str)
  /\ fld.len \in 0 .. MaxFld /\ fld.len <= Len(fld.str)
Good(type, p, rec) ==
  /\ rec = [f \in Fields(type) |-> rec[f]]
  /\ \A f \in Fields(type) : FldOK(type, p, f, rec[f])

LEMMA RecFldSo ==
  ASSUME NEW type, NEW p, NEW rec, Good(type, p, rec), NEW f \in Fields(type)
  PROVE  StrOK(type, p, f, RecFld(rec, f)) /\ IsList(RecFld(rec, f))
BY DEF Good, FldOK, StrOK, RecFld

(* Times and UID                                                           *)
LEMMA SetUidSo ==
  ASSUME NEW v, Vobject(v), NEW K, "UID" \notin K PROVE Does(v, SetUid(v), K)
<1> DEFINE s == <<"IC35id">>
<1>1. SetUid(v) = SetString(v, "UID", s) \/ SetUid(v) = v
  BY Zenon DEF SetUid
<1>2. Does(v, SetString(v, "UID", s), K)
  <2>1. ValOK("UID", s)
    BY SmallLists, AnyVal DEF Particular
  <2> HIDE DEF s
  <2> QED
    BY <2>1, SetStringSo DEF Repeated
<1> QED
  BY <1>1, <1>2, DoesNothing, Zenon

LEMMA SetModtimeSo ==
  ASSUME NEW v, Vobject(v), NEW type, NEW now,
         NEW K, K \cap {"DCREATED", "REV", "LAST-MODIFIED"} = {}
  PROVE  Does(v, SetModtimeIfDirty(v, type, now), K)
<1> DEFINE s == <<now>>
           id == IF type = "VCARD" THEN "REV" ELSE "LAST-MODIFIED"
           created == type \in {"VEVENT", "VTODO"} /\ ~Has(v.ps, "DCREATED")
           w == IF created THEN SetString(v, "DCREATED", s) ELSE v
<1>1. SetModtimeIfDirty(v, type, now) = IF ~v.dirty THEN v ELSE SetString(w, id, s)
  BY Zenon DEF SetModtimeIfDirty
<1>2. ValOK("DCREATED", s) /\ ValOK("REV", s) /\ ValOK("LAST-MODIFIED", s)
  BY SmallLists, AnyVal DEF Particular
<1>3. id \in {"REV", "LAST-MODIFIED"}
  OBVIOUS
<1> HIDE DEF s, id, created
<1>4. ValOK(id, s) /\ id \notin Repeated /\ id \notin K
  BY <1>2, <1>3 DEF Repeated
<1>5. Does(v, w, K)
  <2>1. Does(v, SetString(v, "DCREATED", s), K)
    BY <1>2, SetStringSo DEF Repeated
  <2>2. Does(v, v, K)
    BY DoesNothing
  <2> QED
    BY <2>1, <2>2, Zenon
<1> HIDE DEF w
<1>6. Does(w, SetString(w, id, s), K)
  BY <1>4, <1>5, SetStringSo DEF Does
<1>7. Does(v, SetString(w, id, s), K)
  BY <1>5, <1>6, DoesBoth
<1> QED
  BY <1>1, <1>7, DoesNothing, Zenon

(* Names: the full name is made of the old one and the names.              *)
LEMMA FullNameSo ==
  ASSUME NEW fn, NEW a, NEW b, NEW first, NEW last,
         IsList(fn), IsList(a), IsList(b), IsList(first), IsList(last)
  PROVE  IsList(FullName(fn, a, b, first, last))
<1> DEFINE d == DupSubst(fn, b, last)
           x == DupSubst(d, a, first)
           y == first \o <<" ">>
           z == y \o last
           o == IF first = <<>> THEN last ELSE first
           w == FullName(fn, a, b, first, last)
<1>1. w = IF fn # <<>> THEN x
          ELSE IF first # <<>> /\ last # <<>> THEN z ELSE o
  BY Zenon DEF FullName, Or
<1>2. IsList(d)
  BY DupSubstSo
<1> HIDE DEF d
<1>3. IsList(x)
  BY <1>2, DupSubstSo
<1>4. IsList(y)
  BY SmallLists, JoinedLists
<1> HIDE DEF y
<1>5. IsList(z)
  BY <1>4, JoinedLists
<1>6. IsList(o)
  BY Zenon
<1> HIDE DEF x, z, o, w
<1> QED
  BY <1>1, <1>3, <1>5, <1>6, Zenon DEF w

LEMMA SetNamesSo ==
  ASSUME NEW v, Vobject(v), Has(v.ps, "N"), NEW first, NEW last,
         IsList(first), IsList(last), Word(first), Word(last),
         NEW K, "N" \notin K, "FN" \notin K,
         NEW fn, fn = FullName(StringValue(v.ps, "FN"), SubValue(v.ps, "N", "GIVEN"),
                               SubValue(v.ps, "N", "FAMILY"), first, last)
  PROVE  /\ Does(v, SetNames(v, first, last), K)
         /\ StringValue(SetNames(v, first, last).ps, "FN") = fn
<1> DEFINE u == SetString(v, "FN", fn)
           new == [GIVEN |-> first, FAMILY |-> last]
           w == SetSubs(u, "N", new)
<1>1. SetNames(v, first, last) = w
  BY Zenon DEF SetNames
<1>2. Object(v.ps) /\ "N" \notin Repeated /\ "FN" \notin Repeated
  BY DEF Vobject, Repeated
<1>3. IsList(fn)
  <2>1. /\ IsList(StringValue(v.ps, "FN"))
        /\ IsList(SubValue(v.ps, "N", "GIVEN")) /\ IsList(SubValue(v.ps, "N", "FAMILY"))
    BY <1>2, ValueSo, SubSo
  <2> QED
    BY <2>1, FullNameSo
<1>4. ValOK("FN", fn)
  BY <1>3, AnyVal DEF Particular
<1>5. Does(v, u, K \cup {"N"}) /\ StringValue(u.ps, "FN") = fn
  <2>1. "FN" \notin K \cup {"N"}
    OBVIOUS
  <2> QED
    BY <1>2, <1>4, <2>1, SetStringSo
<1> HIDE DEF u
<1>6. Vobject(u) /\ Object(u.ps) /\ Those(u.ps, "N") = Those(v.ps, "N")
  BY <1>5 DEF Does, Vobject
<1>7. Has(u.ps, "N")
  <2>1. Has(v.ps, "N") <=> Those(v.ps, "N") # {}
    BY <1>2, ValueOf
  <2>2. Has(u.ps, "N") <=> Those(u.ps, "N") # {}
    BY <1>2, <1>6, ValueOf
  <2> QED
    BY <1>6, <2>1, <2>2
<1>8. SubOK("N", new)
  <2>1. DOMAIN new = {"GIVEN", "FAMILY"} /\ new["GIVEN"] = first /\ new["FAMILY"] = last
    OBVIOUS
  <2> HIDE DEF new
  <2> QED
    BY <2>1 DEF SubOK
<1> HIDE DEF new
<1>9. Does(u, w, K \cup {"FN"})
  <2>1. "N" \notin K \cup {"FN"}
    OBVIOUS
  <2> QED
    BY <1>2, <1>6, <1>7, <1>8, <2>1, SetSubsSo
<1> HIDE DEF w
<1>10. Does(v, w, K)
  BY <1>5, <1>9, DoesBoth, DoesLess
<1>11. StringValue(w.ps, "FN") = fn
  <2>1. Object(w.ps) /\ Those(w.ps, "FN") = Those(u.ps, "FN")
    BY <1>9 DEF Does, Vobject
  <2> QED
    BY <1>2, <1>5, <1>6, <2>1, SameValues
<1> QED
  BY <1>1, <1>10, <1>11, Zenon

(* The fields by type.                                                     *)
LEMMA FieldsAre ==
  /\ Fields("VCARD") =
       {"LastName", "FirstName", "Company", "TelHome", "TelWork", "TelMobile", "TelFax",
        "Street", "City", "ZIP", "Region", "Country", "Email1", "Email2", "URL",
        "BirthDate", "Notes", "CategoryID", "Def1", "Def2", "Category"}
  /\ Fields("VEVENT") =
       {"Subject", "StartDate", "StartTime", "EndTime", "AlarmBefore", "Notes",
        "Alarm_Repeat", "EndDate", "RepEndDate", "RepCount"}
  /\ Fields("VTODO") =
       {"StartDate", "EndDate", "Completed", "Priority", "Subject", "Notes",
        "CategoryID", "Category"}
  /\ Fields("VMEMO") = {"Subject", "Notes", "CategoryID", "Category"}
<1>1. /\ FldsOf("VCARD") = AddrFlds /\ FldsOf("VEVENT") = SchedFlds
      /\ FldsOf("VTODO") = TodoFlds /\ FldsOf("VMEMO") = MemoFlds
  BY DEF FldsOf
<1>2. DOMAIN AddrFlds = 1 .. 21
  BY DEF AddrFlds
<1>3. ToSet(AddrFlds) =
       {"LastName", "FirstName", "Company", "TelHome", "TelWork", "TelMobile", "TelFax",
        "Street", "City", "ZIP", "Region", "Country", "Email1", "Email2", "URL",
        "BirthDate", "Notes", "CategoryID", "Def1", "Def2", "Category"}
  BY <1>2 DEF AddrFlds, ToSet
<1>4. DOMAIN SchedFlds = 1 .. 10
  BY DEF SchedFlds
<1>5. ToSet(SchedFlds) =
       {"Subject", "StartDate", "StartTime", "EndTime", "AlarmBefore", "Notes",
        "Alarm_Repeat", "EndDate", "RepEndDate", "RepCount"}
  BY <1>4 DEF SchedFlds, ToSet
<1>6. DOMAIN TodoFlds = 1 .. 8
  BY DEF TodoFlds
<1>7. ToSet(TodoFlds) =
       {"StartDate", "EndDate", "Completed", "Priority", "Subject", "Notes",
        "CategoryID", "Category"}
  BY <1>6 DEF TodoFlds, ToSet
<1>8. DOMAIN MemoFlds = 1 .. 4
  BY DEF MemoFlds
<1>9. ToSet(MemoFlds) = {"Subject", "Notes", "CategoryID", "Category"}
  BY <1>8 DEF MemoFlds, ToSet
<1> QED
  BY <1>1, <1>3, <1>5, <1>7, <1>9 DEF Fields

(* vCards: parts of the conversion                                         *)
LEMMA AddressSo ==
  ASSUME NEW v, Vobject(v), NEW p, NEW rec, Good("VCARD", p, rec), NEW K, "ADR" \notin K
  PROVE  Does(v, SetAddress(v, rec), K)
<1> DEFINE new == AddressParts(rec)
           u == SetProp(v, "ADR")
           w == SetSubs(u, "ADR", new)
           d == DelProp(v, "ADR")
<1>1. SetAddress(v, rec) = d \/ SetAddress(v, rec) = w
  BY Zenon DEF SetAddress
<1>2. "ADR" \notin Repeated /\ "ADR" # "N" /\ ValOK("ADR", <<>>)
  BY NothingOK DEF Repeated
<1>3. SubOK("ADR", new)
  <2>1. \A f \in {"Street", "City", "Region", "ZIP", "Country"} : IsList(RecFld(rec, f))
    BY FieldsAre, RecFldSo
  <2>2. IsList(<<>>)
    BY SmallLists
  <2>3. \A k \in DOMAIN new : IsList(new[k])
    BY <2>1, <2>2 DEF AddressParts
  <2> QED
    BY <1>2, <2>3, Zenon DEF SubOK
<1> HIDE DEF new
<1>4. Does(v, u, K) /\ Has(u.ps, "ADR")
  BY <1>2, SetPropSo
<1> HIDE DEF u
<1>5. Does(u, w, K)
  BY <1>2, <1>3, <1>4, SetSubsSo DEF Does
<1>6. Does(v, d, K)
  BY <1>2, DelPropSo
<1> HIDE DEF w, d
<1>7. Does(v, w, K)
  BY <1>4, <1>5, DoesBoth
<1> QED
  BY <1>1, <1>6, <1>7

LEMMA CompanySo ==
  ASSUME NEW v, Vobject(v), NEW p, NEW rec, Good("VCARD", p, rec), NEW K, "ORG" \notin K
  PROVE  /\ Does(v, SetCompany(v, rec), K)
         /\ RecFld(rec, "Company") # <<>> =>
              SubValue(SetCompany(v, rec).ps, "ORG", "UNIT") = SubValue(v.ps, "ORG", "UNIT")
<1> DEFINE s == RecFld(rec, "Company")
           new == [ORGNAME |-> s]
           u == SetProp(v, "ORG")
           w == SetSubs(u, "ORG", new)
           d == DelProp(v, "ORG")
<1>1. SetCompany(v, rec) = IF s = <<>> THEN d ELSE w
  BY Zenon DEF SetCompany
<1>2. "ORG" \notin Repeated /\ "ORG" # "N" /\ ValOK("ORG", <<>>)
  BY NothingOK DEF Repeated
<1>3. SubOK("ORG", new)
  <2>1. IsList(s)
    BY FieldsAre, RecFldSo
  <2>2. \A k \in DOMAIN new : IsList(new[k])
    BY <2>1
  <2> QED
    BY <1>2, <2>2, Zenon DEF SubOK
<1>4. "UNIT" \notin DOMAIN new
  OBVIOUS
<1> HIDE DEF new
<1>5. /\ Does(v, u, K) /\ Has(u.ps, "ORG")
      /\ \A k : SubValue(u.ps, "ORG", k) = SubValue(v.ps, "ORG", k)
  BY <1>2, SetPropSo
<1> HIDE DEF u
<1>6. /\ Does(u, w, K)
      /\ \A k : SubValue(w.ps, "ORG", k) =
                IF k \in DOMAIN new THEN new[k] ELSE SubValue(u.ps, "ORG", k)
  BY <1>2, <1>3, <1>5, SetSubsSo DEF Does
<1>7. Does(v, d, K)
  BY <1>2, DelPropSo
<1> HIDE DEF w, d
<1>8. Does(v, w, K)
  BY <1>5, <1>6, DoesBoth
<1>9. SubValue(w.ps, "ORG", "UNIT") = SubValue(v.ps, "ORG", "UNIT")
  BY <1>4, <1>5, <1>6
<1> QED
  BY <1>1, <1>7, <1>8, <1>9, Zenon

LEMMA TelsSo ==
  ASSUME NEW v, Vobject(v), NEW p, NEW rec, Good("VCARD", p, rec), NEW K, "TEL" \notin K
  PROVE  Does(v, SetTels(v, rec), K)
<1>1. \A i \in 1 .. 4 : IsList(RecFld(rec, TelTypes[i][2]))
  <2>1. \A f \in {"TelHome", "TelWork", "TelMobile", "TelFax"} : IsList(RecFld(rec, f))
    BY FieldsAre, RecFldSo
  <2>2. \A i \in 1 .. 4 : TelTypes[i][2] \in {"TelHome", "TelWork", "TelMobile", "TelFax"}
    BY DEF TelTypes
  <2> QED
    BY <2>1, <2>2
<1> DEFINE Set(w, i) == SetTel(w, TelTypes[i][1], RecFld(rec, TelTypes[i][2]))
           a == Set(v, 1)
           b == Set(a, 2)
           c == Set(b, 3)
           d == Set(c, 4)
<1>2. SetTels(v, rec) = d
  BY Zenon DEF SetTels
<1>3. ASSUME NEW w, Vobject(w), NEW i \in 1 .. 4 PROVE Does(w, Set(w, i), K) /\ Vobject(Set(w, i))
  <2>1. Does(w, Set(w, i), K)
    BY <1>1, <1>3, SetTelSo
  <2> QED
    BY <2>1 DEF Does
<1> HIDE DEF Set
<1>4. 1 \in 1 .. 4 /\ 2 \in 1 .. 4 /\ 3 \in 1 .. 4 /\ 4 \in 1 .. 4
  OBVIOUS
<1>5. Does(v, a, K) /\ Vobject(a)
  BY <1>3, <1>4
<1> HIDE DEF a
<1>6. Does(a, b, K) /\ Vobject(b)
  BY <1>3, <1>4, <1>5
<1> HIDE DEF b
<1>7. Does(b, c, K) /\ Vobject(c)
  BY <1>3, <1>4, <1>6
<1> HIDE DEF c
<1>8. Does(c, d, K)
  BY <1>3, <1>4, <1>7
<1> HIDE DEF d
<1>9. Does(v, c, K)
  BY <1>5, <1>6, <1>7, DoesBoth
<1>10. Does(v, d, K)
  BY <1>8, <1>9, DoesBoth
<1> QED
  BY <1>2, <1>10, Zenon

(* One property after the other: what the steps leave alone stays.         *)
LEMMA ThenString ==
  ASSUME NEW v, NEW w, NEW K, Does(v, w, K), NEW id, id \notin Repeated, id \notin K,
         NEW s, ValOK(id, s)
  PROVE  Does(v, SetString(w, id, s), K)
<1>1. Vobject(w)
  BY DEF Does
<1> DEFINE x == SetString(w, id, s)
<1>2. Does(w, x, K)
  BY <1>1, SetStringSo
<1> HIDE DEF x
<1>3. Does(v, x, K)
  BY <1>2, DoesBoth
<1> QED
  BY <1>3 DEF x

LEMMA ThenNotes ==
  ASSUME NEW v, NEW w, NEW K, Does(v, w, K), NEW type, NoteId(type) \notin K,
         NEW s, IsList(s)
  PROVE  /\ Does(v, SetNotes(w, type, s), K)
         /\ \A mark : Does(v, SetNoteProp(w, type, mark, s), K)
<1>1. Vobject(w)
  BY DEF Does
<1> DEFINE x == SetNotes(w, type, s)
<1>2. Does(w, x, K)
  BY <1>1, SetNotesSo
<1> HIDE DEF x
<1>3. Does(v, x, K)
  BY <1>2, DoesBoth
<1>4. ASSUME NEW mark PROVE Does(v, SetNoteProp(w, type, mark, s), K)
  <2> DEFINE y == SetNoteProp(w, type, mark, s)
  <2>1. Does(w, y, K)
    BY <1>1, SetNotePropSo
  <2> HIDE DEF y
  <2>2. Does(v, y, K)
    BY <2>1, DoesBoth
  <2> QED
    BY <2>2 DEF y
<1> QED
  BY <1>3, <1>4, Zenon DEF x

LEMMA ThenCategory ==
  ASSUME NEW v, NEW w, NEW K, Does(v, w, K), "CATEGORIES" \in K, Object(v.ps),
         NEW new, IsList(new), Len(new) <= 1, NEW J, J = K \ {"CATEGORIES"},
         NEW cats, cats = Parts(StringValue(v.ps, "CATEGORIES"))
  PROVE  /\ Does(v, SetCategory(w, new), J)
         /\ Len(cats) > 1 =>
              OtherCategories(cats) \subseteq ToSet(StringValue(SetCategory(w, new).ps, "CATEGORIES"))
<1> DEFINE x == SetCategory(w, new)
<1>1. Vobject(w) /\ Object(w.ps) /\ Those(w.ps, "CATEGORIES") = Those(v.ps, "CATEGORIES")
  BY DEF Does, Vobject
<1>2. cats = Parts(StringValue(w.ps, "CATEGORIES"))
  <2>1. StringValue(w.ps, "CATEGORIES") = StringValue(v.ps, "CATEGORIES")
    BY <1>1, SameValues DEF Repeated
  <2> QED
    BY <2>1
<1>3. "CATEGORIES" \notin J /\ J \subseteq K
  OBVIOUS
<1>4. /\ Does(w, x, J)
      /\ Len(cats) > 1 => OtherCategories(cats) \subseteq ToSet(StringValue(x.ps, "CATEGORIES"))
  BY <1>1, <1>2, <1>3, SetCategorySo, Zenon
<1> HIDE DEF x
<1>5. Does(v, w, J)
  BY <1>3, DoesLess
<1>6. Does(v, x, J)
  BY <1>4, <1>5, DoesBoth
<1> QED
  BY <1>4, <1>6, Zenon DEF x

(* The conversion to a vCard keeps the photo, the further categories and   *)
(* the unit, and makes the full name of the old one.                       *)
LEMMA VcardSo ==
  ASSUME NEW v, Vobject(v), NEW p, NEW rec, Good("VCARD", p, rec), NEW w,
         w = Ic35AddrToVcard(rec, v),
         NEW cats, cats = Parts(StringValue(v.ps, "CATEGORIES"))
  PROVE  /\ Does(v, w, {"PHOTO"})
         /\ Len(cats) > 1 => OtherCategories(cats) \subseteq ToSet(StringValue(w.ps, "CATEGORIES"))
         /\ RecFld(rec, "Company") # <<>> =>
              SubValue(w.ps, "ORG", "UNIT") = SubValue(v.ps, "ORG", "UNIT")
         /\ StringValue(w.ps, "FN") =
              FullName(StringValue(v.ps, "FN"), SubValue(v.ps, "N", "GIVEN"),
                       SubValue(v.ps, "N", "FAMILY"), RecFld(rec, "FirstName"), RecFld(rec, "LastName"))
<1> DEFINE F(f) == RecFld(rec, f)
           u1 == SetProp(v, "N")
           u2 == SetNames(u1, F("FirstName"), F("LastName"))
           u3 == SetString(u2, "BDAY", F("BirthDate"))
           u4 == SetAddress(u3, rec)
           u5 == SetTels(u4, rec)
           u6 == SetEmail(u5, 1, F("Email1"))
           u7 == SetEmail(u6, 2, F("Email2"))
           u8 == SetCompany(u7, rec)
           u9 == SetString(u8, "URL", F("URL"))
           u10 == SetNoteProp(u9, "VCARD", "DEF1:", F("Def1"))
           u11 == SetNoteProp(u10, "VCARD", "DEF2:", F("Def2"))
           u12 == SetNotes(u11, "VCARD", F("Notes"))
           u13 == SetCategory(u12, F("Category"))
<1>0. w = u13
  BY Zenon DEF Ic35AddrToVcard
<1>1. \A f \in Fields("VCARD") : IsList(F(f))
  BY RecFldSo
<1>2. Word(F("FirstName")) /\ Word(F("LastName")) /\ Len(F("Category")) <= 1
  <2>1. "FirstName" \in Fields("VCARD") /\ "LastName" \in Fields("VCARD") /\ "Category" \in Fields("VCARD")
    BY FieldsAre
  <2>2. /\ StrOK("VCARD", p, "FirstName", F("FirstName"))
        /\ StrOK("VCARD", p, "LastName", F("LastName"))
        /\ StrOK("VCARD", p, "Category", F("Category"))
    BY <2>1, RecFldSo
  <2> HIDE DEF F
  <2> QED
    BY <2>2 DEF StrOK
<1> HIDE DEF F
<1>3. /\ IsList(F("FirstName")) /\ IsList(F("LastName")) /\ IsList(F("BirthDate"))
      /\ IsList(F("Email1")) /\ IsList(F("Email2")) /\ IsList(F("URL"))
      /\ IsList(F("Def1")) /\ IsList(F("Def2")) /\ IsList(F("Notes")) /\ IsList(F("Category"))
  BY <1>1, FieldsAre
<1>4. /\ "N" \notin Repeated /\ "BDAY" \notin Repeated /\ "URL" \notin Repeated
      /\ "FN" \notin Repeated /\ "ORG" \notin Repeated
  BY DEF Repeated
<1>5. ValOK("BDAY", F("BirthDate")) /\ ValOK("URL", F("URL")) /\ ValOK("N", <<>>)
  BY <1>3, AnyVal, NothingOK DEF Particular
<1> DEFINE K == {"PHOTO", "CATEGORIES", "ORG"}
           J == K \cup {"FN"}
           L == {"PHOTO", "CATEGORIES"}
<1>6. /\ "N" \notin J /\ "BDAY" \notin J /\ "ADR" \notin J /\ "TEL" \notin J /\ "EMAIL" \notin J
      /\ "N" \notin K /\ "FN" \notin K
  OBVIOUS
<1>7. /\ Does(v, u1, J) /\ Vobject(u1) /\ Has(u1.ps, "N")
      /\ \A k : SubValue(u1.ps, "N", k) = SubValue(v.ps, "N", k)
  <2>1. /\ Does(v, u1, J) /\ Has(u1.ps, "N")
        /\ \A k : SubValue(u1.ps, "N", k) = SubValue(v.ps, "N", k)
    BY <1>4, <1>5, <1>6, SetPropSo
  <2> QED
    BY <2>1 DEF Does
<1> HIDE DEF u1
<1>8. StringValue(u1.ps, "FN") = StringValue(v.ps, "FN")
  <2>1. Object(v.ps) /\ Object(u1.ps) /\ Those(u1.ps, "FN") = Those(v.ps, "FN")
    BY <1>7 DEF Does, Vobject
  <2> QED
    BY <1>4, <2>1, SameValues
<1> DEFINE fn == FullName(StringValue(v.ps, "FN"), SubValue(v.ps, "N", "GIVEN"),
                          SubValue(v.ps, "N", "FAMILY"), F("FirstName"), F("LastName"))
<1>9. /\ Does(u1, u2, K) /\ Vobject(u2) /\ StringValue(u2.ps, "FN") = fn
  <2> DEFINE sn == FullName(StringValue(u1.ps, "FN"), SubValue(u1.ps, "N", "GIVEN"),
                            SubValue(u1.ps, "N", "FAMILY"), F("FirstName"), F("LastName"))
  <2>1. sn = fn
    <3>1. /\ SubValue(u1.ps, "N", "GIVEN") = SubValue(v.ps, "N", "GIVEN")
          /\ SubValue(u1.ps, "N", "FAMILY") = SubValue(v.ps, "N", "FAMILY")
      BY <1>7
    <3> QED
      BY <1>8, <3>1
  <2>2. Does(u1, u2, K) /\ StringValue(u2.ps, "FN") = sn
    <3> HIDE DEF K
    <3> QED
      BY <1>2, <1>3, <1>6, <1>7, SetNamesSo
  <2> QED
    BY <2>1, <2>2 DEF Does
<1> HIDE DEF u2, fn
<1>10. Does(v, u2, K)
  <2>1. Does(v, u1, K)
    BY <1>7, DoesLess
  <2> HIDE DEF K
  <2> QED
    BY <1>9, <2>1, DoesBoth
<1>11. Does(u2, u3, J)
  <2> HIDE DEF J
  <2> QED
    BY <1>4, <1>5, <1>6, <1>9, SetStringSo
<1> HIDE DEF u3, J
<1>12. Does(u2, u4, J)
  <2>1. Vobject(u3)
    BY <1>11 DEF Does
  <2>2. Does(u3, u4, J)
    BY <1>6, <2>1, AddressSo
  <2> QED
    BY <1>11, <2>2, DoesBoth
<1> HIDE DEF u4
<1>13. Does(u2, u5, J)
  <2>1. Vobject(u4)
    BY <1>12 DEF Does
  <2>2. Does(u4, u5, J)
    BY <1>6, <2>1, TelsSo
  <2> QED
    BY <1>12, <2>2, DoesBoth
<1> HIDE DEF u5
<1>14. Does(u2, u6, J)
  <2>1. Vobject(u5) /\ 1 \in Nat \ {0}
    BY <1>13 DEF Does
  <2>2. Does(u5, u6, J)
    BY <1>3, <1>6, <2>1, SetEmailSo
  <2> QED
    BY <1>13, <2>2, DoesBoth
<1> HIDE DEF u6
<1>15. Does(u2, u7, J) /\ Vobject(u7)
  <2>1. Vobject(u6) /\ 2 \in Nat \ {0}
    BY <1>14 DEF Does
  <2>2. Does(u6, u7, J)
    BY <1>3, <1>6, <2>1, SetEmailSo
  <2>3. Does(u2, u7, J)
    BY <1>14, <2>2, DoesBoth
  <2> QED
    BY <2>3 DEF Does
<1> HIDE DEF u7
<1> DEFINE M == {"PHOTO", "CATEGORIES", "FN"}
<1>16. /\ Does(u7, u8, M) /\ Vobject(u8)
       /\ F("Company") # <<>> => SubValue(u8.ps, "ORG", "UNIT") = SubValue(u7.ps, "ORG", "UNIT")
  <2>1. "ORG" \notin M
    OBVIOUS
  <2> HIDE DEF M
  <2>2. /\ Does(u7, u8, M)
        /\ F("Company") # <<>> => SubValue(u8.ps, "ORG", "UNIT") = SubValue(u7.ps, "ORG", "UNIT")
    BY <1>15, <2>1, CompanySo, Zenon DEF F
  <2>3. Vobject(u8)
    BY <2>2, Zenon DEF Does
  <2> QED
    BY <2>2, <2>3, Zenon DEF M
<1> HIDE DEF u8
<1> DEFINE R == {"PHOTO", "CATEGORIES", "FN", "ORG"}
           Q == {"PHOTO", "FN", "ORG"}
<1>17. Does(u8, u12, R)
  <2>1. "URL" \notin R /\ NoteId("VCARD") \notin R
    BY DEF NoteId
  <2> HIDE DEF R
  <2>2. Does(u8, u9, R)
    BY <1>4, <1>5, <1>16, <2>1, SetStringSo
  <2> HIDE DEF u9
  <2>3. Does(u8, u10, R)
    BY <1>3, <2>1, <2>2, ThenNotes
  <2> HIDE DEF u10
  <2>4. Does(u8, u11, R)
    BY <1>3, <2>1, <2>3, ThenNotes
  <2> HIDE DEF u11
  <2> QED
    BY <1>3, <2>1, <2>4, ThenNotes
<1> HIDE DEF u12
<1>18. /\ Object(v.ps) /\ Object(u2.ps) /\ Object(u7.ps) /\ Object(u8.ps)
  BY <1>9, <1>15, <1>16 DEF Vobject
<1> DEFINE rest == Parts(StringValue(u8.ps, "CATEGORIES"))
<1>19. /\ Does(u8, w, Q)
       /\ Len(rest) > 1 => OtherCategories(rest) \subseteq ToSet(StringValue(w.ps, "CATEGORIES"))
  <2>1. Q = R \ {"CATEGORIES"} /\ "CATEGORIES" \in R
    OBVIOUS
  <2> HIDE DEF Q, R
  <2>2. /\ Does(u8, u13, Q)
        /\ Len(rest) > 1 => OtherCategories(rest) \subseteq ToSet(StringValue(u13.ps, "CATEGORIES"))
    BY <1>2, <1>3, <1>17, <1>18, <2>1, ThenCategory, Zenon
  <2> QED
    BY <1>0, <2>2, Zenon
<1> HIDE DEF u13, rest
<1>20. Object(w.ps)
  BY <1>19 DEF Does, Vobject
<1>21. Those(u8.ps, "CATEGORIES") = Those(v.ps, "CATEGORIES")
  BY <1>10, <1>15, <1>16 DEF Does, K, J, M
<1>22. rest = cats
  <2>1. StringValue(u8.ps, "CATEGORIES") = StringValue(v.ps, "CATEGORIES")
    BY <1>18, <1>21, SameValues DEF Repeated
  <2> QED
    BY <2>1 DEF rest
<1>23. Does(v, w, {"PHOTO"})
  BY <1>10, <1>15, <1>16, <1>19 DEF Does, K, J, M, Q
<1>24. F("Company") # <<>> => SubValue(w.ps, "ORG", "UNIT") = SubValue(v.ps, "ORG", "UNIT")
  <2>1. Those(w.ps, "ORG") = Those(u8.ps, "ORG") /\ Those(u7.ps, "ORG") = Those(v.ps, "ORG")
    BY <1>10, <1>15, <1>19 DEF Does, K, J, Q
  <2>2. SubValue(w.ps, "ORG", "UNIT") = SubValue(u8.ps, "ORG", "UNIT")
    BY <1>4, <1>18, <1>20, <2>1, SameValues
  <2>3. SubValue(u7.ps, "ORG", "UNIT") = SubValue(v.ps, "ORG", "UNIT")
    BY <1>4, <1>18, <2>1, SameValues
  <2> QED
    BY <1>16, <2>2, <2>3
<1>25. StringValue(w.ps, "FN") = fn
  <2>1. Those(w.ps, "FN") = Those(u2.ps, "FN")
    BY <1>15, <1>16, <1>19 DEF Does, J, M, Q
  <2>2. StringValue(w.ps, "FN") = StringValue(u2.ps, "FN")
    BY <1>4, <1>18, <1>20, <2>1, SameValues
  <2> QED
    BY <1>9, <2>2
<1> QED
  BY <1>19, <1>22, <1>23, <1>24, <1>25, Zenon DEF F, fn

(* vCalendar events                                                        *)
LEMMA TupleLists ==
  /\ \A a, b : IsList(<<a, b>>)
  /\ \A a, b, c, d : IsList(<<a, b, c, d>>) /\ <<a, b, c, d>>[4] = d
<1>1. ASSUME NEW a, NEW b PROVE IsList(<<a, b>>)
  <2> DEFINE S == {a, b}
  <2>1. <<a, b>> \in Seq(S)
    OBVIOUS
  <2> QED
    BY <2>1, SeqList
<1>2. ASSUME NEW a, NEW b, NEW c, NEW d PROVE IsList(<<a, b, c, d>>) /\ <<a, b, c, d>>[4] = d
  <2> DEFINE S == {a, b, c, d}
  <2>1. <<a, b, c, d>> \in Seq(S) /\ <<a, b, c, d>>[4] = d
    OBVIOUS
  <2> QED
    BY <2>1, SeqList
<1> QED
  BY <1>1, <1>2

LEMMA SummaryOK == ASSUME NEW s, IsList(s), OneLine(s) PROVE ValOK("SUMMARY", s)
BY DEF ValOK

LEMMA SubjectOK ==
  ASSUME NEW type, NEW p, NEW rec, Good(type, p, rec), "Subject" \in Fields(type)
  PROVE  /\ IsList(RecFld(rec, "Subject")) /\ OneLine(RecFld(rec, "Subject"))
         /\ ValOK("SUMMARY", RecFld(rec, "Subject"))
<1>1. StrOK(type, p, "Subject", RecFld(rec, "Subject"))
  BY RecFldSo
<1>2. IsList(RecFld(rec, "Subject")) /\ OneLine(RecFld(rec, "Subject"))
  BY <1>1 DEF StrOK
<1> QED
  BY <1>2, SummaryOK

LEMMA EventTextSo ==
  ASSUME NEW v, Vobject(v), NEW pr, NEW p, NEW rec, Good("VEVENT", p, rec),
         NEW K, "SUMMARY" \notin K, "CLASS" \notin K, NoteId("VEVENT") \notin K
  PROVE  Does(v, SetEventText(pr, rec, v), K)
<1> DEFINE subject == RecFld(rec, "Subject")
           notes == RecFld(rec, "Notes")
           a == subject \o <<"CR", "NL">>
           long == SubstCRLF(a \o notes)
           s == IF notes = <<>> THEN subject ELSE long
           w == SetString(v, "SUMMARY", s)
           x == SetString(w, "CLASS", <<"PUBLIC">>)
           u == SetString(v, "SUMMARY", subject)
           y == SetNotes(u, "VEVENT", notes)
           z == SetEventText(pr, rec, v)
<1>1. z \in {w, x, y}
  <2>1. z = IF pr = "GNOME" THEN (IF Has(w.ps, "CLASS") THEN w ELSE x) ELSE y
    BY Zenon DEF SetEventText
  <2> HIDE DEF w, x, y, z
  <2> QED
    BY <2>1
<1>2. /\ IsList(subject) /\ OneLine(subject) /\ ValOK("SUMMARY", subject)
  BY SubjectOK, FieldsAre
<1>3. IsList(notes)
  BY RecFldSo, FieldsAre
<1> HIDE DEF subject, notes
<1>4. IsList(long) /\ OneLine(long)
  <2> DEFINE e == <<"CR", "NL">>
             b == a \o notes
  <2>1. IsList(e)
    BY TupleLists
  <2>2. IsList(a)
    <3> HIDE DEF e
    <3>1. IsList(subject \o e)
      BY <1>2, <2>1, JoinedLists
    <3> QED
      BY <3>1, Zenon DEF e
  <2> HIDE DEF a
  <2>3. IsList(b)
    BY <1>3, <2>2, JoinedLists
  <2> HIDE DEF b
  <2>4. IsList(SubstCRLF(b)) /\ OneLine(SubstCRLF(b))
    BY <2>3, CRLFSo
  <2> QED
    BY <2>4, Zenon DEF b
<1>5. ValOK("SUMMARY", s)
  <2>1. ValOK("SUMMARY", long)
    BY <1>4, SummaryOK
  <2> HIDE DEF long
  <2> QED
    BY <1>2, <2>1, Zenon
<1> HIDE DEF s, z
<1>6. Does(v, v, K) /\ "SUMMARY" \notin Repeated /\ "CLASS" \notin Repeated
  BY DoesNothing DEF Repeated
<1>7. Does(v, w, K)
  BY <1>5, <1>6, ThenString
<1> HIDE DEF w
<1>8. Does(v, x, K)
  <2>1. ValOK("CLASS", <<"PUBLIC">>)
    BY SmallLists, AnyVal DEF Particular
  <2> QED
    BY <1>6, <1>7, <2>1, ThenString
<1>9. Does(v, u, K)
  BY <1>2, <1>6, ThenString
<1> HIDE DEF u, x
<1>10. Does(v, y, K)
  BY <1>3, <1>9, ThenNotes
<1> HIDE DEF y
<1>11. Does(v, z, K)
  BY <1>1, <1>7, <1>8, <1>10
<1> QED
  BY <1>11 DEF z

LEMMA RuleSo ==
  ASSUME NEW v, Vobject(v), NEW p, NEW rec, Good("VEVENT", p, rec), NEW K, "RRULE" \notin K
  PROVE  Does(v, SetRule(rec, v), K)
<1> DEFINE rep == Repeat(Byte(rec, "Alarm_Repeat"))
           a == RuleTypes[rep]
           b == Byte(rec, "RepCount")
           c == IF rep = 2 THEN {RecFld(rec, "StartDate")[1] % 7} ELSE {}
           d == RecFld(rec, "RepEndDate")
           s == <<a, b, c, d>>
           w == SetString(v, "RRULE", s)
           x == DelProp(v, "RRULE")
<1>1. SetRule(rec, v) = x \/ SetRule(rec, v) = w
  BY Zenon DEF SetRule
<1>2. IsList(d)
  BY RecFldSo, FieldsAre
<1> HIDE DEF a, b, c, d
<1>3. IsList(s) /\ s[4] = d
  BY TupleLists
<1> HIDE DEF s
<1>4. ValOK("RRULE", s)
  BY <1>2, <1>3 DEF ValOK
<1>5. Does(v, w, K) /\ Does(v, x, K)
  BY <1>4, SetStringSo, DelPropSo DEF Repeated
<1> HIDE DEF w, x
<1> QED
  BY <1>1, <1>5

LEMMA AlarmSo ==
  ASSUME NEW v, Vobject(v), NEW id, id \in {"AALARM", "DALARM"}, NEW wanted,
         NEW time, IsList(time), NEW K, id \notin K
  PROVE  Does(v, SetAlarm(v, id, wanted, time), K)
<1> DEFINE new == [RUNTIME |-> time, SNOOZETIME |-> <<>>, REPEATCOUNT |-> <<"1">>]
           u == SetProp(v, id)
           w == SetSubs(u, id, new)
           d == DelProp(v, id)
<1>1. SetAlarm(v, id, wanted, time) = d \/ SetAlarm(v, id, wanted, time) = w
  BY Zenon DEF SetAlarm
<1>2. id \notin Repeated /\ id # "N" /\ ValOK(id, <<>>)
  BY NothingOK DEF Repeated
<1>3. SubOK(id, new)
  <2>1. IsList(<<>>) /\ IsList(<<"1">>)
    BY SmallLists
  <2> DEFINE one == <<"1">>
  <2> HIDE DEF one
  <2>2. new = [RUNTIME |-> time, SNOOZETIME |-> <<>>, REPEATCOUNT |-> one]
    BY Zenon DEF one
  <2>3. IsList(one)
    BY <2>1 DEF one
  <2> HIDE DEF new
  <2>4. \A k \in DOMAIN new : IsList(new[k])
    BY <2>1, <2>2, <2>3
  <2> QED
    BY <1>2, <2>4, Zenon DEF SubOK
<1> HIDE DEF new
<1>4. Does(v, u, K) /\ Has(u.ps, id)
  BY <1>2, SetPropSo
<1> HIDE DEF u
<1>5. Does(u, w, K)
  BY <1>2, <1>3, <1>4, SetSubsSo DEF Does
<1>6. Does(v, d, K)
  BY <1>2, DelPropSo
<1> HIDE DEF w, d
<1>7. Does(v, w, K)
  BY <1>4, <1>5, DoesBoth
<1> QED
  BY <1>1, <1>6, <1>7

LEMMA AlarmsSo ==
  ASSUME NEW v, Vobject(v), NEW pr, NEW rec, NEW K, "AALARM" \notin K, "DALARM" \notin K
  PROVE  Does(v, SetAlarms(pr, rec, v), K)
<1> DEFINE n == Byte(rec, "Alarm_Repeat")
           before == Byte(rec, "AlarmBefore")
           time == <<RecFld(rec, "StartDate")[1] * Day + RecFld(rec, "StartTime")[1]
                     - (IF before <= 1 THEN 0 ELSE AlarmBefore[before]), 0>>
           aa == ~NoBeep(n) /\ pr # "KDE"
           da == ~NoLED(n) \/ (~NoBeep(n) /\ pr = "KDE")
           a == SetAlarm(v, "AALARM", aa, time)
           w == SetAlarm(a, "DALARM", da, time)
           d == DelProp(v, "AALARM")
           x == DelProp(d, "DALARM")
<1>1. SetAlarms(pr, rec, v) = x \/ SetAlarms(pr, rec, v) = w
  BY Zenon DEF SetAlarms
<1>2. IsList(time)
  BY TupleLists
<1> HIDE DEF time, aa, da
<1>3. Does(v, a, K)
  BY <1>2, AlarmSo
<1>4. Does(v, d, K)
  BY DelPropSo DEF Repeated
<1> HIDE DEF a, d
<1>5. Vobject(a) /\ Vobject(d)
  BY <1>3, <1>4 DEF Does
<1>6. Does(a, w, K)
  BY <1>2, <1>5, AlarmSo
<1>7. Does(d, x, K)
  BY <1>5, DelPropSo DEF Repeated
<1> HIDE DEF w, x
<1>8. Does(v, w, K) /\ Does(v, x, K)
  BY <1>3, <1>4, <1>6, <1>7, DoesBoth
<1> QED
  BY <1>1, <1>8

LEMMA VeventSo ==
  ASSUME NEW v, Vobject(v), NEW pr, NEW p, NEW rec, Good("VEVENT", p, rec)
  PROVE  Does(v, Ic35SchedToVevent(pr, rec, v), {"PHOTO", "CATEGORIES"})
<1> DEFINE K == {"PHOTO", "CATEGORIES"}
           s == IsoTime(RecFld(rec, "StartDate"), RecFld(rec, "StartTime"))
           e == IsoTime(RecFld(rec, "EndDate"), RecFld(rec, "EndTime"))
           u1 == SetString(v, "DTSTART", s)
           u2 == SetString(u1, "DTEND", e)
           u3 == SetEventText(pr, rec, u2)
           u4 == SetRule(rec, u3)
           u5 == SetAlarms(pr, rec, u4)
<1>1. Ic35SchedToVevent(pr, rec, v) = u5
  BY Zenon DEF Ic35SchedToVevent
<1>2. IsList(s) /\ IsList(e)
  BY TupleLists, Zenon DEF IsoTime
<1> HIDE DEF s, e
<1>3. ValOK("DTSTART", s) /\ ValOK("DTEND", e)
  BY <1>2, AnyVal DEF Particular
<1>4. /\ "DTSTART" \notin K /\ "DTEND" \notin K /\ "SUMMARY" \notin K /\ "CLASS" \notin K
      /\ NoteId("VEVENT") \notin K /\ "RRULE" \notin K /\ "AALARM" \notin K /\ "DALARM" \notin K
      /\ "DTSTART" \notin Repeated /\ "DTEND" \notin Repeated
  BY DEF NoteId, Repeated
<1> HIDE DEF K
<1>5. Does(v, u1, K)
  BY <1>3, <1>4, SetStringSo
<1> HIDE DEF u1
<1>6. Does(v, u2, K)
  BY <1>3, <1>4, <1>5, ThenString
<1> HIDE DEF u2
<1>7. Does(u2, u3, K)
  BY <1>4, <1>6, EventTextSo DEF Does
<1> HIDE DEF u3
<1>8. Does(u3, u4, K)
  BY <1>4, <1>7, RuleSo DEF Does
<1> HIDE DEF u4
<1>9. Does(u4, u5, K)
  BY <1>4, <1>8, AlarmsSo DEF Does
<1> HIDE DEF u5
<1>10. Does(v, u3, K)
  BY <1>6, <1>7, DoesBoth
<1>11. Does(v, u4, K)
  BY <1>8, <1>10, DoesBoth
<1>12. Does(v, u5, K)
  BY <1>9, <1>11, DoesBoth
<1> QED
  BY <1>1, <1>12, Zenon DEF K

(* To-do records and memos                                                 *)
LEMMA StillCategories ==
  ASSUME NEW v, Vobject(v), NEW w, NEW K, Does(v, w, K), "CATEGORIES" \in K,
         NEW cats, cats = Parts(StringValue(v.ps, "CATEGORIES"))
  PROVE  /\ StringValue(w.ps, "CATEGORIES") = StringValue(v.ps, "CATEGORIES")
         /\ OtherCategories(cats) \subseteq ToSet(StringValue(w.ps, "CATEGORIES"))
<1> DEFINE old == StringValue(v.ps, "CATEGORIES")
<1>1. Object(v.ps) /\ Object(w.ps) /\ Those(w.ps, "CATEGORIES") = Those(v.ps, "CATEGORIES")
  BY DEF Does, Vobject
<1>2. StringValue(w.ps, "CATEGORIES") = old
  BY <1>1, SameValues DEF Repeated
<1>3. ToSet(cats) = ToSet(old) \ {";"}
  BY <1>1, ValueSo, PartsSo DEF Repeated
<1>4. OtherCategories(cats) \subseteq ToSet(cats)
  BY Zenon DEF OtherCategories
<1> HIDE DEF old
<1>5. OtherCategories(cats) \subseteq ToSet(old)
  BY <1>3, <1>4
<1> QED
  BY <1>2, <1>5, Zenon DEF old

LEMMA TodoDatesSo ==
  ASSUME NEW v, Vobject(v), NEW p, NEW rec, Good("VTODO", p, rec), NEW w,
         w = TodoDates(p, rec, v), NEW cats, cats = Parts(StringValue(v.ps, "CATEGORIES"))
  PROVE  /\ Does(v, w, {"PHOTO"})
         /\ Len(cats) > 1 => OtherCategories(cats) \subseteq ToSet(StringValue(w.ps, "CATEGORIES"))
<1> DEFINE K == {"PHOTO", "CATEGORIES"}
           J == {"PHOTO"}
           F(f) == RecFld(rec, f)
           start == Append(F("StartDate"), "T0000")
           due == Append(F("EndDate"), "T2359")
           Mark(u, mark, f) == SetNoteProp(u, "VTODO", mark, F(f))
           public == <<"PUBLIC">>
           a == SetString(v, "CLASS", public)
           classed == IF Has(v.ps, "CLASS") THEN v ELSE a
           k1 == Mark(v, "DUE:", "EndDate")
           k2 == Mark(k1, "DTSTART:", "StartDate")
           k3 == Mark(k2, "CATEGORIES:", "Category")
           g == Mark(classed, "DTSTART:", "StartDate")
           o == SetString(v, "DTSTART", start)
           b == IF p = "GNOME" THEN g ELSE o
           d == SetString(b, "DUE", due)
           c == SetCategory(d, F("Category"))
<1>1. w = IF p = "KDE" THEN k3 ELSE c
  BY Zenon DEF TodoDates
<1>2. \A f \in {"StartDate", "EndDate", "Category"} : IsList(F(f)) /\ StrOK("VTODO", p, f, F(f))
  BY RecFldSo, FieldsAre
<1> HIDE DEF F
<1>3. ValOK("DTSTART", start) /\ ValOK("DUE", due) /\ ValOK("CLASS", public)
  <2>1. IsList(start) /\ IsList(due) /\ IsList(public)
    BY <1>2, Added, SmallLists
  <2> HIDE DEF start, due, public
  <2> QED
    BY <2>1, AnyVal DEF Particular
<1> HIDE DEF start, due, public
<1>4. /\ "CLASS" \notin Repeated /\ "DTSTART" \notin Repeated /\ "DUE" \notin Repeated
      /\ "CLASS" \notin K /\ "DTSTART" \notin K /\ "DUE" \notin K
      /\ NoteId("VTODO") \notin K /\ J = K \ {"CATEGORIES"} /\ "CATEGORIES" \in K
  BY DEF Repeated, NoteId
<1> HIDE DEF J, K
<1>5. Does(v, v, K) /\ Object(v.ps)
  BY DoesNothing DEF Vobject
<1>6. CASE p = "KDE"
  <2>1. Does(v, k1, K)
    BY <1>2, <1>4, <1>5, ThenNotes
  <2> HIDE DEF k1
  <2>2. Does(v, k2, K)
    BY <1>2, <1>4, <2>1, ThenNotes
  <2> HIDE DEF k2
  <2>3. Does(v, k3, K)
    BY <1>2, <1>4, <2>2, ThenNotes
  <2>4. Does(v, w, K)
    BY <1>1, <1>6, <2>3, Zenon
  <2>5. Does(v, w, J)
    BY <1>4, <2>4, DoesLess
  <2> QED
    BY <1>4, <2>4, <2>5, StillCategories, Zenon DEF J
<1>7. CASE p # "KDE"
  <2>1. Does(v, a, K)
    BY <1>3, <1>4, <1>5, ThenString
  <2> HIDE DEF a
  <2>2. Does(v, classed, K)
    BY <1>5, <2>1, Zenon
  <2> HIDE DEF classed
  <2>3. Does(v, g, K)
    BY <1>2, <1>4, <2>2, ThenNotes
  <2>4. Does(v, o, K)
    BY <1>3, <1>4, <1>5, ThenString
  <2> HIDE DEF g, o
  <2>5. Does(v, b, K)
    BY <2>3, <2>4, Zenon
  <2> HIDE DEF b
  <2>6. Does(v, d, K)
    BY <1>3, <1>4, <2>5, ThenString
  <2> HIDE DEF d
  <2>7. Len(F("Category")) <= 1 /\ IsList(F("Category"))
    BY <1>2, <1>7 DEF StrOK
  <2>8. /\ Does(v, c, J)
        /\ Len(cats) > 1 => OtherCategories(cats) \subseteq ToSet(StringValue(c.ps, "CATEGORIES"))
    BY <1>4, <1>5, <2>6, <2>7, ThenCategory, Zenon
  <2> QED
    BY <1>1, <1>7, <2>8, Zenon DEF J
<1> QED
  BY <1>6, <1>7

LEMMA VtodoSo ==
  ASSUME NEW v, Vobject(v), NEW p, NEW rec, Good("VTODO", p, rec), NEW w,
         w = Ic35TodoToVtodo(p, rec, v), NEW cats, cats = Parts(StringValue(v.ps, "CATEGORIES"))
  PROVE  /\ Does(v, w, {"PHOTO"})
         /\ Len(cats) > 1 => OtherCategories(cats) \subseteq ToSet(StringValue(w.ps, "CATEGORIES"))
<1> DEFINE K == {"PHOTO", "CATEGORIES"}
           u1 == SetString(v, "SUMMARY", RecFld(rec, "Subject"))
           u2 == SetNotes(u1, "VTODO", RecFld(rec, "Notes"))
           u3 == TodoDates(p, rec, u2)
           s == IF Byte(rec, "Completed") = 0 THEN <<"NEEDS ACTION">> ELSE <<"COMPLETED">>
           u4 == SetString(u3, "STATUS", s)
           t == CASE Byte(rec, "Priority") = 2 -> <<1>>
                  [] Byte(rec, "Priority") = 0 -> <<5>>
                  [] OTHER                     -> <<3>>
           u5 == SetString(u4, "PRIORITY", t)
<1>1. w = u5
  BY DEF Ic35TodoToVtodo
<1>2. ValOK("STATUS", s) /\ ValOK("PRIORITY", t)
  <2> DEFINE x == <<1>>
             y == <<5>>
             z == <<3>>
  <2>1. t = CASE Byte(rec, "Priority") = 2 -> x
              [] Byte(rec, "Priority") = 0 -> y
              [] OTHER                     -> z
    OBVIOUS
  <2>2. IsList(x) /\ IsList(y) /\ IsList(z) /\ IsList(<<"NEEDS ACTION">>) /\ IsList(<<"COMPLETED">>)
    BY SmallLists
  <2>3. IsList(s)
    BY <2>2, Zenon
  <2> HIDE DEF x, y, z, t, s
  <2>4. IsList(t)
    BY <2>1, <2>2
  <2> QED
    BY <2>3, <2>4, AnyVal DEF Particular
<1>3. /\ "SUMMARY" \notin Repeated /\ "STATUS" \notin Repeated /\ "PRIORITY" \notin Repeated
      /\ "SUMMARY" \notin K /\ "STATUS" \notin K /\ "PRIORITY" \notin K
      /\ NoteId("VTODO") \notin K /\ {"PHOTO"} \subseteq K /\ "CATEGORIES" \in K
  BY DEF Repeated, NoteId
<1>4. ValOK("SUMMARY", RecFld(rec, "Subject")) /\ IsList(RecFld(rec, "Notes"))
  BY SubjectOK, RecFldSo, FieldsAre
<1> HIDE DEF K, s, t
<1>5. Does(v, u1, K)
  BY <1>3, <1>4, SetStringSo
<1> HIDE DEF u1
<1>6. Does(v, u2, K) /\ Vobject(u2)
  <2>1. Does(v, u2, K)
    BY <1>3, <1>4, <1>5, ThenNotes
  <2> QED
    BY <2>1 DEF Does
<1> HIDE DEF u2
<1>7. StringValue(u2.ps, "CATEGORIES") = StringValue(v.ps, "CATEGORIES")
  BY <1>3, <1>6, StillCategories
<1>8. cats = Parts(StringValue(u2.ps, "CATEGORIES"))
  BY <1>7
<1>9. /\ Does(u2, u3, {"PHOTO"})
      /\ Len(cats) > 1 => OtherCategories(cats) \subseteq ToSet(StringValue(u3.ps, "CATEGORIES"))
  BY <1>6, <1>8, TodoDatesSo, Zenon
<1> HIDE DEF u3
<1>10. Does(u3, u3, K) /\ Vobject(u3)
  BY <1>9, DoesNothing DEF Does
<1>11. Does(u3, u4, K)
  BY <1>2, <1>3, <1>10, ThenString
<1> HIDE DEF u4
<1>12. Does(u3, w, K)
  <2>1. Does(u3, u5, K)
    BY <1>2, <1>3, <1>11, ThenString
  <2> QED
    BY <1>1, <2>1, Zenon
<1>13. Does(v, w, {"PHOTO"})
  <2> DEFINE J == {"PHOTO"}
  <2>1. J \subseteq K
    BY <1>3
  <2> HIDE DEF J
  <2>2. Does(v, u2, J) /\ Does(u3, w, J)
    BY <1>6, <1>12, <2>1, DoesLess
  <2>3. Does(u2, u3, J)
    BY <1>9 DEF J
  <2>4. Does(v, u3, J)
    BY <2>2, <2>3, DoesBoth
  <2>5. Does(v, w, J)
    BY <2>2, <2>4, DoesBoth
  <2> QED
    BY <2>5 DEF J
<1>14. StringValue(w.ps, "CATEGORIES") = StringValue(u3.ps, "CATEGORIES")
  BY <1>3, <1>10, <1>12, StillCategories
<1> QED
  BY <1>9, <1>13, <1>14, Zenon

LEMMA VmemoSo ==
  ASSUME NEW v, Vobject(v), NEW p, NEW rec, Good("VMEMO", p, rec), NEW w,
         w = Ic35MemoToVmemo(rec, v), NEW cats, cats = Parts(StringValue(v.ps, "CATEGORIES"))
  PROVE  /\ Does(v, w, {"PHOTO"})
         /\ Len(cats) > 1 => OtherCategories(cats) \subseteq ToSet(StringValue(w.ps, "CATEGORIES"))
<1> DEFINE K == {"PHOTO", "CATEGORIES"}
           J == {"PHOTO"}
           u1 == SetString(v, "SUMMARY", RecFld(rec, "Subject"))
           u2 == SetNotes(u1, "VMEMO", RecFld(rec, "Notes"))
           u3 == SetCategory(u2, RecFld(rec, "Category"))
<1>1. w = u3
  BY Zenon DEF Ic35MemoToVmemo
<1>2. /\ "SUMMARY" \notin Repeated /\ "SUMMARY" \notin K
      /\ NoteId("VMEMO") \notin K /\ J = K \ {"CATEGORIES"} /\ "CATEGORIES" \in K
  BY DEF Repeated, NoteId
<1>3. ValOK("SUMMARY", RecFld(rec, "Subject")) /\ IsList(RecFld(rec, "Notes"))
  BY SubjectOK, RecFldSo, FieldsAre
<1>4. IsList(RecFld(rec, "Category")) /\ Len(RecFld(rec, "Category")) <= 1
  <2>1. StrOK("VMEMO", p, "Category", RecFld(rec, "Category"))
    BY RecFldSo, FieldsAre
  <2> QED
    BY <2>1 DEF StrOK
<1> HIDE DEF K, J
<1>5. Does(v, u1, K) /\ Object(v.ps)
  BY <1>2, <1>3, SetStringSo DEF Vobject
<1> HIDE DEF u1
<1>6. Does(v, u2, K)
  BY <1>2, <1>3, <1>5, ThenNotes
<1> HIDE DEF u2
<1>7. /\ Does(v, u3, J)
      /\ Len(cats) > 1 => OtherCategories(cats) \subseteq ToSet(StringValue(u3.ps, "CATEGORIES"))
  BY <1>2, <1>4, <1>5, <1>6, ThenCategory, Zenon
<1> QED
  BY <1>1, <1>7, Zenon DEF J

(* vca_putic35rec: what it keeps of the object, and the full name          *)
LEMMA FilledSo ==
  ASSUME NEW type \in {"VCARD", "VEVENT", "VTODO", "VMEMO"}, NEW v, Vobject(v),
         NEW p, NEW rec, Good(type, p, rec), NEW w, w = Filled(type, p, rec, v),
         NEW cats, cats = Parts(StringValue(v.ps, "CATEGORIES"))
  PROVE  /\ Does(v, w, {"PHOTO"})
         /\ Len(cats) > 1 => OtherCategories(cats) \subseteq ToSet(StringValue(w.ps, "CATEGORIES"))
         /\ type = "VCARD" => w = Ic35AddrToVcard(rec, v)
<1> DEFINE K == {"PHOTO", "CATEGORIES"}
           a == Ic35AddrToVcard(rec, v)
           b == Ic35SchedToVevent(p, rec, v)
           c == Ic35TodoToVtodo(p, rec, v)
           d == Ic35MemoToVmemo(rec, v)
<1>1. w = CASE type = "VCARD"  -> a
            [] type = "VEVENT" -> b
            [] type = "VTODO"  -> c
            [] OTHER           -> d
  BY DEF Filled
<1> HIDE DEF a, b, c, d
<1>2. /\ type = "VCARD" => w = a
      /\ type = "VEVENT" => w = b
      /\ type = "VTODO" => w = c
      /\ type = "VMEMO" => w = d
  BY <1>1
<1>3. CASE type = "VCARD"
  BY <1>2, <1>3, VcardSo, Zenon DEF a
<1>4. CASE type = "VEVENT"
  <2>1. Does(v, b, K)
    BY <1>4, VeventSo DEF b
  <2>2. {"PHOTO"} \subseteq K /\ "CATEGORIES" \in K
    OBVIOUS
  <2> HIDE DEF K
  <2>3. Does(v, b, {"PHOTO"}) /\ OtherCategories(cats) \subseteq ToSet(StringValue(b.ps, "CATEGORIES"))
    BY <2>1, <2>2, DoesLess, StillCategories
  <2>4. w = b /\ type # "VCARD"
    BY <1>2, <1>4
  <2> QED
    BY <2>3, <2>4, Zenon
<1>5. CASE type = "VTODO"
  <2>1. w = Ic35TodoToVtodo(p, rec, v) /\ Good("VTODO", p, rec) /\ type # "VCARD"
    BY <1>2, <1>5 DEF c
  <2> QED
    BY <2>1, VtodoSo, Zenon
<1>6. CASE type = "VMEMO"
  <2>1. w = Ic35MemoToVmemo(rec, v) /\ Good("VMEMO", p, rec) /\ type # "VCARD"
    BY <1>2, <1>6 DEF d
  <2> QED
    BY <2>1, VmemoSo, Zenon
<1> QED
  BY <1>3, <1>4, <1>5, <1>6, Zenon

PutKeeps(type, rec, ps, put, cats) ==
  /\ Object(put)
  /\ StringValue(put, "PHOTO") = StringValue(ps, "PHOTO")
  /\ Len(cats) > 1 => OtherCategories(cats) \subseteq ToSet(StringValue(put, "CATEGORIES"))
  /\ type = "VCARD" =>
       /\ RecFld(rec, "Company") # <<>> => SubValue(put, "ORG", "UNIT") = SubValue(ps, "ORG", "UNIT")
       /\ StringValue(put, "FN") =
            FullName(StringValue(ps, "FN"), SubValue(ps, "N", "GIVEN"), SubValue(ps, "N", "FAMILY"),
                     RecFld(rec, "FirstName"), RecFld(rec, "LastName"))

LEMMA PutSo ==
  ASSUME NEW type \in {"VCARD", "VEVENT", "VTODO", "VMEMO"}, NEW ps, Object(ps),
         NEW p, NEW rec, Good(type, p, rec), NEW now,
         NEW put, put = PutIc35Rec(type, p, rec, ps, now),
         NEW cats, cats = Parts(StringValue(ps, "CATEGORIES"))
  PROVE  PutKeeps(type, rec, ps, put, cats)
<1> DEFINE K == {"PHOTO", "CATEGORIES", "ORG", "FN"}
           v == Clean(ps)
           w == Filled(type, p, rec, v)
           u1 == SetModtimeIfDirty(w, type, now)
           u2 == SetUid(u1)
           u3 == SetLong(u2, "X-PILOTID", 1)
           u4 == SetLong(u3, "X-PILOTSTAT", 0)
<1>1. put = u4.ps
  BY Zenon DEF PutIc35Rec
<1>2. v.ps = ps /\ Vobject(v)
  BY DEF Clean, Vobject
<1> HIDE DEF v
<1>3. /\ Does(v, w, {"PHOTO"})
      /\ Len(cats) > 1 => OtherCategories(cats) \subseteq ToSet(StringValue(w.ps, "CATEGORIES"))
      /\ type = "VCARD" => w = Ic35AddrToVcard(rec, v)
  <2>1. cats = Parts(StringValue(v.ps, "CATEGORIES"))
    BY <1>2
  <2> QED
    BY <1>2, <2>1, FilledSo, Zenon
<1> HIDE DEF w
<1>4. Vobject(w)
  BY <1>3 DEF Does
<1>5. /\ K \cap {"DCREATED", "REV", "LAST-MODIFIED"} = {} /\ "UID" \notin K
      /\ "X-PILOTID" \notin K /\ "X-PILOTSTAT" \notin K
      /\ "X-PILOTID" \notin Repeated /\ "X-PILOTSTAT" \notin Repeated
  BY DEF Repeated
<1>6. ValOK("X-PILOTID", <<1>>) /\ ValOK("X-PILOTSTAT", <<0>>)
  BY SmallLists, AnyVal DEF Particular
<1>7. Does(w, u1, K)
  <2> HIDE DEF K
  <2> QED
    BY <1>4, <1>5, SetModtimeSo
<1> HIDE DEF u1, K
<1>8. Does(u1, u2, K)
  BY <1>5, <1>7, SetUidSo DEF Does
<1> HIDE DEF u2
<1>9. Does(u2, u3, K)
  BY <1>5, <1>6, <1>8, SetLongSo DEF Does
<1> HIDE DEF u3
<1>10. Does(u3, u4, K)
  BY <1>5, <1>6, <1>9, SetLongSo DEF Does
<1> HIDE DEF u4
<1>11. Does(w, u2, K)
  BY <1>7, <1>8, DoesBoth
<1>12. Does(w, u3, K)
  BY <1>9, <1>11, DoesBoth
<1>13. Does(w, u4, K)
  BY <1>10, <1>12, DoesBoth
<1>14. /\ Object(put) /\ Object(w.ps)
       /\ \A id \in {"PHOTO", "CATEGORIES", "ORG", "FN"} : Those(put, id) = Those(w.ps, id)
  <2>1. Object(u4.ps) /\ Object(w.ps) /\ \A id \in K : Those(u4.ps, id) = Those(w.ps, id)
    BY <1>4, <1>13 DEF Does, Vobject
  <2> QED
    BY <1>1, <2>1, Zenon DEF K
<1>15. \A id \in {"PHOTO", "CATEGORIES", "ORG", "FN"} :
         /\ StringValue(put, id) = StringValue(w.ps, id)
         /\ \A k : SubValue(put, id, k) = SubValue(w.ps, id, k)
  <2> SUFFICES ASSUME NEW id \in {"PHOTO", "CATEGORIES", "ORG", "FN"}
               PROVE  /\ StringValue(put, id) = StringValue(w.ps, id)
                      /\ \A k : SubValue(put, id, k) = SubValue(w.ps, id, k)
    OBVIOUS
  <2>1. id \notin Repeated /\ Those(put, id) = Those(w.ps, id)
    BY <1>14 DEF Repeated
  <2> QED
    BY <1>14, <2>1, SameValues
<1>16. StringValue(put, "PHOTO") = StringValue(ps, "PHOTO")
  <2>1. Those(w.ps, "PHOTO") = Those(ps, "PHOTO")
    BY <1>2, <1>3 DEF Does
  <2>2. StringValue(w.ps, "PHOTO") = StringValue(ps, "PHOTO")
    BY <1>14, <2>1, SameValues DEF Repeated
  <2> QED
    BY <1>15, <2>2
<1>17. StringValue(put, "CATEGORIES") = StringValue(w.ps, "CATEGORIES")
  BY <1>15
<1>18. ASSUME type = "VCARD"
       PROVE  /\ RecFld(rec, "Company") # <<>> =>
                   SubValue(put, "ORG", "UNIT") = SubValue(ps, "ORG", "UNIT")
              /\ StringValue(put, "FN") =
                   FullName(StringValue(ps, "FN"), SubValue(ps, "N", "GIVEN"), SubValue(ps, "N", "FAMILY"),
                            RecFld(rec, "FirstName"), RecFld(rec, "LastName"))
  <2>1. Good("VCARD", p, rec) /\ w = Ic35AddrToVcard(rec, v)
    BY <1>3, <1>18
  <2>2. /\ RecFld(rec, "Company") # <<>> =>
             SubValue(w.ps, "ORG", "UNIT") = SubValue(v.ps, "ORG", "UNIT")
        /\ StringValue(w.ps, "FN") =
             FullName(StringValue(v.ps, "FN"), SubValue(v.ps, "N", "GIVEN"),
                      SubValue(v.ps, "N", "FAMILY"), RecFld(rec, "FirstName"), RecFld(rec, "LastName"))
    BY <1>2, <2>1, VcardSo, Zenon
  <2>3. SubValue(put, "ORG", "UNIT") = SubValue(w.ps, "ORG", "UNIT")
        /\ StringValue(put, "FN") = StringValue(w.ps, "FN")
    BY <1>15
  <2> QED
    BY <1>2, <2>2, <2>3, Zenon
<1> QED
  BY <1>3, <1>14, <1>16, <1>17, <1>18, Zenon DEF PutKeeps

(* The full name: both names in it are replaced.                           *)
AssocSo(a, b, c) == (a \o b) \o c = a \o (b \o c)
SwapSo(h, c, t, new) == DupSubst(h \o (<<c>> \o t), <<c>>, new) = h \o (new \o t)

LEMMA Assoc ==
  ASSUME NEW a, NEW b, NEW c, IsList(a), IsList(b), IsList(c) PROVE AssocSo(a, b, c)
<1> DEFINE S == ToSet(a) \cup ToSet(b) \cup ToSet(c)
<1>1. a \in Seq(S) /\ b \in Seq(S) /\ c \in Seq(S)
  BY ListSeq, SeqMonotonic
<1> HIDE DEF S
<1> QED
  BY <1>1, ConcatAssociative DEF AssocSo

LEMMA NoneAdded == ASSUME NEW a, IsList(a) PROVE a \o <<>> = a /\ <<>> \o a = a
<1>1. a \in Seq(ToSet(a))
  BY ListSeq
<1> QED
  BY <1>1, ConcatEmptySeq

LEMMA SwapOne ==
  ASSUME NEW h, NEW c, NEW t, NEW new, IsList(h), IsList(t), IsList(new), c \notin ToSet(h)
  PROVE  SwapSo(h, c, t, new)
<1> DEFINE one == <<c>>
           r == one \o t
           s == h \o r
           n == Find(s, one)
           m == Len(h) + 1
<1>1. IsList(one) /\ Len(one) = 1 /\ one[1] = c
  BY SmallLists
<1>2. one # <<>>
  OBVIOUS
<1> HIDE DEF one
<1>3. JoinedSo(one, t, r)
  BY <1>1, Joined
<1> HIDE DEF r
<1>4. JoinedSo(h, r, s)
  BY <1>3, Joined, Zenon DEF JoinedSo
<1>5. /\ Len(h) \in Nat /\ Len(t) \in Nat /\ m \in Nat /\ IsList(s)
      /\ Len(s) = Len(h) + 1 + Len(t)
      /\ \A i \in 1 .. Len(h) : s[i] = h[i]
      /\ s[m] = c
      /\ \A i \in 1 .. Len(t) : s[m + i] = t[i]
  <2> HIDE DEF s
  <2>1. Len(h) \in Nat /\ Len(t) \in Nat /\ Len(r) = 1 + Len(t) /\ r[1] = c
    BY <1>1, <1>3, ListSeq DEF JoinedSo
  <2>2. \A i \in 1 .. Len(t) : r[1 + i] = t[i]
    BY <1>1, <1>3 DEF JoinedSo
  <2>3. /\ IsList(s) /\ Len(s) = Len(h) + Len(r) /\ \A i \in 1 .. Len(h) : s[i] = h[i]
        /\ \A i \in 1 .. Len(r) : s[Len(h) + i] = r[i]
    BY <1>4 DEF JoinedSo
  <2>4. \A i \in 1 .. Len(t) : 1 + i \in 1 .. Len(r) /\ Len(h) + (1 + i) = m + i
    BY <2>1
  <2>5. 1 \in 1 .. Len(r)
    BY <2>1
  <2>6. s[m] = c
    BY <2>1, <2>3, <2>5
  <2>7. \A i \in 1 .. Len(t) : s[m + i] = t[i]
    BY <2>2, <2>3, <2>4
  <2> QED
    BY <2>1, <2>3, <2>6, <2>7
<1>6. \A i \in 1 .. Len(s) : OccursAt(s, one, i) <=> s[i] = c
  <2> SUFFICES ASSUME NEW i \in 1 .. Len(s) PROVE OccursAt(s, one, i) <=> s[i] = c
    OBVIOUS
  <2> HIDE DEF s
  <2>1. Len(s) \in Nat
    BY <1>5
  <2>2. i + Len(one) - 1 = i /\ i <= Len(s) /\ i \in Int /\ 1 <= i
    BY <1>1, <2>1
  <2>3. OccursAt(s, one, i) <=> SubSeq(s, i, i) = one
    BY <2>2 DEF OccursAt
  <2> DEFINE x == SubSeq(s, i, i)
  <2>4. IsList(x) /\ Len(x) = 1 /\ x[1] = s[i]
    <3>1. /\ IsList(x) /\ Len(x) = IF i <= i THEN i - i + 1 ELSE 0
          /\ \A j \in 1 .. i - i + 1 : x[j] = s[i + j - 1]
      BY <1>5, <2>2, PartOf
    <3>2. i - i + 1 = 1 /\ i <= i /\ 1 \in 1 .. 1 /\ i + 1 - 1 = i
      BY <2>2
    <3> HIDE DEF x
    <3> QED
      BY <3>1, <3>2
  <2> HIDE DEF x
  <2>5. x = one <=> x[1] = one[1]
    <3>1. x[1] = one[1] => \A j \in 1 .. Len(x) : x[j] = one[j]
      BY <2>4
    <3> QED
      BY <1>1, <2>4, <3>1, SameLists
  <2> QED
    BY <1>1, <2>3, <2>4, <2>5 DEF x
<1> DEFINE u == s
<1>7. n = m
  <2>1. \/ n = 0 /\ \A i \in 1 .. Len(s) : ~OccursAt(s, one, i)
        \/ /\ n \in 1 .. Len(s) /\ n # 0 /\ OccursAt(s, one, n)
           /\ \A i \in 1 .. Len(s) : OccursAt(s, one, i) => n <= i
    BY <1>5, FindSo
  <2> HIDE DEF s, n
  <2>2. m \in 1 .. Len(s) /\ OccursAt(s, one, m)
    BY <1>5, <1>6
  <2>3. n \in 1 .. Len(s) /\ s[n] = c /\ n <= m
    BY <1>6, <2>1, <2>2
  <2>4. ~(n <= Len(h))
    <3> SUFFICES ASSUME n <= Len(h) PROVE FALSE
      OBVIOUS
    <3>1. n \in 1 .. Len(h)
      BY <1>5, <2>3
    <3>2. h[n] = c
      BY <1>5, <2>3, <3>1
    <3>3. h[n] \in ToSet(h)
      <4>1. ToSet(h) = {h[i] : i \in 1 .. Len(h)}
        BY Elements
      <4> QED
        BY <3>1, <4>1
    <3> QED
      BY <3>2, <3>3
  <2> QED
    BY <1>5, <2>3, <2>4
<1> DEFINE a == SubSeq(s, 1, n - 1)
           b == SubSeq(s, n + Len(one), Len(s))
           w == DupSubst(s, one, new)
<1>8. w = a \o new \o b
  <2>1. w = IF one = <<>> \/ n = 0 THEN s ELSE a \o new \o b
    BY Zenon DEF DupSubst
  <2>2. n # 0
    BY <1>5, <1>7
  <2> HIDE DEF s, n, a, b, w
  <2> QED
    BY <1>2, <2>1, <2>2, Zenon
<1>9. a = h
  <2> HIDE DEF s, n
  <2> DEFINE k == n - 1
  <2>1. k = Len(h)
    BY <1>5, <1>7
  <2>2. 1 \in Int /\ k \in Int /\ 1 <= 1 /\ k <= Len(s)
    BY <1>5, <2>1
  <2> DEFINE x == SubSeq(s, 1, k)
  <2> HIDE DEF k
  <2>3. /\ IsList(x) /\ Len(x) = IF 1 <= k THEN k - 1 + 1 ELSE 0
        /\ \A i \in 1 .. k - 1 + 1 : x[i] = s[1 + i - 1]
    BY <1>5, <2>2, PartOf
  <2> HIDE DEF x
  <2>4. Len(x) = Len(h)
    BY <1>5, <2>1, <2>3
  <2>5. \A i \in 1 .. Len(x) : x[i] = h[i]
    <3> TAKE i \in 1 .. Len(x)
    <3>1. i \in 1 .. k - 1 + 1 /\ 1 + i - 1 = i /\ i \in 1 .. Len(h)
      BY <1>5, <2>1, <2>4
    <3> QED
      BY <1>5, <2>3, <3>1
  <2>6. x = h
    BY <2>3, <2>4, <2>5, SameLists
  <2> QED
    BY <2>6, Zenon DEF x, k
<1>10. b = t
  <2> HIDE DEF s, n
  <2> DEFINE k == n + Len(one)
  <2>1. k = m + 1 /\ k \in Nat
    BY <1>1, <1>5, <1>7
  <2>2. k \in Int /\ Len(s) \in Int /\ 1 <= k /\ Len(s) <= Len(s)
    BY <1>5, <2>1
  <2> DEFINE x == SubSeq(s, k, Len(s))
  <2> HIDE DEF k
  <2>3. /\ IsList(x) /\ Len(x) = IF k <= Len(s) THEN Len(s) - k + 1 ELSE 0
        /\ \A i \in 1 .. Len(s) - k + 1 : x[i] = s[k + i - 1]
    BY <1>5, <2>2, PartOf
  <2> HIDE DEF x
  <2>4. Len(x) = Len(t)
    BY <1>5, <2>1, <2>3
  <2>5. \A i \in 1 .. Len(x) : x[i] = t[i]
    <3> TAKE i \in 1 .. Len(x)
    <3>1. i \in 1 .. Len(s) - k + 1 /\ k + i - 1 = m + i /\ i \in 1 .. Len(t)
      BY <1>5, <2>1, <2>4
    <3> QED
      BY <1>5, <2>3, <3>1
  <2>6. x = t
    BY <2>3, <2>4, <2>5, SameLists
  <2> QED
    BY <2>6, Zenon DEF x, k
<1> HIDE DEF s, n, a, b, w
<1>11. w = (h \o new) \o t
  BY <1>8, <1>9, <1>10, Zenon
<1>12. w = h \o (new \o t)
  <2>1. AssocSo(h, new, t)
    BY Assoc, Zenon
  <2> QED
    BY <1>11, <2>1, Zenon DEF AssocSo
<1> QED
  BY <1>12, Zenon DEF SwapSo, w, s, r, one

LEMMA OneOf ==
  ASSUME NEW s, IsList(s), s # <<>>, Word(s)
  PROVE  \E c : s = <<c>> /\ c # " "
<1> DEFINE c == s[1]
           one == <<c>>
<1>1. Len(s) = 1
  <2> DEFINE n == Len(s)
  <2>1. n \in Nat /\ n <= 1 /\ n # 0
    BY ListSeq, Elements DEF Word
  <2> HIDE DEF n
  <2>2. n = 1
    BY <2>1
  <2> QED
    BY <2>2 DEF n
<1>2. IsList(one) /\ Len(one) = 1 /\ one[1] = c
  BY SmallLists
<1>3. s = one
  <2> HIDE DEF one
  <2>1. \A i \in 1 .. Len(s) : s[i] = one[i]
    BY <1>1, <1>2
  <2> QED
    BY <1>1, <1>2, <2>1, SameLists
<1>4. c # " "
  <2>1. ToSet(s) = {s[i] : i \in 1 .. Len(s)}
    BY Elements
  <2>2. 1 \in 1 .. Len(s)
    BY <1>1
  <2>3. c \in ToSet(s)
    BY <2>1, <2>2, Zenon
  <2> QED
    BY <2>3 DEF Word
<1> QED
  BY <1>3, <1>4, Zenon

NamesSo(a, b, first, last) ==
  FullName((a \o <<" ">>) \o b, a, b, first, last) = (first \o <<" ">>) \o last

LEMMA NamesSwapped ==
  ASSUME NEW a, NEW b, IsList(a), IsList(b), Word(a), Word(b), a # <<>>, b # <<>>, a # b,
         NEW first, NEW last, IsList(first), IsList(last)
  PROVE  NamesSo(a, b, first, last)
<1>1. PICK x : a = <<x>> /\ x # " "
  BY OneOf
<1>2. PICK y : b = <<y>> /\ y # " "
  BY OneOf
<1>3. x # y
  BY <1>1, <1>2
<1> DEFINE space == <<" ">>
           h == a \o space
           fn == h \o b
           d == DupSubst(fn, b, last)
           w == DupSubst(d, a, first)
<1>4. IsList(space) /\ ToSet(space) = {" "} /\ ToSet(a) = {x}
  BY <1>1, SmallLists
<1> HIDE DEF space
<1>5. IsList(h) /\ ToSet(h) = ToSet(a) \cup ToSet(space)
  BY <1>4, JoinedLists
<1> HIDE DEF h
<1>6. y \notin ToSet(h)
  BY <1>2, <1>3, <1>4, <1>5
<1>7. d = h \o last
  <2> DEFINE none == <<>>
  <2>1. IsList(none) /\ b \o none = b /\ last \o none = last
    BY SmallLists, NoneAdded
  <2> HIDE DEF none
  <2>2. SwapSo(h, y, none, last)
    BY <1>5, <1>6, <2>1, SwapOne, Zenon
  <2>3. DupSubst(h \o (b \o none), b, last) = h \o (last \o none)
    BY <1>2, <2>2, Zenon DEF SwapSo
  <2> QED
    BY <2>1, <2>3, Zenon
<1> HIDE DEF d
<1> DEFINE t == space \o last
<1>8. IsList(t)
  BY <1>4, JoinedLists
<1>9. d = a \o t
  <2>1. AssocSo(a, space, last)
    BY <1>4, Assoc, Zenon
  <2> QED
    BY <1>7, <2>1, Zenon DEF h, AssocSo
<1> HIDE DEF t
<1>10. w = first \o t
  <2> DEFINE none == <<>>
  <2>1. IsList(none) /\ ToSet(none) = {}
    BY SmallLists
  <2>2. none \o (a \o t) = a \o t /\ none \o (first \o t) = first \o t
    <3>1. IsList(a \o t) /\ IsList(first \o t)
      BY <1>8, JoinedLists
    <3> QED
      BY <3>1, NoneAdded
  <2> HIDE DEF none
  <2>3. SwapSo(none, x, t, first)
    <3>1. x \notin ToSet(none)
      BY <2>1
    <3> QED
      BY <1>8, <2>1, <3>1, SwapOne, Zenon
  <2>4. DupSubst(none \o (a \o t), a, first) = none \o (first \o t)
    BY <1>1, <2>3, Zenon DEF SwapSo
  <2> QED
    BY <1>9, <2>2, <2>4, Zenon
<1>11. first \o t = (first \o space) \o last
  <2>1. AssocSo(first, space, last)
    BY <1>4, Assoc, Zenon
  <2> QED
    BY <2>1, Zenon DEF t, AssocSo
<1>12. fn # <<>>
  <2>1. IsList(fn) /\ ToSet(fn) = ToSet(h) \cup ToSet(b)
    BY <1>5, JoinedLists
  <2>2. ToSet(fn) # {}
    BY <1>4, <1>5, <2>1
  <2> HIDE DEF fn
  <2> QED
    BY <2>2, SmallLists
<1> DEFINE o == FullName(fn, a, b, first, last)
<1>13. o = w
  <2>1. o = IF fn # <<>> THEN w
            ELSE IF first # <<>> /\ last # <<>> THEN first \o <<" ">> \o last ELSE Or(first, last)
    BY Zenon DEF FullName, d
  <2> HIDE DEF o, w, fn
  <2> QED
    BY <1>12, <2>1, Zenon
<1>14. o = (first \o space) \o last
  <2> HIDE DEF o, w
  <2> QED
    BY <1>10, <1>11, <1>13, Zenon
<1> QED
  BY <1>14, Zenon DEF NamesSo, o, fn, h, space

(* Records: the strings stay as they may be when fields are set.           *)
LEMMA CutOK ==
  ASSUME NEW type, NEW p, NEW f, NEW s, StrOK(type, p, f, s), NEW n \in 0 .. Len(s)
  PROVE  StrOK(type, p, f, SubSeq(s, 1, n)) /\ Len(SubSeq(s, 1, n)) = n
<1> DEFINE u == SubSeq(s, 1, n)
<1>1. IsList(s) /\ Len(s) \in Nat
  BY ListSeq DEF StrOK
<1>2. 1 \in Int /\ n \in Int /\ 1 <= 1 /\ n <= Len(s)
  BY <1>1
<1>3. IsList(u) /\ Len(u) = (IF 1 <= n THEN n - 1 + 1 ELSE 0) /\ ToSet(u) \subseteq ToSet(s)
  BY <1>1, <1>2, PartOf
<1> HIDE DEF u
<1>4. Len(u) = n /\ (Len(s) <= 1 => Len(u) <= 1)
  BY <1>1, <1>3
<1>5. OneLine(s) => OneLine(u)
  BY <1>3 DEF OneLine
<1>6. Word(s) => Word(u)
  BY <1>3, <1>4 DEF Word
<1> QED
  BY <1>3, <1>4, <1>5, <1>6, Zenon DEF StrOK, u

LEMMA SetFldSo ==
  ASSUME NEW type, NEW p, NEW f, NEW fld, FldOK(type, p, f, fld), NEW s, StrOK(type, p, f, s)
  PROVE  FldOK(type, p, f, SetFld(fld, s))
<1> DEFINE n == IF Len(s) > MaxFld THEN MaxFld ELSE Len(s)
           a == [fld EXCEPT !.len = 0]
           u == SubSeq(s, 1, n)
           b == [len |-> n, str |-> u]
           w == SetFld(fld, s)
<1>1. w = IF n = 0 THEN a ELSE b
  BY Zenon DEF SetFld
<1>2. IsList(s) /\ Len(s) \in Nat /\ MaxFld \in Nat \ {0}
  BY ListSeq, MaxFldAssumption DEF StrOK
<1>3. n \in 0 .. Len(s) /\ n <= MaxFld
  BY <1>2
<1> HIDE DEF n
<1>4. StrOK(type, p, f, u) /\ Len(u) = n
  BY <1>3, CutOK
<1>5. FldOK(type, p, f, a)
  <2>1. DOMAIN a = {"len", "str"} /\ a.str = fld.str /\ a.len = 0
    BY DEF FldOK
  <2>2. IsList(fld.str)
    BY DEF FldOK, StrOK
  <2>3. Len(fld.str) \in Nat
    BY <2>2, ListSeq
  <2> HIDE DEF a
  <2> QED
    BY <1>2, <2>1, <2>3 DEF FldOK
<1>6. FldOK(type, p, f, b)
  <2>1. DOMAIN b = {"len", "str"} /\ b.str = u /\ b.len = n
    OBVIOUS
  <2> HIDE DEF b, u
  <2> QED
    BY <1>2, <1>3, <1>4, <2>1 DEF FldOK
<1> HIDE DEF a, b, w
<1> QED
  BY <1>1, <1>5, <1>6, Zenon DEF w

Values(type, p, new) == \A f \in DOMAIN new \cap Fields(type) : StrOK(type, p, f, new[f])

LEMMA SetFldsSo ==
  ASSUME NEW type, NEW p, NEW rec, Good(type, p, rec), NEW new, Values(type, p, new)
  PROVE  Good(type, p, SetFlds(rec, new))
<1> DEFINE w == SetFlds(rec, new)
<1>1. DOMAIN rec = Fields(type)
  BY DEF Good
<1>2. w = [f \in Fields(type) |-> IF f \in DOMAIN new THEN SetFld(rec[f], new[f]) ELSE rec[f]]
  BY <1>1, Zenon DEF SetFlds
<1>3. w = [f \in Fields(type) |-> w[f]]
  BY <1>2
<1>4. ASSUME NEW f \in Fields(type) PROVE FldOK(type, p, f, w[f])
  <2>1. FldOK(type, p, f, rec[f])
    BY DEF Good
  <2>2. w[f] = IF f \in DOMAIN new THEN SetFld(rec[f], new[f]) ELSE rec[f]
    BY <1>2, Zenon
  <2> HIDE DEF w
  <2>3. CASE f \in DOMAIN new
    <3>1. StrOK(type, p, f, new[f])
      BY <2>3 DEF Values
    <3> DEFINE x == SetFld(rec[f], new[f])
    <3>2. FldOK(type, p, f, x)
      BY <2>1, <3>1, SetFldSo
    <3> HIDE DEF x
    <3> QED
      BY <2>2, <2>3, <3>2, Zenon DEF x
  <2>4. CASE f \notin DOMAIN new
    BY <2>1, <2>2, <2>4, Zenon
  <2> QED
    BY <2>3, <2>4
<1> HIDE DEF w
<1> QED
  BY <1>3, <1>4, Zenon DEF Good, w

LEMMA NewSo == ASSUME NEW type, NEW p PROVE Good(type, p, NewIc35Rec(type))
<1> DEFINE w == NewIc35Rec(type)
           fld == [len |-> 0, str |-> <<>>]
           none == <<>>
<1>1. \A f : StrOK(type, p, f, none)
  <2>1. IsList(none) /\ Len(none) = 0 /\ ToSet(none) = {}
    BY SmallLists
  <2> HIDE DEF none
  <2>2. OneLine(none) /\ Word(none) /\ Len(none) <= 1
    BY <2>1 DEF OneLine, Word
  <2> QED
    BY <2>1, <2>2, Zenon DEF StrOK
<1>2. \A f : FldOK(type, p, f, fld)
  <2>1. DOMAIN fld = {"len", "str"} /\ fld.len = 0 /\ fld.str = none
    OBVIOUS
  <2>2. 0 \in 0 .. MaxFld
    BY MaxFldAssumption
  <2>3. 0 <= Len(none)
    BY SmallLists
  <2> HIDE DEF fld, none
  <2> QED
    BY <1>1, <2>1, <2>2, <2>3, Zenon DEF FldOK
<1>3. w = [f \in Fields(type) |-> fld]
  BY Zenon DEF NewIc35Rec
<1> HIDE DEF fld, w
<1>4. w = [f \in Fields(type) |-> w[f]] /\ \A f \in Fields(type) : w[f] = fld
  BY <1>3
<1> QED
  BY <1>2, <1>4, Zenon DEF Good, w

(* Conversions to the IC35: what they set is what a field may be.          *)
LEMMA ValuesSo ==
  ASSUME NEW type, NEW p, NEW new, \A f \in DOMAIN new : IsList(new[f]),
         "Subject" \in DOMAIN new => OneLine(new["Subject"]),
         "Category" \in DOMAIN new => (type = "VTODO" /\ p = "KDE") \/ Len(new["Category"]) <= 1,
         "FirstName" \in DOMAIN new => Word(new["FirstName"]),
         "LastName" \in DOMAIN new => Word(new["LastName"])
  PROVE  Values(type, p, new)
<1> SUFFICES ASSUME NEW f \in DOMAIN new PROVE StrOK(type, p, f, new[f])
  BY DEF Values
<1>1. f = "Subject" => OneLine(new[f])
  OBVIOUS
<1>2. f = "Category" => (type = "VTODO" /\ p = "KDE") \/ Len(new[f]) <= 1
  OBVIOUS
<1>3. f \in {"FirstName", "LastName"} => Word(new[f])
  OBVIOUS
<1> QED
  BY <1>1, <1>2, <1>3, Zenon DEF StrOK

LEMMA YmdSo == ASSUME NEW s PROVE IsList(Ymd(s))
<1>1. IsList(<<>>) /\ IsList(<<s[1]>>)
  BY SmallLists
<1> QED
  BY <1>1, Zenon DEF Ymd

LEMMA DayTimeSo == ASSUME NEW s PROVE IsList(DayOf(s)) /\ IsList(TimeOf(s))
<1> DEFINE a == s[1] \div Day
           b == s[1] % Day
           c == s[2]
<1>1. DayOf(s) = <<a>> /\ TimeOf(s) = <<b, c>>
  BY DEF DayOf, TimeOf
<1> HIDE DEF a, b, c
<1>2. IsList(<<a>>) /\ IsList(<<b, c>>)
  BY SmallLists, TupleLists
<1> QED
  BY <1>1, <1>2, Zenon

LEMMA NamesOfSo ==
  ASSUME NEW ps, Object(ps), NEW type, NEW p PROVE Values(type, p, NamesOf(ps))
<1> DEFINE l == SubValue(ps, "N", "FAMILY")
           g == SubValue(ps, "N", "GIVEN")
           a == [LastName |-> l, FirstName |-> g]
           o == <<"NoName">>
           b == [LastName |-> o]
           w == NamesOf(ps)
<1>1. w = IF Has(ps, "N") THEN a ELSE b
  BY Zenon DEF NamesOf
<1>2. IsList(l) /\ Word(l) /\ IsList(g) /\ Word(g)
  BY SubSo DEF Repeated
<1>3. IsList(o) /\ Word(o)
  <2>1. IsList(o) /\ Len(o) = 1 /\ ToSet(o) = {"NoName"}
    BY SmallLists
  <2> HIDE DEF o
  <2> QED
    BY <2>1 DEF Word
<1> HIDE DEF l, g, o
<1>4. Values(type, p, a)
  <2>1. DOMAIN a = {"LastName", "FirstName"} /\ a["LastName"] = l /\ a["FirstName"] = g
    OBVIOUS
  <2> HIDE DEF a
  <2> QED
    BY <1>2, <2>1, ValuesSo
<1>5. Values(type, p, b)
  <2>1. DOMAIN b = {"LastName"} /\ b["LastName"] = o
    OBVIOUS
  <2> HIDE DEF b
  <2> QED
    BY <1>3, <2>1, ValuesSo
<1> HIDE DEF a, b, w
<1> QED
  BY <1>1, <1>4, <1>5, Zenon DEF w

LEMMA ValsSo ==
  ASSUME NEW ps, Object(ps), NEW i \in 1 .. Len(ps) PROVE IsList(ps[i].val)
<1>1. PropOK(ps[i])
  BY ObjectSo
<1> QED
  BY <1>1 DEF PropOK, ValOK

LEMMA TelsOfSo ==
  ASSUME NEW ps, Object(ps), NEW type, NEW p PROVE Values(type, p, TelsOf(ps))
<1> DEFINE T == {"TelHome", "TelWork", "TelMobile", "TelFax"}
           At(f) == {i \in DOMAIN ps : ps[i].id = "TEL" /\ TelField(ps, ps[i]) = f}
           w == TelsOf(ps)
<1>1. w = [f \in T |-> IF At(f) = {} THEN <<>> ELSE ps[Max(At(f))].val]
  BY Zenon DEF TelsOf
<1>2. Len(ps) \in Nat /\ DOMAIN ps = 1 .. Len(ps)
  BY ObjectSo, ListSeq
<1>3. ASSUME NEW f \in T PROVE IsList(w[f])
  <2> DEFINE X == At(f)
             n == Max(X)
  <2>1. w[f] = IF X = {} THEN <<>> ELSE ps[n].val
    BY <1>1, Zenon
  <2>2. X \subseteq 1 .. Len(ps)
    BY <1>2
  <2> HIDE DEF X, w
  <2>3. CASE X = {}
    BY <2>1, <2>3, SmallLists, Zenon
  <2>4. CASE X # {}
    <3>1. n \in 1 .. Len(ps)
      BY <1>2, <2>2, <2>4, MaxIn
    <3> HIDE DEF n
    <3>2. IsList(ps[n].val)
      BY <3>1, ValsSo
    <3> QED
      BY <2>1, <2>4, <3>2, Zenon
  <2> QED
    BY <2>3, <2>4
<1>4. DOMAIN w = T
  BY <1>1, Zenon
<1> HIDE DEF w
<1>5. Values(type, p, w)
  BY <1>3, <1>4, ValuesSo
<1> QED
  BY <1>5 DEF w

LEMMA EmailsOfSo ==
  ASSUME NEW ps, Object(ps), NEW type, NEW p PROVE Values(type, p, EmailsOf(ps))
<1> DEFINE at == Places(ps, "EMAIL")
           Nth(n) == IF n <= Len(at) THEN ps[at[n]].val ELSE <<>>
           w == EmailsOf(ps)
<1>1. w = [Email1 |-> Nth(1), Email2 |-> Nth(2)]
  BY Zenon DEF EmailsOf
<1>2. \A n \in 1 .. Len(at) : at[n] \in 1 .. Len(ps)
  BY PlacesSo
<1>3. Len(at) \in Nat
  BY PlacesSo, ListSeq
<1> HIDE DEF at
<1>4. ASSUME NEW n \in 1 .. 2 PROVE IsList(Nth(n))
  <2>1. CASE n <= Len(at)
    <3>1. at[n] \in 1 .. Len(ps)
      BY <1>2, <1>3, <2>1
    <3> DEFINE x == ps[at[n]].val
    <3>2. IsList(x)
      BY <3>1, ValsSo
    <3> HIDE DEF x
    <3>3. Nth(n) = x
      BY <2>1, Zenon DEF x
    <3> QED
      BY <3>2, <3>3, Zenon
  <2>2. CASE ~(n <= Len(at))
    BY <2>2, SmallLists, Zenon
  <2> QED
    BY <2>1, <2>2
<1> DEFINE a == Nth(1)
           b == Nth(2)
<1>5. IsList(a) /\ IsList(b)
  <2>1. 1 \in 1 .. 2 /\ 2 \in 1 .. 2
    OBVIOUS
  <2> QED
    BY <1>4, <2>1, Zenon
<1> HIDE DEF a, b
<1>6. w = [Email1 |-> a, Email2 |-> b]
  BY <1>1, Zenon DEF a, b
<1> HIDE DEF w, Nth
<1>7. DOMAIN w = {"Email1", "Email2"} /\ w["Email1"] = a /\ w["Email2"] = b
  BY <1>6
<1>8. Values(type, p, w)
  BY <1>5, <1>7, ValuesSo
<1> QED
  BY <1>8 DEF w

LEMMA AddrOfSo ==
  ASSUME NEW ps, Object(ps), NEW p, NEW rec, Good("VCARD", p, rec)
  PROVE  Good("VCARD", p, VcardToIc35Addr(ps, rec))
<1> DEFINE st == SubValue(ps, "ADR", "STREET")
           ci == SubValue(ps, "ADR", "CITY")
           re == SubValue(ps, "ADR", "REGION")
           zi == SubValue(ps, "ADR", "ZIP")
           co == SubValue(ps, "ADR", "COUNTRY")
           or == SubValue(ps, "ORG", "ORGNAME")
           ur == StringValue(ps, "URL")
           bd == Ymd(StringValue(ps, "BDAY"))
           d1 == NotePropValue(ps, "VCARD", "DEF1:")
           d2 == NotePropValue(ps, "VCARD", "DEF2:")
           no == NotesValue(ps, "VCARD")
           id == <<0>>
           ca == CategoryValue(ps)
           new == [Street |-> st, City |-> ci, Region |-> re, ZIP |-> zi, Country |-> co,
                   Company |-> or, URL |-> ur, BirthDate |-> bd, Def1 |-> d1, Def2 |-> d2,
                   Notes |-> no, CategoryID |-> id, Category |-> ca]
           r1 == SetFlds(rec, NamesOf(ps))
           r2 == SetFlds(r1, TelsOf(ps))
           r3 == SetFlds(r2, EmailsOf(ps))
           r4 == SetFlds(r3, new)
<1>1. VcardToIc35Addr(ps, rec) = r4
  BY Zenon DEF VcardToIc35Addr
<1>2. /\ IsList(st) /\ IsList(ci) /\ IsList(re) /\ IsList(zi) /\ IsList(co) /\ IsList(or)
  BY SubSo DEF Repeated
<1>3. /\ IsList(ur) /\ IsList(bd) /\ IsList(d1) /\ IsList(d2) /\ IsList(no) /\ IsList(id)
      /\ IsList(ca) /\ Len(ca) <= 1
  BY ValueSo, YmdSo, NotePropValueSo, NotesValueSo, SmallLists, CategoryValueSo DEF Repeated
<1> HIDE DEF st, ci, re, zi, co, or, ur, bd, d1, d2, no, id, ca
<1>4. Values("VCARD", p, new)
  <2>1. DOMAIN new = {"Street", "City", "Region", "ZIP", "Country", "Company", "URL",
                      "BirthDate", "Def1", "Def2", "Notes", "CategoryID", "Category"}
    OBVIOUS
  <2>2. /\ new["Street"] = st /\ new["City"] = ci /\ new["Region"] = re /\ new["ZIP"] = zi
        /\ new["Country"] = co /\ new["Company"] = or /\ new["URL"] = ur /\ new["BirthDate"] = bd
        /\ new["Def1"] = d1 /\ new["Def2"] = d2 /\ new["Notes"] = no /\ new["CategoryID"] = id
        /\ new["Category"] = ca
    OBVIOUS
  <2> HIDE DEF new
  <2>3. \A f \in DOMAIN new : IsList(new[f])
    BY <1>2, <1>3, <2>1, <2>2
  <2> QED
    BY <1>3, <2>1, <2>2, <2>3, ValuesSo
<1> HIDE DEF new
<1>5. Good("VCARD", p, r1)
  BY NamesOfSo, SetFldsSo
<1> HIDE DEF r1
<1>6. Good("VCARD", p, r2)
  BY <1>5, TelsOfSo, SetFldsSo
<1> HIDE DEF r2
<1>7. Good("VCARD", p, r3)
  BY <1>6, EmailsOfSo, SetFldsSo
<1> HIDE DEF r3
<1>8. Good("VCARD", p, r4)
  BY <1>4, <1>7, SetFldsSo
<1> HIDE DEF r4
<1> QED
  BY <1>1, <1>8, Zenon

LEMMA OrSo ==
  ASSUME NEW s, NEW e, IsList(s), OneLine(s), e # "CR"
  PROVE  IsList(Or(s, <<e>>)) /\ OneLine(Or(s, <<e>>))
<1> DEFINE d == <<e>>
<1>1. IsList(d) /\ ToSet(d) = {e}
  BY SmallLists
<1> HIDE DEF d
<1>2. OneLine(d)
  BY <1>1 DEF OneLine
<1>3. Or(s, d) = IF s = <<>> THEN d ELSE s
  BY Zenon DEF Or
<1>4. IsList(Or(s, d)) /\ OneLine(Or(s, d))
  BY <1>1, <1>2, <1>3, Zenon
<1> QED
  BY <1>4, Zenon DEF d

LEMMA SummarySo ==
  ASSUME NEW ps, Object(ps)
  PROVE  /\ IsList(Or(StringValue(ps, "SUMMARY"), <<"NoSubject">>))
         /\ OneLine(Or(StringValue(ps, "SUMMARY"), <<"NoSubject">>))
<1>1. ValOK("SUMMARY", StringValue(ps, "SUMMARY")) /\ IsList(StringValue(ps, "SUMMARY"))
  BY ValueSo DEF Repeated
<1>2. OneLine(StringValue(ps, "SUMMARY"))
  BY <1>1 DEF ValOK
<1>3. "NoSubject" # "CR"
  OBVIOUS
<1> QED
  BY <1>1, <1>2, <1>3, OrSo, Zenon

LEMMA EventTextOfSo ==
  ASSUME NEW ps, Object(ps), NEW pr, NEW type, NEW p
  PROVE  Values(type, p, EventTextOf(pr, ps))
<1> DEFINE text == Or(StringValue(ps, "SUMMARY"), <<"NoSubject">>)
           nl == Find(text, <<"NL">>)
           k == nl - 1
           s == SubSeq(text, 1, k)
           j == nl + 1
           rest == SubSeq(text, j, Len(text))
           t == SubstNL(rest)
           a == [Subject |-> s, Notes |-> t]
           u == NotesValue(ps, "VEVENT")
           b == [Subject |-> text, Notes |-> u]
           w == EventTextOf(pr, ps)
<1>1. w = IF pr = "GNOME" /\ nl # 0 THEN a ELSE b
  BY Zenon DEF EventTextOf
<1>2. IsList(text) /\ OneLine(text)
  BY SummarySo
<1> HIDE DEF text
<1>3. IsList(u)
  BY NotesValueSo
<1> HIDE DEF u
<1>4. Len(text) \in Nat
  BY <1>2, ListSeq
<1>5. Values(type, p, b)
  <2>1. DOMAIN b = {"Subject", "Notes"} /\ b["Subject"] = text /\ b["Notes"] = u
    OBVIOUS
  <2> HIDE DEF b
  <2> QED
    BY <1>2, <1>3, <2>1, ValuesSo
<1>6. ASSUME nl # 0 PROVE Values(type, p, a)
  <2>1. nl \in 1 .. Len(text)
    BY <1>2, <1>6, FindSo
  <2> HIDE DEF nl
  <2>2. k \in Int /\ k <= Len(text) /\ j \in Int /\ 1 <= j /\ 1 \in Int /\ 1 <= 1
        /\ Len(text) \in Int /\ Len(text) <= Len(text)
    BY <1>4, <2>1
  <2> HIDE DEF k, j
  <2>3. IsList(s) /\ ToSet(s) \subseteq ToSet(text)
    BY <1>2, <2>2, PartOf
  <2>4. OneLine(s)
    <3> HIDE DEF s
    <3> QED
      BY <1>2, <2>3 DEF OneLine
  <2>5. IsList(rest)
    BY <1>2, <2>2, PartOf
  <2> HIDE DEF rest
  <2>6. IsList(t)
    BY <2>5, NLSo
  <2> HIDE DEF s, t
  <2>7. DOMAIN a = {"Subject", "Notes"} /\ a["Subject"] = s /\ a["Notes"] = t
    OBVIOUS
  <2> HIDE DEF a
  <2> QED
    BY <2>3, <2>4, <2>6, <2>7, ValuesSo
<1> HIDE DEF a, b, w, nl
<1> QED
  BY <1>1, <1>5, <1>6, Zenon DEF w

LEMMA RuleOfSo ==
  ASSUME NEW ps, Object(ps), NEW type, NEW p PROVE Values(type, p, RuleOf(ps))
<1> DEFINE rule == StringValue(ps, "RRULE")
           z == <<0>>
           n == rule[2]
           o == <<n>>
           e == rule[4]
           a == [RepCount |-> z]
           b == [RepCount |-> o]
           c == [RepCount |-> o, RepEndDate |-> e]
           w == RuleOf(ps)
<1>1. w = IF rule = <<>> THEN a ELSE IF e = <<>> THEN b ELSE c
  BY Zenon DEF RuleOf
<1>2. ValOK("RRULE", rule)
  BY ValueSo DEF Repeated
<1>3. IsList(z) /\ IsList(o)
  BY SmallLists
<1> HIDE DEF z, o
<1>4. rule # <<>> => IsList(e)
  <2> HIDE DEF rule
  <2> QED
    BY <1>2 DEF ValOK
<1> HIDE DEF e
<1>5. Values(type, p, a)
  <2>1. DOMAIN a = {"RepCount"} /\ a["RepCount"] = z
    OBVIOUS
  <2> HIDE DEF a
  <2> QED
    BY <1>3, <2>1, ValuesSo
<1>6. Values(type, p, b)
  <2>1. DOMAIN b = {"RepCount"} /\ b["RepCount"] = o
    OBVIOUS
  <2> HIDE DEF b
  <2> QED
    BY <1>3, <2>1, ValuesSo
<1>7. ASSUME rule # <<>> PROVE Values(type, p, c)
  <2>1. DOMAIN c = {"RepCount", "RepEndDate"} /\ c["RepCount"] = o /\ c["RepEndDate"] = e
    OBVIOUS
  <2> HIDE DEF c
  <2> QED
    BY <1>3, <1>4, <1>7, <2>1, ValuesSo
<1> HIDE DEF rule, a, b, c, w
<1> QED
  BY <1>1, <1>5, <1>6, <1>7, Zenon DEF w

LEMMA AlarmsOfSo ==
  ASSUME NEW ps, NEW pr, NEW type, NEW p PROVE Values(type, p, AlarmsOf(pr, ps))
<1> DEFINE aa == Has(ps, "AALARM")
           da == Has(ps, "DALARM")
           beep == aa \/ (da /\ pr = "KDE")
           run == SubValue(ps, IF da THEN "DALARM" ELSE "AALARM", "RUNTIME")
           m == RepeatOf(ps) + (IF beep THEN 0 ELSE 64) + (IF da THEN 0 ELSE 128)
           n == IF aa \/ da THEN AlarmCode(StringValue(ps, "DTSTART")[1] - run[1]) ELSE 0
           x == <<m>>
           y == <<n>>
           w == AlarmsOf(pr, ps)
<1>1. w = [Alarm_Repeat |-> x, AlarmBefore |-> y]
  BY Zenon DEF AlarmsOf
<1> HIDE DEF m, n
<1>2. IsList(x) /\ IsList(y)
  BY SmallLists
<1> HIDE DEF x, y, w
<1>3. DOMAIN w = {"Alarm_Repeat", "AlarmBefore"} /\ w["Alarm_Repeat"] = x /\ w["AlarmBefore"] = y
  BY <1>1
<1>4. Values(type, p, w)
  BY <1>2, <1>3, ValuesSo
<1> QED
  BY <1>4 DEF w

LEMMA SchedOfSo ==
  ASSUME NEW ps, Object(ps), NEW pr, NEW p, NEW rec, Good("VEVENT", p, rec), NEW d
  PROVE  Good("VEVENT", p, VeventToIc35Sched(pr, ps, rec, d))
<1> DEFINE Iso(id) == IF Has(ps, id) THEN StringValue(ps, id) ELSE <<d * Day, 0>>
           sd == DayOf(Iso("DTSTART"))
           st == TimeOf(Iso("DTSTART"))
           ed == DayOf(Iso("DTEND"))
           et == TimeOf(Iso("DTEND"))
           new == [StartDate |-> sd, StartTime |-> st, EndDate |-> ed, EndTime |-> et]
           r1 == SetFlds(rec, EventTextOf(pr, ps))
           r2 == SetFlds(r1, RuleOf(ps))
           r3 == SetFlds(r2, AlarmsOf(pr, ps))
           r4 == SetFlds(r3, new)
<1>1. VeventToIc35Sched(pr, ps, rec, d) = r4
  BY Zenon DEF VeventToIc35Sched
<1>2. IsList(sd) /\ IsList(st) /\ IsList(ed) /\ IsList(et)
  BY DayTimeSo
<1> HIDE DEF sd, st, ed, et
<1>3. Values("VEVENT", p, new)
  <2>1. /\ DOMAIN new = {"StartDate", "StartTime", "EndDate", "EndTime"}
        /\ new["StartDate"] = sd /\ new["StartTime"] = st /\ new["EndDate"] = ed /\ new["EndTime"] = et
    OBVIOUS
  <2> HIDE DEF new
  <2> QED
    BY <1>2, <2>1, ValuesSo
<1> HIDE DEF new
<1>4. Good("VEVENT", p, r1)
  BY EventTextOfSo, SetFldsSo
<1> HIDE DEF r1
<1>5. Good("VEVENT", p, r2)
  BY <1>4, RuleOfSo, SetFldsSo
<1> HIDE DEF r2
<1>6. Good("VEVENT", p, r3)
  BY <1>5, AlarmsOfSo, SetFldsSo
<1> HIDE DEF r3
<1>7. Good("VEVENT", p, r4)
  BY <1>3, <1>6, SetFldsSo
<1> HIDE DEF r4
<1> QED
  BY <1>1, <1>7, Zenon

LEMMA TodoOfSo ==
  ASSUME NEW ps, Object(ps), NEW p, NEW rec, Good("VTODO", p, rec), NEW d, IsList(d)
  PROVE  Good("VTODO", p, VtodoToIc35Todo(p, ps, rec, d))
<1> DEFINE Marked(mark) == NotePropValue(ps, "VTODO", mark)
           status == StringValue(ps, "STATUS")
           prio == StringValue(ps, "PRIORITY")
           start == IF p \in {"KDE", "GNOME"} THEN Marked("DTSTART:") ELSE StringValue(ps, "DTSTART")
           due == IF p = "KDE" THEN Marked("DUE:") ELSE StringValue(ps, "DUE")
           notes == NotesValue(ps, "VTODO")
           su == Or(StringValue(ps, "SUMMARY"), <<"NoSubject">>)
           ca == IF p = "KDE" THEN Marked("CATEGORIES:") ELSE CategoryValue(ps)
           id == <<0>>
           sd == YmdOrToday(start, d)
           ed == YmdOrToday(due, d)
           co == <<IF status = <<"COMPLETED">> THEN 1 ELSE 0>>
           pr == <<PriorityOf(IF prio = <<>> THEN 0 ELSE prio[1])>>
           no == IF status \in {<<>>, <<"COMPLETED">>, <<"NEEDS ACTION">>}
                 THEN notes ELSE <<"STATUS:">> \o notes
           new == [Subject |-> su, Category |-> ca, CategoryID |-> id, StartDate |-> sd,
                   EndDate |-> ed, Completed |-> co, Priority |-> pr, Notes |-> no]
<1>1. VtodoToIc35Todo(p, ps, rec, d) = SetFlds(rec, new)
  BY Zenon DEF VtodoToIc35Todo
<1>2. IsList(su) /\ OneLine(su)
  BY SummarySo
<1>3. IsList(ca) /\ (p = "KDE" \/ Len(ca) <= 1)
  <2> DEFINE x == Marked("CATEGORIES:")
             y == CategoryValue(ps)
  <2>1. IsList(x) /\ IsList(y) /\ Len(y) <= 1
    BY NotePropValueSo, CategoryValueSo
  <2> HIDE DEF x, y
  <2> QED
    BY <2>1, Zenon DEF x, y
<1>4. IsList(sd) /\ IsList(ed)
  BY YmdSo, Zenon DEF YmdOrToday
<1>5. IsList(id) /\ IsList(co) /\ IsList(pr)
  BY SmallLists, Zenon
<1>6. IsList(no)
  <2> DEFINE mark == <<"STATUS:">>
             longer == mark \o notes
  <2>1. IsList(notes) /\ IsList(mark)
    BY NotesValueSo, SmallLists
  <2> HIDE DEF notes, mark
  <2>2. IsList(longer)
    BY <2>1, JoinedLists
  <2> HIDE DEF longer, status
  <2> QED
    BY <2>1, <2>2, Zenon DEF longer, mark
<1> HIDE DEF su, ca, id, sd, ed, co, pr, no
<1>7. Values("VTODO", p, new)
  <2>1. /\ DOMAIN new = {"Subject", "Category", "CategoryID", "StartDate", "EndDate",
                         "Completed", "Priority", "Notes"}
        /\ new["Subject"] = su /\ new["Category"] = ca /\ new["CategoryID"] = id
        /\ new["StartDate"] = sd /\ new["EndDate"] = ed /\ new["Completed"] = co
        /\ new["Priority"] = pr /\ new["Notes"] = no
    OBVIOUS
  <2> HIDE DEF new
  <2> QED
    BY <1>2, <1>3, <1>4, <1>5, <1>6, <2>1, ValuesSo
<1> HIDE DEF new
<1>8. Good("VTODO", p, SetFlds(rec, new))
  BY <1>7, SetFldsSo
<1> QED
  BY <1>1, <1>8, Zenon

LEMMA MemoOfSo ==
  ASSUME NEW ps, Object(ps), NEW p, NEW rec, Good("VMEMO", p, rec)
  PROVE  Good("VMEMO", p, VmemoToIc35Memo(ps, rec))
<1> DEFINE su == Or(StringValue(ps, "SUMMARY"), <<"NoSubject">>)
           no == NotesValue(ps, "VMEMO")
           id == <<0>>
           ca == CategoryValue(ps)
           new == [Subject |-> su, Notes |-> no, CategoryID |-> id, Category |-> ca]
<1>1. VmemoToIc35Memo(ps, rec) = SetFlds(rec, new)
  BY Zenon DEF VmemoToIc35Memo
<1>2. IsList(su) /\ OneLine(su) /\ IsList(no) /\ IsList(id) /\ IsList(ca) /\ Len(ca) <= 1
  BY SummarySo, NotesValueSo, SmallLists, CategoryValueSo
<1> HIDE DEF su, no, id, ca
<1>3. Values("VMEMO", p, new)
  <2>1. /\ DOMAIN new = {"Subject", "Notes", "CategoryID", "Category"}
        /\ new["Subject"] = su /\ new["Notes"] = no /\ new["CategoryID"] = id /\ new["Category"] = ca
    OBVIOUS
  <2> HIDE DEF new
  <2> QED
    BY <1>2, <2>1, ValuesSo
<1> HIDE DEF new
<1>4. Good("VMEMO", p, SetFlds(rec, new))
  BY <1>3, SetFldsSo
<1> QED
  BY <1>1, <1>4, Zenon

(* vca_updic35rec                                                          *)
LEMMA UpdSo ==
  ASSUME NEW type \in {"VCARD", "VEVENT", "VTODO", "VMEMO"}, NEW p, NEW rec, Good(type, p, rec),
         NEW ps, Object(ps), NEW d
  PROVE  Good(type, p, UpdIc35Rec(type, p, rec, ps, d))
<1> DEFINE day == <<DayNames[d]>>
           a == VcardToIc35Addr(ps, rec)
           b == VeventToIc35Sched(p, ps, rec, d)
           c == VtodoToIc35Todo(p, ps, rec, day)
           e == VmemoToIc35Memo(ps, rec)
           w == UpdIc35Rec(type, p, rec, ps, d)
<1>1. w = CASE type = "VCARD"  -> a
            [] type = "VEVENT" -> b
            [] type = "VTODO"  -> c
            [] OTHER           -> e
  BY DEF UpdIc35Rec
<1>2. IsList(day)
  BY SmallLists
<1> HIDE DEF w, day
<1>3. CASE type = "VCARD"
  <2>1. Good(type, p, a)
    BY <1>3, AddrOfSo
  <2> HIDE DEF a
  <2> QED
    BY <1>1, <1>3, <2>1 DEF w
<1>4. CASE type = "VEVENT"
  <2>1. Good(type, p, b)
    BY <1>4, SchedOfSo
  <2> HIDE DEF b
  <2> QED
    BY <1>1, <1>4, <2>1 DEF w
<1>5. CASE type = "VTODO"
  <2>1. Good(type, p, c)
    BY <1>2, <1>5, TodoOfSo
  <2> HIDE DEF c
  <2> QED
    BY <1>1, <1>5, <2>1 DEF w
<1>6. CASE type = "VMEMO"
  <2>1. Good(type, p, e)
    BY <1>6, MemoOfSo
  <2> HIDE DEF e
  <2> QED
    BY <1>1, <1>6, <2>1 DEF w
<1> QED
  BY <1>3, <1>4, <1>5, <1>6

(* The data that is exchanged: what is read is what was sent.              *)
LEMMA FldsAreLists ==
  ASSUME NEW type \in {"VCARD", "VEVENT", "VTODO", "VMEMO"} PROVE IsList(FldsOf(type))
<1>1. IsList(AddrFlds)
  BY DEF IsList, AddrFlds
<1>2. IsList(SchedFlds)
  BY DEF IsList, SchedFlds
<1>3. IsList(TodoFlds)
  BY DEF IsList, TodoFlds
<1>4. IsList(MemoFlds)
  BY DEF IsList, MemoFlds
<1> QED
  BY <1>1, <1>2, <1>3, <1>4 DEF FldsOf

LEMMA IndexSo ==
  ASSUME NEW s, IsList(s), NEW f \in ToSet(s)
  PROVE  Index(s, f) \in 1 .. Len(s) /\ s[Index(s, f)] = f
<1> DEFINE I == {i \in 1 .. Len(s) : s[i] = f}
<1>1. Index(s, f) = IF I # {} THEN Min(I) ELSE 0
  BY Zenon DEF Index, SelectInSeq
<1>2. I # {} /\ I \subseteq Nat
  <2>1. ToSet(s) = {s[i] : i \in 1 .. Len(s)}
    BY Elements
  <2>2. Len(s) \in Nat
    BY ListSeq
  <2> QED
    BY <2>1, <2>2
<1>3. \A i \in I : i \in 1 .. Len(s) /\ s[i] = f
  OBVIOUS
<1> HIDE DEF I
<1>4. Min(I) \in I
  BY <1>2, MinIn
<1> QED
  BY <1>1, <1>2, <1>3, <1>4

LEMMA DataSo ==
  ASSUME NEW type \in {"VCARD", "VEVENT", "VTODO", "VMEMO"}, NEW p, NEW rec, Good(type, p, rec),
         NEW data, data = GetRecData(type, rec)
  PROVE  /\ DOMAIN data.lens = DOMAIN FldsOf(type)
         /\ \A i \in DOMAIN data.lens : data.lens[i] \in 0 .. MaxFld
         /\ Len(data.body) = Last(Offsets(data.lens))
         /\ Good(type, p, SetRecData(type, data))
<1> DEFINE flds == FldsOf(type)
           n == Len(flds)
           s == [i \in 1 .. n |-> SubSeq(rec[flds[i]].str, 1, rec[flds[i]].len)]
           lens == [i \in 1 .. n |-> rec[flds[i]].len]
           body == FlattenSeq(s)
           at == Offsets(lens)
<1>1. IsList(flds) /\ n \in Nat /\ DOMAIN flds = 1 .. n
  BY FldsAreLists, ListSeq
<1>2. data.lens = lens /\ data.body = body
  <2>1. data = [lens |-> lens, body |-> body]
    BY <1>1, Zenon DEF GetRecData
  <2> HIDE DEF lens, body
  <2> QED
    BY <2>1
<1>3. \A f \in Fields(type) : Index(flds, f) \in 1 .. n /\ flds[Index(flds, f)] = f
  BY <1>1, IndexSo DEF Fields
<1>4. \A i \in 1 .. n : flds[i] \in Fields(type)
  BY <1>1, Elements DEF Fields
<1> HIDE DEF n, flds
<1>5. ASSUME NEW f \in Fields(type)
      PROVE  /\ StrOK(type, p, f, SubSeq(rec[f].str, 1, rec[f].len))
             /\ Len(SubSeq(rec[f].str, 1, rec[f].len)) = rec[f].len
             /\ rec[f].len \in 0 .. MaxFld
             /\ IsList(SubSeq(rec[f].str, 1, rec[f].len))
  <2> DEFINE t == rec[f].str
             m == rec[f].len
             u == SubSeq(t, 1, m)
  <2>1. StrOK(type, p, f, t) /\ m \in 0 .. MaxFld /\ m <= Len(t)
    BY DEF Good, FldOK
  <2>2. Len(t) \in Nat
    BY <2>1, ListSeq DEF StrOK
  <2> HIDE DEF t, m
  <2>3. m \in 0 .. Len(t)
    BY <2>1, <2>2, MaxFldAssumption
  <2>4. StrOK(type, p, f, u) /\ Len(u) = m
    BY <2>1, <2>3, CutOK
  <2>5. IsList(u)
    BY <2>4 DEF StrOK
  <2> QED
    BY <2>1, <2>4, <2>5 DEF t, m
<1>6. \A i \in 1 .. n : /\ s[i] = SubSeq(rec[flds[i]].str, 1, rec[flds[i]].len)
                        /\ lens[i] = rec[flds[i]].len
  BY Zenon
<1>7. s = [i \in 1 .. n |-> s[i]] /\ lens = [i \in 1 .. n |-> lens[i]]
  BY Zenon
<1> HIDE DEF s, lens
<1>8. \A i \in 1 .. n : IsList(s[i]) /\ Len(s[i]) = lens[i] /\ lens[i] \in 0 .. MaxFld
  BY <1>4, <1>5, <1>6
<1>9. IsList(s) /\ Len(s) = n
  BY <1>1, <1>7, FunctionList
<1>10. Lens(s) = lens
  <2>1. Lens(s) = [i \in 1 .. n |-> Len(s[i])]
    BY <1>9 DEF Lens
  <2> QED
    BY <1>7, <1>8, <2>1
<1>11. /\ Len(body) = at[n + 1]
       /\ \A i \in 1 .. n : SubSeq(body, at[i] + 1, at[i + 1]) = s[i]
  <2>1. /\ Len(FlattenSeq(s)) = Offsets(Lens(s))[Len(s) + 1]
        /\ \A i \in 1 .. Len(s) :
             SubSeq(FlattenSeq(s), Offsets(Lens(s))[i] + 1, Offsets(Lens(s))[i + 1]) = s[i]
    BY <1>8, <1>9, Slices, Zenon
  <2> QED
    BY <1>9, <1>10, <2>1, Zenon
<1>12. lens \in [1 .. n -> Nat]
  <2>1. \A i \in 1 .. n : lens[i] \in Nat
    BY <1>8, MaxFldAssumption
  <2> QED
    BY <1>7, <2>1
<1>13. at = [i \in 1 .. n + 1 |-> at[i]]
  BY <1>1, <1>12, OffsetsStep
<1> HIDE DEF body, at
<1>14. Len(body) = Last(at)
  <2>1. Len(at) = n + 1
    <3>1. n + 1 \in Nat
      BY <1>1
    <3> QED
      BY <1>13, <3>1, FunctionList
  <2> QED
    BY <1>11, <2>1 DEF Last
<1>15. DOMAIN lens = 1 .. n
  BY <1>7
<1> DEFINE w == SetRecData(type, data)
           Cut(f) == SubSeq(body, at[Index(flds, f)] + 1, at[Index(flds, f) + 1])
<1>16. w = [f \in Fields(type) |-> [len |-> lens[Index(flds, f)], str |-> Cut(f)]]
  <2>1. Offsets(data.lens) = at
    BY <1>2 DEF at
  <2> QED
    BY <1>2, <2>1, Zenon DEF SetRecData, flds
<1>17. ASSUME NEW f \in Fields(type) PROVE FldOK(type, p, f, w[f])
  <2> DEFINE i == Index(flds, f)
             l == lens[i]
             t == Cut(f)
  <2>1. w[f] = [len |-> l, str |-> t]
    BY <1>16, Zenon
  <2>2. i \in 1 .. n /\ flds[i] = f
    BY <1>3
  <2>3. t = s[i]
    BY <1>11, <2>2, Zenon
  <2> HIDE DEF w, t, i
  <2>4. l = rec[f].len /\ t = SubSeq(rec[f].str, 1, rec[f].len)
    BY <1>6, <2>2, <2>3
  <2>5. StrOK(type, p, f, t) /\ Len(t) = l /\ l \in 0 .. MaxFld
    BY <1>5, <2>4
  <2>6. DOMAIN w[f] = {"len", "str"} /\ w[f].len = l /\ w[f].str = t
    BY <2>1
  <2> QED
    BY <2>5, <2>6, MaxFldAssumption DEF FldOK
<1>18. w = [f \in Fields(type) |-> w[f]]
  BY <1>16, Zenon
<1> HIDE DEF w
<1>19. Good(type, p, w)
  BY <1>17, <1>18, Zenon DEF Good
<1> QED
  BY <1>1, <1>2, <1>8, <1>14, <1>15, <1>19, Zenon DEF w, at, flds

(***************************************************************************)
(* The inductive invariant: the IC35 holds the data of some record whose   *)
(* strings are what fields may be, and the PIM file an object.             *)
(***************************************************************************)
Held(type, p, data) == \E r : Good(type, p, r) /\ data = GetRecData(type, r)
FieldsInv ==
  /\ topic \in Topics /\ prog \in Progs
  /\ edited \in {"none", "ic35", "pim"} /\ today \in 1 .. 2 /\ edits \in 0 .. MaxEdits
  /\ Object(obj)
  /\ Held(Type, prog, dev)

LEMMA TypeSo ==
  ASSUME topic \in Topics PROVE Type \in {"VCARD", "VEVENT", "VTODO", "VMEMO"}
BY FieldsAssumption DEF Type

LEMMA HeldSo ==
  ASSUME NEW type \in {"VCARD", "VEVENT", "VTODO", "VMEMO"}, NEW p, NEW data, Held(type, p, data)
  PROVE  /\ DOMAIN data.lens = DOMAIN FldsOf(type)
         /\ \A i \in DOMAIN data.lens : data.lens[i] \in 0 .. MaxFld
         /\ Len(data.body) = Last(Offsets(data.lens))
         /\ Good(type, p, SetRecData(type, data))
<1>1. PICK r : Good(type, p, r) /\ data = GetRecData(type, r)
  BY Zenon DEF Held
<1> QED
  BY <1>1, DataSo, Zenon

LEMMA EnteredSo ==
  ASSUME NEW t \in Topics, NEW c \in Ic35Input[t], NEW p, NEW rec, Good(TypeOf[t], p, rec)
  PROVE  Held(TypeOf[t], p, GetRecData(TypeOf[t], SetFlds(rec, c)))
<1> DEFINE type == TypeOf[t]
           w == SetFlds(rec, c)
<1>1. \A f \in DOMAIN c : FieldOK(f, c[f])
  BY FieldsAssumption
<1>2. \A f \in DOMAIN c : StrOK(type, p, f, c[f])
  <2> SUFFICES ASSUME NEW f \in DOMAIN c PROVE StrOK(type, p, f, c[f])
    OBVIOUS
  <2>1. FieldOK(f, c[f])
    BY <1>1
  <2> QED
    BY <2>1, Zenon DEF FieldOK, StrOK
<1> HIDE DEF type
<1>3. Values(type, p, c)
  BY <1>2 DEF Values
<1>4. Good(type, p, w)
  BY <1>3, SetFldsSo DEF type
<1> HIDE DEF w
<1> QED
  BY <1>4, Zenon DEF Held, type, w

LEMMA NoneSo == Object(<<>>)
<1>1. IsList(<<>>) /\ Len(<<>>) = 0
  BY SmallLists
<1> QED
  BY <1>1, ObjectSo

(* The properties with the names of the new ones are replaced.             *)
LEMMA PimEditSo ==
  ASSUME NEW ps, Object(ps), NEW new, Object(new),
         NEW kept, kept = [j \in DOMAIN ps |->
                             IF \E i \in DOMAIN new : new[i].id = ps[j].id THEN <<>> ELSE <<ps[j]>>]
  PROVE  Object(FlattenSeq(kept) \o new)
<1> DEFINE m == Len(ps)
           X == {j \in 1 .. m : ~ \E i \in DOMAIN new : new[i].id = ps[j].id}
           qs == FlattenSeq(kept)
<1>1. IsList(ps) /\ m \in Nat /\ DOMAIN ps = 1 .. m
  BY ObjectSo, ListSeq
<1>2. kept = [j \in 1 .. m |-> kept[j]]
  BY <1>1, Zenon
<1>3. \A j \in 1 .. m : kept[j] = IF j \in X THEN <<ps[j]>> ELSE <<>>
  <2> TAKE j \in 1 .. m
  <2>1. kept[j] = IF \E i \in DOMAIN new : new[i].id = ps[j].id THEN <<>> ELSE <<ps[j]>>
    BY <1>1, Zenon
  <2>2. j \in X <=> ~ \E i \in DOMAIN new : new[i].id = ps[j].id
    OBVIOUS
  <2> HIDE DEF X
  <2> QED
    BY <2>1, <2>2, Zenon
<1>4. IsList(kept) /\ Len(kept) = m
  <2> HIDE DEF m
  <2> QED
    BY <1>1, <1>2, FunctionList
<1>5. X \subseteq 1 .. m
  OBVIOUS
<1>6. PICK g : PickedBy(g, qs, ps, X)
  <2> HIDE DEF X
  <2> QED
    BY <1>1, <1>3, <1>4, <1>5, Picked, Zenon
<1> HIDE DEF qs
<1>7. ObjectOf(qs, ps, X)
  <2> HIDE DEF X
  <2> QED
    BY <1>5, <1>6, ObjectPicked, Zenon
<1>8. ASSUME NEW id, Those(new, id) # {} PROVE Those(qs, id) = {}
  <2>1. DOMAIN new = 1 .. Len(new)
    BY ObjectSo, ListSeq
  <2>2. \E i \in DOMAIN new : new[i].id = id
    BY <1>8, <2>1 DEF Those
  <2>3. {j \in X : ps[j].id = id} = {}
    BY <2>2
  <2> HIDE DEF X
  <2> QED
    BY <1>7, <2>3 DEF ObjectOf
<1>9. Object(qs)
  BY <1>7, Zenon DEF ObjectOf
<1> QED
  BY <1>8, <1>9, BothObjects, Zenon DEF qs

LEMMA FieldsInit == Init => FieldsInv
<1> SUFFICES ASSUME Init PROVE FieldsInv
  OBVIOUS
<1>1. topic \in Topics /\ today = 1 /\ edits = 0
  BY DEF Init
<1>2. prog \in Progs
  <2>1. prog \in IF TypeOf[topic] \in {"VEVENT", "VTODO"} THEN Progs ELSE {"none"}
    BY DEF Init
  <2> QED
    BY <2>1, FieldsAssumption
<1>3. today \in 1 .. 2 /\ edits \in 0 .. MaxEdits
  BY <1>1, FieldsAssumption
<1> DEFINE new == NewIc35Rec(Type)
<1>4. Good(Type, prog, new)
  BY NewSo
<1>5. CASE /\ edited = "ic35" /\ obj = <<>>
           /\ \E c \in Ic35Input[topic] : dev = GetRecData(Type, SetFlds(new, c))
  <2> HIDE DEF new
  <2>1. PICK c \in Ic35Input[topic] : dev = GetRecData(Type, SetFlds(new, c))
    BY <1>5
  <2>2. Held(Type, prog, dev)
    <3>1. Held(TypeOf[topic], prog, GetRecData(TypeOf[topic], SetFlds(new, c)))
      BY <1>1, <1>4, EnteredSo DEF Type
    <3> QED
      BY <2>1, <3>1, Zenon DEF Type
  <2>3. Object(obj)
    BY <1>5, NoneSo
  <2> QED
    BY <1>1, <1>2, <1>3, <1>5, <2>2, <2>3 DEF FieldsInv
<1>6. CASE /\ edited = "pim" /\ obj \in PimInput[topic]
           /\ dev = GetRecData(Type, new)
  <2> HIDE DEF new
  <2>1. Held(Type, prog, dev)
    BY <1>4, <1>6, Zenon DEF Held
  <2>2. Object(obj)
    BY <1>1, <1>6, FieldsAssumption
  <2> QED
    BY <1>1, <1>2, <1>3, <1>6, <2>1, <2>2 DEF FieldsInv
<1> QED
  BY <1>5, <1>6 DEF Init

(* What the actions leave alone.                                           *)
LEMMA SameType == ASSUME topic' = topic PROVE Type' = Type
BY DEF Type

LEMMA HeldStays ==
  ASSUME Held(Type, prog, dev), topic' = topic, prog' = prog, dev' = dev
  PROVE  Held(Type, prog, dev)'
BY SameType, Zenon DEF Held

LEMMA FieldsStep == FieldsInv /\ [Next]_vars => FieldsInv'
<1> SUFFICES ASSUME FieldsInv, [Next]_vars PROVE FieldsInv'
  OBVIOUS
<1> USE DEF FieldsInv
<1>1. /\ topic \in Topics /\ prog \in Progs
      /\ edited \in {"none", "ic35", "pim"} /\ today \in 1 .. 2 /\ edits \in 0 .. MaxEdits
      /\ Object(obj) /\ Held(Type, prog, dev)
  OBVIOUS
<1>2. Type \in {"VCARD", "VEVENT", "VTODO", "VMEMO"}
  BY <1>1, TypeSo
<1>3. Good(Type, prog, Rec)
  BY <1>1, <1>2, HeldSo, Zenon DEF Rec
<1>4. ASSUME NEW side \in {"ic35", "pim"}, Edits(side)
      PROVE  /\ topic' = topic /\ prog' = prog /\ today' = today
             /\ edited' \in {"none", "ic35", "pim"} /\ edits' \in 0 .. MaxEdits
  BY <1>1, <1>4, FieldsAssumption DEF Edits
<1>5. CASE Ic35Edits
  <2>1. /\ topic' = topic /\ prog' = prog /\ today' = today /\ obj' = obj
        /\ edited' \in {"none", "ic35", "pim"} /\ edits' \in 0 .. MaxEdits
    BY <1>4, <1>5 DEF Ic35Edits
  <2>2. PICK c \in Ic35Input[topic] : dev' = GetRecData(Type, SetFlds(Rec, c))
    BY <1>5 DEF Ic35Edits
  <2>3. Held(Type, prog, dev')
    <3>1. Held(TypeOf[topic], prog, GetRecData(TypeOf[topic], SetFlds(Rec, c)))
      BY <1>1, <1>3, EnteredSo, Zenon DEF Type
    <3> QED
      BY <2>2, <3>1, Zenon DEF Type
  <2>4. Held(Type, prog, dev)'
    BY <2>1, <2>3, SameType, Zenon DEF Held
  <2> QED
    BY <1>1, <2>1, <2>4
<1>6. CASE PimEdits
  <2>1. /\ topic' = topic /\ prog' = prog /\ today' = today /\ dev' = dev
        /\ edited' \in {"none", "ic35", "pim"} /\ edits' \in 0 .. MaxEdits
    BY <1>4, <1>6 DEF PimEdits
  <2>2. PICK new \in PimInput[topic] :
          obj' = FlattenSeq([j \in DOMAIN obj |->
                   IF \E i \in DOMAIN new : new[i].id = obj[j].id THEN <<>> ELSE <<obj[j]>>]) \o new
    BY <1>6, Zenon DEF PimEdits
  <2>3. Object(new)
    BY <1>1, FieldsAssumption
  <2>4. Object(obj')
    BY <1>1, <2>2, <2>3, PimEditSo, Zenon
  <2>5. Held(Type, prog, dev)'
    BY <1>1, <2>1, HeldStays
  <2> QED
    BY <1>1, <2>1, <2>4, <2>5
<1>7. CASE Put
  <2>1. /\ UNCHANGED <<topic, prog, dev, today, edits>> /\ edited' = "none" /\ obj' = AfterPut
    BY <1>7 DEF Put
  <2>2. Object(AfterPut)
    <3>1. AfterPut = PutIc35Rec(Type, prog, Rec, obj, today)
      BY DEF AfterPut
    <3>2. \E cats : PutKeeps(Type, Rec, obj, AfterPut, cats)
      BY <1>1, <1>2, <1>3, <3>1, PutSo, Zenon
    <3> QED
      BY <3>2, Zenon DEF PutKeeps
  <2>3. Held(Type, prog, dev)'
    BY <1>1, <2>1, HeldStays
  <2> QED
    BY <1>1, <2>1, <2>2, <2>3
<1>8. CASE Update
  <2>1. /\ UNCHANGED <<topic, prog, obj, today, edits>> /\ edited' = "none"
        /\ dev' = GetRecData(Type, AfterUpdate)
    BY <1>8 DEF Update
  <2>2. Good(Type, prog, AfterUpdate)
    <3> DEFINE r == UpdIc35Rec(Type, prog, Rec, obj, today)
    <3>1. Good(Type, prog, r)
      BY <1>1, <1>2, <1>3, UpdSo
    <3> HIDE DEF r
    <3>2. Good(Type, prog, SetRecData(Type, GetRecData(Type, r)))
      BY <1>2, <3>1, DataSo, Zenon
    <3> QED
      BY <3>2, Zenon DEF AfterUpdate, r
  <2>3. Held(Type, prog, dev')
    BY <2>1, <2>2, Zenon DEF Held
  <2>4. Held(Type, prog, dev)'
    BY <2>1, <2>3, SameType, Zenon DEF Held
  <2> QED
    BY <1>1, <2>1, <2>4
<1>9. CASE Midnight
  <2>1. /\ UNCHANGED <<topic, prog, dev, obj, edited>> /\ today' = 2
        /\ edits < MaxEdits /\ edits' = edits + 1
    BY <1>9 DEF Midnight
  <2>2. today' \in 1 .. 2 /\ edits' \in 0 .. MaxEdits
    BY <1>1, <2>1, FieldsAssumption
  <2>3. Held(Type, prog, dev)'
    BY <1>1, <2>1, HeldStays
  <2> QED
    BY <1>1, <2>1, <2>2, <2>3
<1>10. CASE UNCHANGED vars
  <2>1. UNCHANGED <<topic, prog, dev, obj, edited, today, edits>>
    BY <1>10 DEF vars
  <2>2. Held(Type, prog, dev)'
    BY <1>1, <2>1, HeldStays
  <2> QED
    BY <1>1, <2>1, <2>2
<1> QED
  BY <1>5, <1>6, <1>7, <1>8, <1>9, <1>10 DEF Next

(* Data for the IC35 is always as long as its length bytes say, and no     *)
(* field is longer than set_ic35recfld() lets it be; the texts of a PIM    *)
(* record never get carriage returns, and only telephone numbers and email *)
(* addresses occur in it more than once, whatever is edited and converted. *)
THEOREM FieldsTyped == Spec => []TypeOK
<1>1. FieldsInv => TypeOK
  <2> SUFFICES ASSUME FieldsInv PROVE TypeOK
    OBVIOUS
  <2>1. /\ topic \in Topics /\ prog \in Progs
        /\ edited \in {"none", "ic35", "pim"} /\ today \in 1 .. 2 /\ edits \in 0 .. MaxEdits
        /\ Object(obj) /\ Held(Type, prog, dev)
    BY DEF FieldsInv
  <2>2. Type \in {"VCARD", "VEVENT", "VTODO", "VMEMO"}
    BY <2>1, TypeSo
  <2>3. /\ DOMAIN dev.lens = DOMAIN FldsOf(Type)
        /\ \A i \in DOMAIN dev.lens : dev.lens[i] \in 0 .. MaxFld
        /\ Len(dev.body) = Last(Offsets(dev.lens))
    BY <2>1, <2>2, HeldSo, Zenon
  <2>4. /\ IsList(obj) /\ \A i \in 1 .. Len(obj) : PropOK(obj[i])
        /\ \A i, j \in 1 .. Len(obj) : obj[i].id = obj[j].id /\ obj[i].id \notin Repeated => i = j
    BY <2>1, ObjectSo
  <2>5. DOMAIN obj = 1 .. Len(obj)
    BY <2>4, ListSeq
  <2>6. ASSUME NEW i \in DOMAIN obj, obj[i].id \in {"SUMMARY", "NOTE", "DESCRIPTION"}
        PROVE  ~Contains(obj[i].val, "CR")
    <3>1. ValOK(obj[i].id, obj[i].val)
      BY <2>4, <2>5 DEF PropOK
    <3>2. IsList(obj[i].val) /\ OneLine(obj[i].val)
      BY <2>6, <3>1 DEF ValOK
    <3> QED
      BY <3>2, ContainsSo, Zenon DEF OneLine
  <2> QED
    BY <2>1, <2>3, <2>4, <2>5, <2>6, Zenon DEF TypeOK
<1> QED
  BY <1>1, FieldsInit, FieldsStep, PTL DEF Spec

(* What the IC35 cannot hold survives every conversion of its record into  *)
(* the PIM record: a photo, the further categories (SetCategory changes    *)
(* one), and the unit of an organisation as long as there is a company.    *)
THEOREM ForeignStays == Spec => []ForeignKept
<1>1. FieldsInv => ForeignKept
  <2> SUFFICES ASSUME FieldsInv PROVE ForeignKept
    OBVIOUS
  <2> DEFINE cats == Parts(StringValue(obj, "CATEGORIES"))
  <2>1. topic \in Topics /\ Object(obj) /\ Held(Type, prog, dev)
    BY DEF FieldsInv
  <2>2. Type \in {"VCARD", "VEVENT", "VTODO", "VMEMO"}
    BY <2>1, TypeSo
  <2>3. Good(Type, prog, Rec)
    BY <2>1, <2>2, HeldSo, Zenon DEF Rec
  <2>4. /\ StringValue(AfterPut, "PHOTO") = StringValue(obj, "PHOTO")
        /\ Len(cats) > 1 => OtherCategories(cats) \subseteq ToSet(StringValue(AfterPut, "CATEGORIES"))
        /\ Type = "VCARD" =>
             (RecFld(Rec, "Company") # <<>> =>
                SubValue(AfterPut, "ORG", "UNIT") = SubValue(obj, "ORG", "UNIT"))
    <3>1. AfterPut = PutIc35Rec(Type, prog, Rec, obj, today)
      BY DEF AfterPut
    <3>2. cats = Parts(StringValue(obj, "CATEGORIES"))
      OBVIOUS
    <3> HIDE DEF cats
    <3>3. PutKeeps(Type, Rec, obj, AfterPut, cats)
      BY <2>1, <2>2, <2>3, <3>1, <3>2, PutSo, Zenon
    <3> QED
      BY <3>3, Zenon DEF PutKeeps
  <2> HIDE DEF cats
  <2>5. KeepsForeign(AfterPut, cats)
    BY <2>4, Zenon DEF KeepsForeign, Fld
  <2> QED
    BY <2>5, Zenon DEF ForeignKept, cats
<1> QED
  BY <1>1, FieldsInit, FieldsStep, PTL DEF Spec

(* A full name that is made of two different names is, once the IC35 has   *)
(* changed them, made of the new ones: replacing the old last name, and    *)
(* then the old first name, is right even when a new name is an old one.   *)
THEOREM FullNamesStay == Spec => []NamesInFull
<1>1. FieldsInv => NamesInFull
  <2> SUFFICES ASSUME FieldsInv PROVE NamesInFull
    OBVIOUS
  <2> DEFINE fn    == StringValue(obj, "FN")
             first == SubValue(obj, "N", "GIVEN")
             last  == SubValue(obj, "N", "FAMILY")
             whole == first \o <<" ">> \o last
             a     == Fld("FirstName")
             b     == Fld("LastName")
             new   == a \o <<" ">> \o b
  <2>1. topic \in Topics /\ Object(obj) /\ Held(Type, prog, dev)
    BY DEF FieldsInv
  <2>2. Type \in {"VCARD", "VEVENT", "VTODO", "VMEMO"}
    BY <2>1, TypeSo
  <2>3. Good(Type, prog, Rec)
    BY <2>1, <2>2, HeldSo, Zenon DEF Rec
  <2>4. ASSUME Type = "VCARD", fn = whole, first # <<>>, last # <<>>, first # last
        PROVE  StringValue(AfterPut, "FN") = new
    <3>1. IsList(a) /\ IsList(b)
      <4>1. "FirstName" \in Fields(Type) /\ "LastName" \in Fields(Type)
        BY <2>4, FieldsAre
      <4> QED
        BY <2>3, <4>1, RecFldSo, Zenon DEF Fld
    <3>2. IsList(first) /\ Word(first) /\ IsList(last) /\ Word(last)
      BY <2>1, SubSo DEF Repeated
    <3>3. StringValue(AfterPut, "FN") =
            FullName(fn, first, last, RecFld(Rec, "FirstName"), RecFld(Rec, "LastName"))
      <4>1. AfterPut = PutIc35Rec(Type, prog, Rec, obj, today)
        BY DEF AfterPut
      <4> DEFINE cats == Parts(StringValue(obj, "CATEGORIES"))
      <4>2. cats = Parts(StringValue(obj, "CATEGORIES"))
        OBVIOUS
      <4> HIDE DEF cats
      <4>3. PutKeeps(Type, Rec, obj, AfterPut, cats)
        BY <2>1, <2>2, <2>3, <4>1, <4>2, PutSo, Zenon
      <4> QED
        BY <2>4, <4>3, Zenon DEF PutKeeps
    <3>4. StringValue(AfterPut, "FN") = FullName(whole, first, last, a, b)
      BY <2>4, <3>3, Zenon DEF Fld
    <3> HIDE DEF fn, first, last, a, b
    <3>5. FullName(whole, first, last, a, b) = new
      <4>1. NamesSo(first, last, a, b)
        BY <2>4, <3>1, <3>2, NamesSwapped, Zenon
      <4> QED
        BY <4>1, Zenon DEF NamesSo
    <3> QED
      BY <3>4, <3>5, Zenon
  <2> QED
    BY <2>4, Zenon DEF NamesInFull
<1> QED
  BY <1>1, FieldsInit, FieldsStep, PTL DEF Spec
=============================================================================
