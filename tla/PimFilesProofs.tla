--------------------------- MODULE PimFilesProofs ---------------------------
(***************************************************************************)
(* A run of ic35sync never holds the last copy of a record in memory only: *)
(* whatever fails between pim_open and the end of pim_close, the records   *)
(* found in the PIM files are in them or in their backups.  What a run has *)
(* written undisturbed the next one reads.                                 *)
(***************************************************************************)
EXTENDS PimFiles, TLAPS, SequenceTheorems, FiniteSetTheorems, WellFoundedInduction

(* Induction over the natural numbers, as a fact about sets of them: every  *)
(* set of intervals has one that contains no other.                        *)
LEMMA LeastNat ==
  ASSUME NEW T, T \subseteq Nat, T # {}
  PROVE  \E x \in T : \A y \in T : x <= y
<1> DEFINE F == {0 .. n : n \in T}
<1>1. F \subseteq FiniteSubsetsOf(Nat)
  <2>1. ASSUME NEW n \in T PROVE IsFiniteSet(0 .. n) /\ 0 .. n \subseteq Nat
    BY FS_Interval
  <2> QED
    BY <2>1 DEF FiniteSubsetsOf
<1>2. PICK b \in F : \A c \in F : ~(<<c, b>> \in StrictSubsetOrdering(Nat))
  <2>1. IsWellFoundedOn(StrictSubsetOrdering(Nat), FiniteSubsetsOf(Nat))
    BY FS_StrictSubsetOrderingWellFounded
  <2>2. F # {}
    OBVIOUS
  <2> HIDE DEF F
  <2> QED
    BY <1>1, <2>1, <2>2, WFMin
<1>3. PICK x \in T : b = 0 .. x
  OBVIOUS
<1>4. ASSUME NEW y \in T, ~(x <= y) PROVE FALSE
  <2>1. 0 .. y \in F /\ 0 .. y \subseteq 0 .. x /\ 0 .. y # 0 .. x
    BY <1>4
  <2>2. 0 .. y \subseteq Nat /\ 0 .. x \subseteq Nat
    OBVIOUS
  <2> HIDE DEF F
  <2> QED
    BY <1>2, <1>3, <2>1, <2>2 DEF StrictSubsetOrdering
<1> QED
  BY <1>4

LEMMA Induction ==
  ASSUME NEW T, 0 \in T, \A n \in Nat : n \in T => n + 1 \in T
  PROVE  Nat \subseteq T
<1> SUFFICES ASSUME Nat \ T # {} PROVE FALSE
  OBVIOUS
<1>1. PICK x \in Nat \ T : \A y \in Nat \ T : x <= y
  BY LeastNat
<1>2. x # 0 /\ x - 1 \in Nat
  OBVIOUS
<1> QED
  BY <1>1, <1>2

-----------------------------------------------------------------------------
IsList(s) == \E S : s \in Seq(S)

LEMMA ListWithin ==
  ASSUME NEW s, IsList(s)
  PROVE  s \in Seq(ToSet(s)) /\ DOMAIN s = 1 .. Len(s) /\ Len(s) \in Nat
<1> PICK S : s \in Seq(S)
  BY DEF IsList
<1>1. Len(s) \in Nat /\ s \in [1 .. Len(s) -> S] /\ DOMAIN s = 1 .. Len(s)
  BY LenProperties
<1>2. s \in [1 .. Len(s) -> ToSet(s)]
  BY <1>1 DEF ToSet
<1> QED
  BY <1>1, <1>2, SeqDef

LEMMA Together ==
  ASSUME NEW s, NEW t, IsList(s), IsList(t)
  PROVE  \E S : s \in Seq(S) /\ t \in Seq(S)
<1>1. s \in Seq(ToSet(s) \cup ToSet(t)) /\ t \in Seq(ToSet(s) \cup ToSet(t))
  BY ListWithin, SeqMonotonic
<1> QED
  BY <1>1

LEMMA ListOfOne == IsList(<<>>) /\ \A e : IsList(<<e>>)
<1>1. IsList(<<>>)
  BY EmptySeq DEF IsList
<1>2. ASSUME NEW e PROVE <<e>> \in Seq({e})
  OBVIOUS
<1> QED
  BY <1>1, <1>2 DEF IsList

LEMMA ListConcat ==
  ASSUME NEW s, NEW t, IsList(s), IsList(t)
  PROVE  IsList(s \o t) /\ ToSet(s \o t) = ToSet(s) \cup ToSet(t)
<1> PICK S : s \in Seq(S) /\ t \in Seq(S)
  BY Together
<1> DEFINE u == s \o t
<1>1. u \in Seq(S) /\ Len(u) = Len(s) + Len(t)
  BY ConcatProperties
<1>2. \A i \in 1 .. Len(u) : u[i] = IF i <= Len(s) THEN s[i] ELSE t[i - Len(s)]
  BY ConcatProperties
<1>3. /\ DOMAIN s = 1 .. Len(s) /\ Len(s) \in Nat
      /\ DOMAIN t = 1 .. Len(t) /\ Len(t) \in Nat
  BY ListWithin
<1> HIDE DEF u
<1>4. DOMAIN u = 1 .. Len(s) + Len(t)
  BY <1>1, LenProperties
<1>5. \A i \in DOMAIN s : i \in DOMAIN u /\ u[i] = s[i]
  BY <1>1, <1>2, <1>3, <1>4
<1>6. \A i \in DOMAIN t : Len(s) + i \in DOMAIN u /\ u[Len(s) + i] = t[i]
  BY <1>1, <1>2, <1>3, <1>4
<1>7. \A i \in DOMAIN u : \/ i \in DOMAIN s /\ u[i] = s[i]
                          \/ i - Len(s) \in DOMAIN t /\ u[i] = t[i - Len(s)]
  BY <1>1, <1>2, <1>3, <1>4
<1>8. ToSet(u) = ToSet(s) \cup ToSet(t)
  BY <1>5, <1>6, <1>7 DEF ToSet
<1> QED
  BY <1>1, <1>8 DEF u, IsList

LEMMA ListAppend == 
  ASSUME NEW s, NEW e, IsList(s)
  PROVE  IsList(Append(s, e)) /\ ToSet(Append(s, e)) = ToSet(s) \cup {e}
<1> DEFINE S == ToSet(s) \cup {e}
<1>1. s \in Seq(S) /\ DOMAIN s = 1 .. Len(s) /\ Len(s) \in Nat
  BY ListWithin, SeqMonotonic
<1> DEFINE a == Append(s, e)
<1>2. /\ a \in Seq(S) /\ Len(a) = Len(s) + 1
      /\ \A i \in 1 .. Len(s) : a[i] = s[i]
      /\ a[Len(s) + 1] = e
  <2> HIDE DEF S
  <2>1. e \in S
    BY DEF S
  <2> QED
    BY <1>1, <2>1, AppendProperties
<1>3. DOMAIN a = 1 .. Len(s) + 1
  <2> HIDE DEF a, S
  <2> QED
    BY <1>2, LenProperties
<1> HIDE DEF a, S
<1>4. ToSet(a) = ToSet(s) \cup {e}
  <2>1. \A i \in DOMAIN a : a[i] \in ToSet(s) \cup {e}
    BY <1>1, <1>2, <1>3 DEF ToSet
  <2>2. \A i \in DOMAIN s : s[i] = a[i] /\ i \in DOMAIN a
    BY <1>1, <1>2, <1>3
  <2>3. e = a[Len(s) + 1] /\ Len(s) + 1 \in DOMAIN a
    BY <1>1, <1>2, <1>3
  <2> QED
    BY <2>1, <2>2, <2>3 DEF ToSet
<1> QED
  BY <1>2, <1>4 DEF IsList, a

LEMMA ListPart ==
  ASSUME NEW s, NEW m \in Int, NEW n \in Int PROVE IsList(SubSeq(s, m, n))
<1> DEFINE S == {s[i] : i \in m .. n}
<1>1. \A i \in m .. n : s[i] \in S
  OBVIOUS
<1> HIDE DEF S
<1> QED
  BY <1>1, SubSeqProperties DEF IsList

LEMMA ListSubSeq ==
  ASSUME NEW s, IsList(s), NEW m \in Int, NEW n \in Int, 1 <= m, n <= Len(s)
  PROVE  IsList(SubSeq(s, m, n)) /\ ToSet(SubSeq(s, m, n)) = {s[i] : i \in m .. n}
<1>1. /\ Len(s) \in Nat /\ DOMAIN s = 1 .. Len(s)
  BY ListWithin
<1> DEFINE S == ToSet(s)
<1>2. \A i \in m .. n : s[i] \in S
  BY <1>1 DEF ToSet
<1> DEFINE t == SubSeq(s, m, n)
<1>3. /\ t \in Seq(S) /\ Len(t) = IF m <= n THEN n - m + 1 ELSE 0
      /\ \A i \in 1 .. n - m + 1 : t[i] = s[m + i - 1]
  <2> HIDE DEF S
  <2> QED
    BY <1>2, SubSeqProperties
<1>4. DOMAIN t = 1 .. Len(t)
  <2> HIDE DEF t, S
  <2> QED
    BY <1>3, LenProperties
<1> HIDE DEF t, S
<1>5. DOMAIN t = 1 .. n - m + 1
  BY <1>3, <1>4
<1>6. \A i \in m .. n : s[i] = t[i - m + 1] /\ i - m + 1 \in DOMAIN t
  BY <1>3, <1>5
<1>7. \A i \in DOMAIN t : t[i] = s[m + i - 1] /\ m + i - 1 \in m .. n
  BY <1>3, <1>5
<1>8. ToSet(t) = {s[i] : i \in m .. n}
  <2>1. ASSUME NEW e \in ToSet(t) PROVE e \in {s[i] : i \in m .. n}
    <3>1. PICK i \in DOMAIN t : e = t[i]
      BY <2>1 DEF ToSet
    <3> QED
      BY <1>7, <3>1
  <2>2. ASSUME NEW i \in m .. n PROVE s[i] \in ToSet(t)
    BY <1>6, <2>2 DEF ToSet
  <2> QED
    BY <2>1, <2>2
<1> QED
  BY <1>3, <1>8 DEF IsList, t

LEMMA ListFront ==
  ASSUME NEW s, IsList(s)
  PROVE  /\ IsList(Front(s))
         /\ ~(s = <<>>) => ToSet(s) = ToSet(Front(s)) \cup {s[Len(s)]}
<1>1. /\ Len(s) \in Nat /\ DOMAIN s = 1 .. Len(s)
  BY ListWithin
<1>2. IsList(Front(s)) /\ ToSet(Front(s)) = {s[i] : i \in 1 .. Len(s) - 1}
  BY <1>1, ListSubSeq DEF Front
<1>3. s # <<>> => Len(s) > 0
  BY <1>1, EmptySeq, ListWithin
<1>4. ASSUME s # <<>> PROVE ToSet(s) = ToSet(Front(s)) \cup {s[Len(s)]}
  <2>1. DOMAIN s = (1 .. Len(s) - 1) \cup {Len(s)}
    BY <1>1, <1>3, <1>4
  <2> QED
    BY <1>2, <2>1 DEF ToSet
<1> QED
  BY <1>2, <1>4

LEMMA ListRemove ==
  ASSUME NEW s, IsList(s), NEW i \in DOMAIN s
  PROVE  IsList(RemoveAt(s, i)) /\ ToSet(s) \ {s[i]} \subseteq ToSet(RemoveAt(s, i))
<1>1. /\ Len(s) \in Nat /\ DOMAIN s = 1 .. Len(s)
  BY ListWithin
<1> DEFINE a == SubSeq(s, 1, i - 1)
           b == SubSeq(s, i + 1, Len(s))
<1>2. /\ IsList(a) /\ ToSet(a) = {s[j] : j \in 1 .. i - 1}
      /\ IsList(b) /\ ToSet(b) = {s[j] : j \in i + 1 .. Len(s)}
  BY <1>1, ListSubSeq
<1>3. IsList(a \o b) /\ ToSet(a \o b) = ToSet(a) \cup ToSet(b)
  <2> HIDE DEF a, b
  <2> QED
    BY <1>2, ListConcat
<1>4. ASSUME NEW j \in DOMAIN s, s[j] # s[i] PROVE s[j] \in ToSet(a) \cup ToSet(b)
  <2>1. j \in 1 .. i - 1 \/ j \in i + 1 .. Len(s)
    BY <1>1, <1>4
  <2> HIDE DEF a, b
  <2> QED
    BY <1>2, <2>1
<1>5. ToSet(s) \ {s[i]} \subseteq ToSet(a \o b)
  <2> HIDE DEF a, b
  <2> QED
    BY <1>3, <1>4 DEF ToSet
<1> QED
  BY <1>3, <1>5 DEF RemoveAt

LEMMA ListInsert ==
  ASSUME NEW s, IsList(s), NEW i \in Int, NEW e PROVE IsList(InsertAt(s, i, e))
<1>1. Len(s) \in Int
  BY ListWithin
<1>2. IsList(SubSeq(s, 1, i - 1)) /\ IsList(SubSeq(s, i, Len(s))) /\ IsList(<<e>>)
  BY <1>1, ListPart, ListOfOne
<1>3. IsList(SubSeq(s, 1, i - 1) \o <<e>>)
  BY <1>2, ListConcat
<1> QED
  BY <1>2, <1>3, ListConcat DEF InsertAt

LEMMA ListExcept ==
  ASSUME NEW s, IsList(s), NEW i, NEW e PROVE IsList([s EXCEPT ![i] = e])
<1> PICK S : s \in Seq(S)
  BY DEF IsList
<1>1. s \in Seq(S \cup {e})
  BY SeqMonotonic
<1>2. s \in [1 .. Len(s) -> S \cup {e}] /\ Len(s) \in Nat
  BY <1>1, LenProperties
<1>3. [s EXCEPT ![i] = e] \in [1 .. Len(s) -> S \cup {e}]
  BY <1>2
<1>4. [s EXCEPT ![i] = e] \in Seq(S \cup {e})
  BY <1>2, <1>3, SeqDef
<1> QED
  BY <1>4 DEF IsList

(* The recursive function in Output exists.                                *)
LEMMA OutputSteps ==
  ASSUME NEW k, IsList(list)
  PROVE  \E sel : /\ Output(k) = sel[Len(list)] /\ sel[0] = <<>>
                  /\ \A n \in Nat : n + 1 <= Len(list) =>
                       sel[n + 1] = IF Dest(list[n + 1]) = k
                                    THEN Append(sel[n], list[n + 1]) ELSE sel[n]
<1> DEFINE L == Len(list)
           Value(g, n) == IF n = 0 THEN <<>>
                          ELSE IF Dest(list[n]) = k THEN Append(g[n - 1], list[n])
                          ELSE g[n - 1]
<1>0. L \in Nat /\ DOMAIN list = 1 .. L
  BY ListWithin
<1>1. \A N \in Nat : \E g : g = [n \in 0 .. N |-> Value(g, n)]
  <2> DEFINE T == {N \in Nat : \E g : g = [n \in 0 .. N |-> Value(g, n)]}
  <2>1. 0 \in T
    <3>1. [n \in 0 .. 0 |-> <<>>] = [n \in 0 .. 0 |-> Value([m \in 0 .. 0 |-> <<>>], n)]
      <4>1. \A n \in 0 .. 0 : n = 0
        OBVIOUS
      <4> QED
        BY <4>1
    <3> QED
      BY <3>1
  <2>2. ASSUME NEW N \in Nat, N \in T PROVE N + 1 \in T
    <3> PICK g : g = [n \in 0 .. N |-> Value(g, n)]
      BY <2>2
    <3> DEFINE h == [n \in 0 .. N + 1 |-> IF n = N + 1 THEN Value(g, n) ELSE g[n]]
    <3>1. \A n \in 0 .. N : h[n] = g[n] /\ g[n] = Value(g, n)
      <4>1. ASSUME NEW n \in 0 .. N PROVE h[n] = g[n]
        <5>1. n \in 0 .. N + 1 /\ n # N + 1
          OBVIOUS
        <5> HIDE DEF Value
        <5> QED
          BY <5>1
      <4>2. ASSUME NEW n \in 0 .. N PROVE g[n] = Value(g, n)
        <5> HIDE DEF Value
        <5> QED
          OBVIOUS
      <4> QED
        BY <4>1, <4>2
    <3>2. ASSUME NEW n \in 0 .. N + 1 PROVE Value(h, n) = Value(g, n)
      <4>1. CASE n = 0
        BY <4>1
      <4>2. CASE n # 0
        <5>1. n - 1 \in 0 .. N
          BY <4>2
        <5>2. h[n - 1] = g[n - 1]
          BY <3>1, <5>1
        <5> HIDE DEF h
        <5> QED
          BY <5>2
      <4> QED
        BY <4>1, <4>2
    <3>3. ASSUME NEW n \in 0 .. N + 1 PROVE h[n] = Value(h, n)
      <4>1. CASE n = N + 1
        <5>1. h[n] = Value(g, n)
          <6> HIDE DEF Value
          <6> QED
            BY <4>1
        <5> HIDE DEF h, Value
        <5> QED
          BY <3>2, <5>1
      <4>2. CASE n # N + 1
        <5>1. n \in 0 .. N
          BY <4>2
        <5> HIDE DEF h, Value
        <5> QED
          BY <3>1, <3>2, <5>1
      <4> QED
        BY <4>1, <4>2
    <3>4. h = [n \in 0 .. N + 1 |-> h[n]]
      <4> HIDE DEF Value
      <4> QED
        OBVIOUS
    <3>5. h = [n \in 0 .. N + 1 |-> Value(h, n)]
      <4> HIDE DEF h, Value
      <4> QED
        BY <3>3, <3>4
    <3> HIDE DEF h, Value
    <3> QED
      BY <3>5
  <2> HIDE DEF T
  <2>3. Nat \subseteq T
    BY <2>1, <2>2, Induction
  <2> QED
    BY <2>3 DEF T
<1> DEFINE sel == CHOOSE g : g = [n \in 0 .. L |-> Value(g, n)]
<1>2. sel = [n \in 0 .. L |-> Value(sel, n)]
  <2> HIDE DEF Value
  <2> QED
    BY <1>0, <1>1
<1>3. Output(k) = sel[L]
  BY DEF Output
<1> HIDE DEF sel
<1>4. \A n \in Nat : n <= L => sel[n] = Value(sel, n)
  <2> HIDE DEF Value
  <2> QED
    BY <1>0, <1>2
<1>5. sel[0] = <<>>
  BY <1>0, <1>4
<1>6. ASSUME NEW n \in Nat, n + 1 <= L
      PROVE  sel[n + 1] = IF Dest(list[n + 1]) = k THEN Append(sel[n], list[n + 1]) ELSE sel[n]
  <2>1. n + 1 # 0 /\ (n + 1) - 1 = n /\ n + 1 \in Nat
    OBVIOUS
  <2> QED
    BY <1>4, <1>6, <2>1
<1> HIDE DEF Value
<1>7. \A n \in Nat : n + 1 <= L =>
         sel[n + 1] = IF Dest(list[n + 1]) = k THEN Append(sel[n], list[n + 1]) ELSE sel[n]
  BY <1>6
<1> QED
  BY <1>3, <1>5, <1>7, Zenon

(* It selects what it says, and keeps one calendar one.                    *)
HasCal(s) == \E i \in DOMAIN s : s[i].t = "VCAL"
OneCal(s) == \A i, j \in DOMAIN s : s[i].t = "VCAL" /\ s[j].t = "VCAL" => i = j

LEMMA AppendAt ==
  ASSUME NEW s, NEW e, IsList(s)
  PROVE  /\ DOMAIN Append(s, e) = 1 .. Len(s) + 1
         /\ \A i \in DOMAIN s : Append(s, e)[i] = s[i]
         /\ Append(s, e)[Len(s) + 1] = e
<1> DEFINE S == ToSet(s) \cup {e}
           a == Append(s, e)
<1>1. s \in Seq(S) /\ DOMAIN s = 1 .. Len(s) /\ Len(s) \in Nat /\ e \in S
  BY ListWithin, SeqMonotonic
<1>2. /\ a \in Seq(S) /\ Len(a) = Len(s) + 1
      /\ \A i \in 1 .. Len(s) : a[i] = s[i]
      /\ a[Len(s) + 1] = e
  <2> HIDE DEF S
  <2> QED
    BY <1>1, AppendProperties
<1> HIDE DEF a, S
<1>3. DOMAIN a = 1 .. Len(s) + 1
  BY <1>2, LenProperties
<1> QED
  BY <1>1, <1>2, <1>3 DEF a

LEMMA AppendCal ==
  ASSUME NEW s, NEW e, IsList(s), OneCal(s), e.t = "VCAL" => ~HasCal(s)
  PROVE  OneCal(Append(s, e)) /\ (HasCal(Append(s, e)) => HasCal(s) \/ e.t = "VCAL")
<1> DEFINE a == Append(s, e)
<1>1. DOMAIN s = 1 .. Len(s) /\ Len(s) \in Nat
  BY ListWithin
<1>2. /\ DOMAIN a = 1 .. Len(s) + 1
      /\ \A i \in DOMAIN s : a[i] = s[i]
      /\ a[Len(s) + 1] = e
  BY AppendAt
<1> HIDE DEF a
<1>3. \A i \in DOMAIN a : i \in DOMAIN s \/ i = Len(s) + 1
  BY <1>1, <1>2
<1>4. OneCal(a)
  BY <1>2, <1>3 DEF OneCal, HasCal
<1>5. HasCal(a) => HasCal(s) \/ e.t = "VCAL"
  BY <1>2, <1>3 DEF HasCal
<1> QED
  BY <1>4, <1>5 DEF a

LEMMA OutputSelects ==
  ASSUME NEW k, IsList(list)
  PROVE  /\ IsList(Output(k)) /\ ToSet(Output(k)) = {o \in ToSet(list) : Dest(o) = k}
         /\ OneCal(list) => OneCal(Output(k))
<1> DEFINE L == Len(list)
<1>0. L \in Nat /\ DOMAIN list = 1 .. L
  BY ListWithin
<1>1. PICK sel : /\ Output(k) = sel[L] /\ sel[0] = <<>>
                 /\ \A n \in Nat : n + 1 <= L =>
                      sel[n + 1] = IF Dest(list[n + 1]) = k
                                   THEN Append(sel[n], list[n + 1]) ELSE sel[n]
  BY OutputSteps
<1> DEFINE Good(n) == /\ IsList(sel[n])
                      /\ ToSet(sel[n]) = {o \in {list[i] : i \in 1 .. n} : Dest(o) = k}
                      /\ OneCal(list) => OneCal(sel[n])
           T == {n \in Nat : n <= L => Good(n)}
<1>5. 0 \in T
  <2>1. DOMAIN <<>> = {}
    OBVIOUS
  <2>2. ToSet(<<>>) = {} /\ OneCal(<<>>)
    BY <2>1 DEF ToSet, OneCal
  <2> QED
    BY <1>1, <2>2, ListOfOne
<1>6. ASSUME NEW n \in Nat, n \in T PROVE n + 1 \in T
  <2> SUFFICES ASSUME n + 1 <= L PROVE Good(n + 1)
    OBVIOUS
  <2>1. Good(n)
    BY <1>0, <1>6
  <2>2. {list[i] : i \in 1 .. n + 1} = {list[i] : i \in 1 .. n} \cup {list[n + 1]}
    <3>1. 1 .. n + 1 = (1 .. n) \cup {n + 1}
      OBVIOUS
    <3> QED
      BY <3>1
  <2>3. sel[n + 1] = IF Dest(list[n + 1]) = k THEN Append(sel[n], list[n + 1]) ELSE sel[n]
    BY <1>1
  <2>4. /\ IsList(Append(sel[n], list[n + 1]))
        /\ ToSet(Append(sel[n], list[n + 1])) = ToSet(sel[n]) \cup {list[n + 1]}
    BY <2>1, ListAppend
  <2>5. ASSUME OneCal(list), list[n + 1].t = "VCAL" PROVE ~HasCal(sel[n])
    <3> SUFFICES ASSUME NEW i \in DOMAIN sel[n], sel[n][i].t = "VCAL" PROVE FALSE
      BY DEF HasCal
    <3>1. sel[n][i] \in ToSet(sel[n])
      BY DEF ToSet
    <3>2. PICK j \in 1 .. n : sel[n][i] = list[j]
      BY <2>1, <3>1
    <3>3. j \in DOMAIN list /\ n + 1 \in DOMAIN list /\ j # n + 1
      BY <1>0
    <3> QED
      BY <2>5, <3>2, <3>3 DEF OneCal
  <2>6. CASE Dest(list[n + 1]) = k
    <3>1. sel[n + 1] = Append(sel[n], list[n + 1])
      BY <2>3, <2>6
    <3>2. OneCal(list) => OneCal(sel[n + 1])
      BY <2>1, <2>5, <3>1, AppendCal
    <3>3. ToSet(sel[n + 1]) = {o \in {list[i] : i \in 1 .. n + 1} : Dest(o) = k}
      BY <2>1, <2>2, <2>4, <2>6, <3>1
    <3> QED
      BY <2>4, <3>1, <3>2, <3>3
  <2>7. CASE Dest(list[n + 1]) # k
    <3>1. sel[n + 1] = sel[n]
      BY <2>3, <2>7
    <3>2. ToSet(sel[n + 1]) = {o \in {list[i] : i \in 1 .. n + 1} : Dest(o) = k}
      BY <2>1, <2>2, <2>7, <3>1
    <3> QED
      BY <2>1, <3>1, <3>2
  <2> QED
    BY <2>6, <2>7
<1>7. Nat \subseteq T
  <2> HIDE DEF T
  <2> QED
    BY <1>5, <1>6, Induction
<1>8. Good(L)
  BY <1>0, <1>7
<1>9. ToSet(list) = {list[i] : i \in 1 .. L}
  BY <1>0 DEF ToSet
<1>10. IsList(sel[L]) /\ (OneCal(list) => OneCal(sel[L]))
  BY <1>8
<1>11. ToSet(sel[L]) = {o \in ToSet(list) : Dest(o) = k}
  BY <1>8, <1>9
<1>12. Output(k) = sel[L]
  BY <1>1
<1> HIDE DEF L, T, Good
<1> QED
  BY <1>10, <1>11, <1>12
-----------------------------------------------------------------------------
(* The files are worked on one by one.                                     *)
FilesInv ==
  /\ main = [k \in Kinds |-> main[k]] /\ back = [k \in Kinds |-> back[k]]
  /\ \A k \in Kinds : ~main[k].there => main[k] = Absent
  /\ given \subseteq Kinds /\ given # {} /\ (fmt # "vca" => given = {"addr"})
  /\ opened \subseteq given
  /\ pc \in {"idle", "open", "backup", "write"}
  /\ pc = "backup" => todo \subseteq given /\ todo # {}
  /\ pc = "write" \/ (pc = "open" /\ fmt = "txt") => todo = {}

(* The files and the list are sequences of objects.                        *)
ListsInv == IsList(list) /\ \A k \in Kinds : IsList(main[k].objs)

(* The files whose backup is to be relied on: those renamed, or found not  *)
(* to be there.  Until then it is the file itself.                         *)
Renamed ==
  CASE pc = "backup" /\ step = "open" -> given \ (todo \ {Current})
    [] pc = "backup" /\ step # "open" -> given \ todo
    [] pc = "write" \/ (pc = "open" /\ fmt = "txt") -> given
    [] OTHER -> {}
Held(f) == Recs(Readable(f))
Copy(k) == Held(IF k \in Renamed THEN back[k] ELSE main[k])

CopyInv ==
  IF pc = "idle" THEN LastCopy ELSE kept \subseteq UNION {Copy(k) : k \in Kinds}

-----------------------------------------------------------------------------
LEMMA NothingHeld == Held(Absent) = {}
  BY DEF Held, Readable, Absent, Recs, ToSet

LEMMA FilesThere ==
  /\ \A os, w : File(os, w).there
  /\ \A os, n, w : Cut(os, n, w).there
  BY DEF Cut, File

LEMMA CurrentGiven == ASSUME todo \subseteq Kinds, todo # {} PROVE Current \in todo
  BY DEF Current, Kinds

(* What is in the copies is in the files or their backups.                 *)
LEMMA CopiesOnDisk == UNION {Copy(k) : k \in Kinds} \subseteq FileRecs(main) \cup FileRecs(back)
  BY DEF Copy, Held, FileRecs

LEMMA CopiesLast == CopyInv => LastCopy
  BY CopiesOnDisk DEF CopyInv, LastCopy

(* No step takes a record from a copy.                                     *)
LEMMA CopiesStay ==
  ASSUME CopyInv, pc # "idle", UNCHANGED kept, \A k \in Kinds : Copy(k) \subseteq Copy(k)'
  PROVE  CopyInv'
<1>1. kept' \subseteq UNION {Copy(k)' : k \in Kinds}
  BY DEF CopyInv
<1>2. (UNION {Copy(k) : k \in Kinds})' \subseteq (FileRecs(main) \cup FileRecs(back))'
  BY DEF Copy, Held, FileRecs
<1> QED
  BY <1>1, <1>2 DEF CopyInv, LastCopy

LEMMA FilesSame ==
  ASSUME CopyInv, UNCHANGED <<main, back, kept>>, pc # "idle",
         pc' = "idle" \/ Renamed' = Renamed
  PROVE  CopyInv'
<1>1. CASE pc' = "idle"
  BY <1>1, CopiesLast DEF CopyInv, LastCopy, FileRecs
<1>2. CASE Renamed' = Renamed
  BY <1>2, CopiesStay DEF Copy
<1> QED
  BY <1>1, <1>2

-----------------------------------------------------------------------------
LEMMA FilesInit == Init => FilesInv /\ CopyInv
<1> SUFFICES ASSUME Init PROVE FilesInv /\ CopyInv
  OBVIOUS
<1>1. given \subseteq Kinds /\ given # {}
  BY GivenAssumption DEF Init
<1>2. main = [k \in Kinds |-> main[k]] /\ \A k \in Kinds : ~main[k].there => main[k] = Absent
  BY FoundAssumption DEF Init
<1>3. back = [k \in Kinds |-> back[k]]
  <2>1. back = [k \in Kinds |-> Absent]
    BY DEF Init
  <2> QED
    BY <2>1
<1> QED
  BY <1>1, <1>2, <1>3 DEF Init, FilesInv, CopyInv, LastCopy

LEMMA WrittenOut ==
  ASSUME Write, NEW k \in Kinds
  PROVE  main'[k] = IF k \in opened THEN File(Output(k), TRUE) ELSE main[k]
  BY Zenon DEF Write

(* A record is put, or the program crashes.                                *)
LEMMA PutOrCrash ==
  ASSUME Put
  PROVE  /\ pc = "open" /\ pc' \in {"open", "idle"}
         /\ UNCHANGED <<fmt, given, main, back, todo, step, opened, failed, runs, faults, pim,
                        kept, saved>>
<1>1. /\ pc = "open"
      /\ UNCHANGED <<fmt, given, main, back, todo, step, opened, failed, runs, faults, pim,
                     kept, saved>>
  BY Zenon DEF Put
<1>2. PICK r : BinAdd(r) \/ AddEvent(r) \/ UNCHANGED pc
  BY DEF Put
<1>3. pc' = pc \/ pc' \in {pc, "idle"}
  BY <1>2, Zenon DEF BinAdd, AddEvent
<1> QED
  BY <1>1, <1>3

LEMMA FilesStep == ASSUME FilesInv, [Next]_pvars PROVE FilesInv'
<1> USE DEF FilesInv
<1>0. todo # {} /\ todo \subseteq Kinds => Current \in todo
  BY CurrentGiven
<1>1. CASE UNCHANGED pvars
  BY <1>1 DEF pvars
<1>2. CASE Open \/ OpenError \/ Put \/ Delete
  BY <1>2, PutOrCrash DEF Open, OpenError, Delete
<1>3. CASE OpenTxt \/ Close
  BY <1>3 DEF OpenTxt, Close, ToBackup
<1>4. CASE RemoveOld
  BY <1>4 DEF RemoveOld, Backup
<1>5. CASE Rename
  <2>1. \A k \in Kinds : main'[k] \in {main[k], Absent}
    BY <1>5 DEF Rename
  <2>2. main' = [k \in Kinds |-> main'[k]] /\ back' = [k \in Kinds |-> back'[k]]
    BY <1>5 DEF Rename
  <2> QED
    BY <1>5, <2>1, <2>2 DEF Rename, Backup
<1>6. CASE OpenWrite
  <2>1. \A k \in Kinds : main'[k] \in {main[k], File(<<>>, TRUE)}
    BY <1>6 DEF OpenWrite
  <2>2. main' = [k \in Kinds |-> main'[k]]
    BY <1>6 DEF OpenWrite
  <2>3. pc = "backup" /\ opened' \subseteq given /\ UNCHANGED <<fmt, given, back>>
    BY <1>0, <1>6 DEF OpenWrite, Backup
  <2>4. /\ todo' \subseteq given /\ (pc' = "backup" => todo' # {})
        /\ pc' # "backup" => todo' = {}
        /\ pc' \in {"backup", "open", "write"}
    BY <1>0, <1>6, <2>3 DEF OpenWrite, AfterBackup
  <2>5. \A k \in Kinds : ~main'[k].there => main'[k] = Absent
    BY <2>1 DEF File
  <2> QED
    BY <2>2, <2>3, <2>4, <2>5
<1>7. CASE OpenFails
  <2>1. pc = "backup" /\ UNCHANGED <<fmt, given, main, back, opened>>
    BY <1>7 DEF OpenFails, Backup
  <2>2. /\ todo' \subseteq given /\ (pc' = "backup" => todo' # {})
        /\ pc' \in {"open", "write"} => todo' = {}
        /\ pc' \in {"idle", "backup", "open", "write"}
    BY <1>0, <1>7, <2>1 DEF OpenFails, AfterBackup
  <2> QED
    BY <2>1, <2>2
<1>8. CASE Write
  <2>1. \A k \in Kinds : main'[k] = main[k] \/ main'[k].there
    <3>1. ASSUME NEW k \in Kinds PROVE main'[k] = main[k] \/ main'[k].there
      <4>1. main'[k] = IF k \in opened THEN File(Output(k), TRUE) ELSE main[k]
        BY <1>8, WrittenOut
      <4> QED
        BY <4>1 DEF File
    <3> QED
      BY <3>1
  <2>2. main' = [k \in Kinds |-> main'[k]]
    BY <1>8, Zenon DEF Write
  <2>3. \A k \in Kinds : ~main'[k].there => main'[k] = Absent
    BY <2>1
  <2> QED
    BY <1>8, <2>2, <2>3 DEF Write
<1>9. CASE WriteCut
  <2>1. PICK n \in [opened -> 0 .. Len(list)], whole \in BOOLEAN :
          main' = [k \in Kinds |->
                    IF k \in opened THEN Cut(Output(k), n[k], whole) ELSE main[k]]
    BY <1>9 DEF WriteCut
  <2>2. \A k \in Kinds : main'[k] = main[k] \/ main'[k] = Cut(Output(k), n[k], whole)
    BY <2>1
  <2>3. main' = [k \in Kinds |-> main'[k]]
    BY <2>1, Zenon
  <2>4. \A k \in Kinds : ~main'[k].there => main'[k] = Absent
    BY <2>2, FilesThere
  <2> QED
    BY <1>9, <2>3, <2>4 DEF WriteCut
<1>10. CASE Killed
  BY <1>10 DEF Killed
<1>11. CASE PimWrites
  <2>1. PICK os : main' = [main EXCEPT !["addr"] = File(os, TRUE)]
    BY <1>11 DEF PimWrites
  <2>2. \A k \in Kinds : main'[k] = main[k] \/ main'[k] = File(os, TRUE)
    BY <2>1
  <2>3. main' = [k \in Kinds |-> main'[k]]
    BY <2>1
  <2>4. \A k \in Kinds : ~main'[k].there => main'[k] = Absent
    BY <2>2 DEF File
  <2> QED
    BY <1>11, <2>3, <2>4 DEF PimWrites
<1> QED
  BY <1>1, <1>2, <1>3, <1>4, <1>5, <1>6, <1>7, <1>8, <1>9, <1>10, <1>11 DEF Next

-----------------------------------------------------------------------------
LEMMA ListsInit == Init => ListsInv
<1> SUFFICES ASSUME Init PROVE ListsInv
  OBVIOUS
<1>1. \A k \in Kinds : IsList(main[k].objs)
  BY FoundAssumption DEF Init, IsList
<1> QED
  BY <1>1, ListOfOne DEF Init, ListsInv

LEMMA ListOpened ==
  ASSUME ListsInv
  PROVE  IsList(ListOf(Named(main)))
<1>1. \A k \in Kinds : IsList(Named(main)[k].objs)
  <2>1. IsList(Absent.objs)
    BY ListOfOne DEF Absent
  <2>2. \A k \in Kinds : Named(main)[k] \in {main[k], Absent}
    BY DEF Named
  <2> QED
    BY <2>1, <2>2 DEF ListsInv
<1> DEFINE fs == Named(main)
<1> HIDE DEF fs
<1>2. \A k \in Kinds : IsList(fs[k].objs)
  BY <1>1 DEF fs
<1>3. "addr" \in Kinds /\ "vcal" \in Kinds /\ "memo" \in Kinds
  BY DEF Kinds
<1>4. IsList(FirstOf(fs["vcal"].objs))
  BY ListOfOne DEF FirstOf
<1>5. IsList(VcaList(fs))
  BY <1>2, <1>3, <1>4, ListConcat DEF VcaList
<1>6. IsList(Readable(fs["addr"]))
  BY <1>2, <1>3, ListFront DEF Readable
<1> QED
  BY <1>5, <1>6 DEF ListOf, fs

LEMMA ListPlaces ==
  ASSUME NEW I, NEW n \in Nat, I \subseteq 1 .. n, I # {} PROVE Max(I) \in I
<1> DEFINE T == {n - i : i \in I}
<1>0. \A i \in I : i \in 1 .. n
  OBVIOUS
<1>1. T \subseteq Nat /\ T # {}
  <2>1. \A i \in I : n - i \in Nat
    BY <1>0
  <2> QED
    BY <2>1
<1>2. PICK x \in T : \A y \in T : x <= y
  BY <1>1, LeastNat
<1>3. PICK i \in I : x = n - i
  OBVIOUS
<1>4. ASSUME NEW j \in I PROVE i >= j
  <2>1. n - j \in T
    OBVIOUS
  <2> HIDE DEF T
  <2>2. n - i <= n - j
    BY <1>2, <1>3, <2>1
  <2> QED
    BY <1>0, <2>2
<1> QED
  BY <1>4 DEF Max

LEMMA ListPut ==
  ASSUME ListsInv, Put PROVE IsList(list')
<1>0. IsList(list)
  BY DEF ListsInv
<1>1. ASSUME NEW r, BinAdd(r) PROVE IsList(list')
  <2>1. Len(list) \in Nat
    BY <1>0, ListWithin
  <2>2. SelectLastInSeq(list, LAMBDA o : o.t = r.t) \in Int
    <3> DEFINE I == {i \in 1 .. Len(list) : list[i].t = r.t}
    <3>1. SelectLastInSeq(list, LAMBDA o : o.t = r.t) = IF I # {} THEN Max(I) ELSE 0
      BY DEF SelectLastInSeq
    <3>2. I # {} => Max(I) \in I
      BY <2>1, ListPlaces
    <3> QED
      BY <3>1, <3>2
  <2> DEFINE i == SelectLastInSeq(list, LAMBDA o : o.t = r.t)
  <2>3. list' = InsertAt(list, IF i = 0 THEN Len(list) + 1 ELSE i + 1, r)
    BY <1>1 DEF BinAdd
  <2> HIDE DEF i
  <2>4. i \in Int
    BY <2>2 DEF i
  <2> QED
    BY <1>0, <2>1, <2>3, <2>4, ListInsert
<1>2. ASSUME NEW r, AddEvent(r) PROVE IsList(list')
  <2>1. CASE list' = Append(list, Calendar(<<r>>))
    BY <1>0, <2>1, ListAppend
  <2>2. ASSUME NEW i, list' = [list EXCEPT ![i].items = Append(@, r)] PROVE IsList(list')
    <3>1. PICK e : list' = [list EXCEPT ![i] = e]
      BY <2>2
    <3> QED
      BY <1>0, <3>1, ListExcept
  <2> QED
    BY <1>0, <1>2, <2>1, <2>2, Zenon DEF AddEvent
<1>3. ASSUME NEW r, list' = Append(list, r) PROVE IsList(list')
  BY <1>0, <1>3, ListAppend
<1>4. PICK r : BinAdd(r) \/ AddEvent(r) \/ list' = Append(list, r)
  BY DEF Put
<1> QED
  BY <1>1, <1>2, <1>3, <1>4

LEMMA ListDelete ==
  ASSUME ListsInv, Delete PROVE IsList(list')
<1>0. IsList(list)
  BY DEF ListsInv
<1>1. CASE \E i \in DOMAIN list : list' = RemoveAt(list, i)
  BY <1>0, <1>1, ListRemove
<1>2. CASE \E i \in DOMAIN list[vcal].items :
             list' = [list EXCEPT ![vcal].items = DelList(@, i)]
  <2>1. PICK e : list' = [list EXCEPT ![vcal] = e]
    BY <1>2
  <2> QED
    BY <1>0, <2>1, ListExcept
<1> QED
  BY <1>1, <1>2 DEF Delete

(* The files are written one object after the other.                       *)
LEMMA ListWritten ==
  ASSUME FilesInv, ListsInv, Write \/ WriteCut, NEW k \in Kinds
  PROVE  IsList(main'[k].objs)
<1>0. IsList(Output(k))
  BY OutputSelects DEF ListsInv
<1>1. CASE Write
  <2>1. main'[k] = IF k \in opened THEN File(Output(k), TRUE) ELSE main[k]
    BY <1>1, WrittenOut
  <2>2. CASE k \in opened
    BY <1>0, <2>1, <2>2 DEF File
  <2>3. CASE k \notin opened
    BY <2>1, <2>3 DEF ListsInv
  <2> QED
    BY <2>2, <2>3
<1>2. CASE WriteCut
  <2>1. PICK n \in [opened -> 0 .. Len(list)], whole \in BOOLEAN :
          main' = [j \in Kinds |->
                    IF j \in opened THEN Cut(Output(j), n[j], whole) ELSE main[j]]
    BY <1>2 DEF WriteCut
  <2>2. main'[k] = IF k \in opened THEN Cut(Output(k), n[k], whole) ELSE main[k]
    BY <2>1, Zenon
  <2>3. CASE k \in opened
    <3>1. n[k] \in Int
      BY <2>3
    <3>2. IsList(SubSeq(Output(k), 1, n[k]))
      BY <3>1, ListPart
    <3> QED
      BY <2>2, <2>3, <3>2 DEF Cut, File
  <2>4. CASE k \notin opened
    BY <2>2, <2>4 DEF ListsInv
  <2> QED
    BY <2>3, <2>4
<1> QED
  BY <1>1, <1>2

LEMMA ListsStep == ASSUME FilesInv, ListsInv, [Next]_pvars PROVE ListsInv'
<1> USE DEF ListsInv
<1>0. IsList(<<>>) /\ IsList(Absent.objs)
  BY ListOfOne DEF Absent
<1>1. CASE UNCHANGED pvars
  BY <1>1 DEF pvars
<1>2. CASE Open \/ OpenError \/ OpenTxt \/ Put \/ Delete
  <2>1. UNCHANGED main
    BY <1>2 DEF Open, OpenError, OpenTxt, Put, Delete
  <2>2. IsList(list')
    BY <1>0, <1>2, ListOpened, ListPut, ListDelete DEF Open, OpenError, OpenTxt
  <2> QED
    BY <2>1, <2>2
<1>3. CASE Close \/ RemoveOld \/ OpenFails \/ Killed
  BY <1>3 DEF Close, RemoveOld, OpenFails, Killed, Backup
<1>4. CASE Rename
  <2>1. \A k \in Kinds : main'[k] \in {main[k], Absent}
    BY <1>4 DEF Rename, FilesInv
  <2>2. UNCHANGED list
    BY <1>4 DEF Rename, Backup
  <2> QED
    BY <1>0, <2>1, <2>2
<1>5. CASE OpenWrite
  <2>1. \A k \in Kinds : main'[k] \in {main[k], File(<<>>, TRUE)}
    BY <1>5 DEF OpenWrite, FilesInv
  <2>2. UNCHANGED list
    BY <1>5 DEF OpenWrite, Backup
  <2>3. IsList(File(<<>>, TRUE).objs)
    BY <1>0 DEF File
  <2> QED
    BY <2>1, <2>2, <2>3
<1>6. CASE Write \/ WriteCut
  <2>1. UNCHANGED list
    BY <1>6 DEF Write, WriteCut
  <2> QED
    BY <1>6, <2>1, ListWritten
<1>7. CASE PimWrites
  <2> DEFINE os == main["addr"].objs
  <2>0. IsList(os)
    BY DEF Kinds
  <2>1. \/ \E r : main' = [main EXCEPT !["addr"] = File(Append(os, r), TRUE)]
        \/ \E i \in DOMAIN os : main' = [main EXCEPT !["addr"] = File(RemoveAt(os, i), TRUE)]
    BY <1>7 DEF PimWrites
  <2>2. PICK new : IsList(new) /\ main' = [main EXCEPT !["addr"] = File(new, TRUE)]
    BY <2>0, <2>1, ListAppend, ListRemove
  <2>3. \A k \in Kinds : main'[k] = main[k] \/ main'[k] = File(new, TRUE)
    BY <2>2 DEF FilesInv
  <2>4. UNCHANGED list
    BY <1>7 DEF PimWrites
  <2>5. File(new, TRUE).objs = new
    BY DEF File
  <2> QED
    BY <2>2, <2>3, <2>4, <2>5
<1> QED
  BY <1>1, <1>2, <1>3, <1>4, <1>5, <1>6, <1>7 DEF Next

-----------------------------------------------------------------------------
(* A PIM program changes one record of the address file.                   *)
LEMMA ProgramChanges ==
  ASSUME FilesInv, ListsInv, PimWrites
  PROVE  /\ pc \in {"idle", "open"} /\ fmt = "vca" /\ UNCHANGED <<back, pc, fmt>>
         /\ \A k \in Kinds \ {"addr"} : main'[k] = main[k]
         /\ kept' \subseteq kept \cup Held(main'["addr"])
         /\ kept' \cap Held(main["addr"]) \subseteq Held(main'["addr"])
<1> DEFINE os == main["addr"].objs
<1>0. IsList(os)
  BY DEF ListsInv, Kinds
<1>1. pc \in {"idle", "open"} /\ fmt = "vca" /\ UNCHANGED <<back, pc, fmt>>
  BY DEF PimWrites
<1>2. Held(main["addr"]) = Recs(os)
  BY DEF PimWrites, Held, Readable
<1>3. ASSUME NEW new, main' = [main EXCEPT !["addr"] = File(new, TRUE)]
      PROVE  /\ \A k \in Kinds \ {"addr"} : main'[k] = main[k]
             /\ Held(main'["addr"]) = Recs(new)
  <2>1. main'["addr"] = File(new, TRUE) /\ \A k \in Kinds \ {"addr"} : main'[k] = main[k]
    BY <1>3 DEF FilesInv, Kinds
  <2> QED
    BY <2>1 DEF Held, Readable, File
<1>4. CASE \E r \in NewRecs : /\ r.t = "VCARD" /\ kept' = kept \cup {r}
             /\ main' = [main EXCEPT !["addr"] = File(Append(os, r), TRUE)]
  <2> PICK r \in NewRecs : /\ r.t = "VCARD" /\ kept' = kept \cup {r}
             /\ main' = [main EXCEPT !["addr"] = File(Append(os, r), TRUE)]
    BY <1>4
  <2>0. ToSet(Append(os, r)) = ToSet(os) \cup {r}
    BY <1>0, ListAppend
  <2>1. Recs(os) \cup {r} \subseteq Recs(Append(os, r))
    BY <2>0 DEF Recs
  <2> QED
    BY <1>1, <1>2, <1>3, <2>1
<1>5. CASE \E i \in DOMAIN os : /\ os[i].t = "VCARD" /\ kept' = kept \ Recs(<<os[i]>>)
             /\ main' = [main EXCEPT !["addr"] = File(RemoveAt(os, i), TRUE)]
  <2> PICK i \in DOMAIN os : /\ os[i].t = "VCARD" /\ kept' = kept \ Recs(<<os[i]>>)
             /\ main' = [main EXCEPT !["addr"] = File(RemoveAt(os, i), TRUE)]
    BY <1>5
  <2>0. ToSet(os) \ {os[i]} \subseteq ToSet(RemoveAt(os, i))
    BY <1>0, ListRemove
  <2> DEFINE In(o) == (IF o.t # "VCAL" THEN {o} ELSE {}) \cup ToSet(o.items)
  <2>1. Recs(os) \ Recs(<<os[i]>>) \subseteq Recs(RemoveAt(os, i))
    <3>1. \A r \in Recs(os) : \E o \in ToSet(os) : r \in In(o)
      BY DEF Recs
    <3>2. \A o \in ToSet(RemoveAt(os, i)) : In(o) \subseteq Recs(RemoveAt(os, i))
      BY DEF Recs
    <3>3. In(os[i]) \subseteq Recs(<<os[i]>>)
      <4>1. ToSet(<<os[i]>>) = {os[i]}
        BY DEF ToSet
      <4> QED
        BY <4>1 DEF Recs
    <3> HIDE DEF In
    <3> QED
      BY <2>0, <3>1, <3>2, <3>3
  <2> QED
    BY <1>1, <1>2, <1>3, <2>1
<1> QED
  BY <1>4, <1>5 DEF PimWrites

LEMMA CopyStep == ASSUME FilesInv, ListsInv, CopyInv, [Next]_pvars PROVE CopyInv'
<1>0. pc = "backup" => Current \in todo /\ Current \in Kinds /\ todo \subseteq given
  BY CurrentGiven DEF FilesInv
<1>1. CASE UNCHANGED pvars
  <2>1. Renamed' = Renamed
    BY <1>1 DEF pvars, Renamed, Current
  <2> QED
    BY <1>1, <2>1, FilesSame DEF pvars, CopyInv, LastCopy, FileRecs
<1>2. CASE Open
  <2>1. pc' = "open" /\ fmt # "txt" /\ UNCHANGED <<fmt, main>> /\ kept' = FileRecs(Named(main))
    BY <1>2 DEF Open
  <2>2. \A k \in Kinds : Copy(k)' = Held(main[k])
    BY <2>1 DEF Copy, Renamed
  <2>3. \A k \in Kinds : Held(Named(main)[k]) \subseteq Held(main[k])
    BY NothingHeld DEF Named
  <2> QED
    BY <2>1, <2>2, <2>3 DEF CopyInv, FileRecs, Held
<1>3. CASE OpenError
  BY <1>3 DEF OpenError, CopyInv, LastCopy, FileRecs
<1>4. CASE OpenTxt
  <2>1. /\ pc' = "backup" /\ step' = "remove" /\ todo' = {"addr"} /\ given = {"addr"}
        /\ kept' = FileRecs(Named(main)) /\ UNCHANGED <<main, given>>
    BY <1>4 DEF OpenTxt, ToBackup, FilesInv
  <2>2. \A k \in Kinds : Copy(k)' = Held(main[k])
    BY <2>1 DEF Copy, Renamed
  <2>3. \A k \in Kinds : Held(Named(main)[k]) \subseteq Held(main[k])
    BY NothingHeld DEF Named
  <2> QED
    BY <2>1, <2>2, <2>3 DEF CopyInv, FileRecs, Held
<1>5. CASE Put \/ Delete
  <2>1. /\ pc = "open" /\ pc' \in {"open", "idle"}
        /\ UNCHANGED <<fmt, given, main, back, kept, todo, step>>
    BY <1>5, PutOrCrash DEF Delete
  <2> QED
    BY <2>1, FilesSame DEF Renamed, Current
<1>6. CASE Close
  <2>1. pc = "open" /\ UNCHANGED <<fmt, given, main, back, kept>>
    BY <1>6 DEF Close
  <2>2. Renamed' = Renamed
    BY <1>6, <2>1 DEF Close, ToBackup, FilesInv, Renamed
  <2> QED
    BY <2>1, <2>2, FilesSame
<1>7. CASE RemoveOld
  <2>1. /\ pc = "backup" /\ step = "remove" /\ step' = "rename"
        /\ UNCHANGED <<pc, main, given, todo, kept>>
        /\ \A k \in Kinds \ {Current} : back'[k] = back[k]
    BY <1>7 DEF RemoveOld, Backup, FilesInv
  <2>2. Renamed' = Renamed /\ Current \notin Renamed
    BY <1>0, <2>1 DEF Renamed
  <2> QED
    BY <2>1, <2>2, CopiesStay DEF Copy
<1>8. CASE Rename
  <2>1. /\ pc = "backup" /\ step = "rename" /\ step' = "open"
        /\ UNCHANGED <<pc, given, todo, kept>>
        /\ \A k \in Kinds \ {Current} : back'[k] = back[k] /\ main'[k] = main[k]
        /\ back'[Current] = main[Current] \/ main[Current] = Absent
    BY <1>0, <1>8 DEF Rename, Backup, FilesInv
  <2>2. Renamed' = Renamed \cup {Current} /\ Current \notin Renamed
    BY <1>0, <2>1 DEF Renamed, Current
  <2>3. Held(main[Current]) \subseteq Held(back'[Current])
    BY <2>1, NothingHeld
  <2> QED
    BY <2>1, <2>2, <2>3, CopiesStay DEF Copy
<1>9. CASE OpenWrite
  <2>1. /\ pc = "backup" /\ step = "open" /\ step' = "remove"
        /\ todo' = todo \ {Current} /\ pc' = AfterBackup
        /\ UNCHANGED <<given, back, kept, fmt>>
        /\ \A k \in Kinds \ {Current} : main'[k] = main[k]
    BY <1>9 DEF OpenWrite, Backup, FilesInv
  <2>2. Renamed' = Renamed /\ Current \in Renamed
    BY <1>0, <2>1 DEF Renamed, AfterBackup
  <2> QED
    BY <2>1, <2>2, CopiesStay DEF Copy
<1>10. CASE OpenFails
  <2>1. /\ pc = "backup" /\ step = "open" /\ step' = "remove"
        /\ todo' = todo \ {Current} /\ pc' \in {"idle", AfterBackup}
        /\ UNCHANGED <<given, main, back, kept, fmt>>
    BY <1>10 DEF OpenFails, Backup
  <2>2. pc' = "idle" \/ Renamed' = Renamed
    BY <1>0, <2>1 DEF Renamed, AfterBackup
  <2> QED
    BY <2>1, <2>2, FilesSame
<1>11. CASE Write \/ WriteCut
  <2>1. /\ pc = "write" \/ (pc = "open" /\ fmt = "txt")
        /\ pc' = "idle" /\ pc # "idle" /\ UNCHANGED <<back, kept>>
    BY <1>11 DEF Write, WriteCut
  <2>2. \A k \in Kinds \ given : main'[k] = main[k]
    BY <1>11 DEF Write, WriteCut, FilesInv
  <2>3. Renamed = given
    BY <2>1 DEF Renamed
  <2>4. \A k \in Kinds : Copy(k) \subseteq (FileRecs(main) \cup FileRecs(back))'
    BY <2>1, <2>2, <2>3 DEF Copy, Held, FileRecs
  <2> QED
    BY <2>1, <2>4 DEF CopyInv, LastCopy
<1>12. CASE Killed
  BY <1>12, FilesSame DEF Killed
<1>13. CASE PimWrites
  <2> USE ProgramChanges
  <2>0. ASSUME NEW r \in kept', NEW k \in Kinds, r \in kept, r \in Held(main[k])
        PROVE  r \in Held(main'[k])
    BY <1>13, <2>0
  <2>1. CASE pc = "idle"
    <3>1. ASSUME NEW r \in kept' PROVE r \in FileRecs(main)' \cup FileRecs(back)'
      <4>1. CASE r \in Held(main'["addr"])
        BY <4>1 DEF FileRecs, Held, Kinds
      <4>2. CASE r \in kept /\ \E k \in Kinds : r \in Held(main[k])
        BY <2>0, <3>1, <4>2 DEF FileRecs, Held
      <4>3. CASE \E k \in Kinds : r \in Held(back[k])
        BY <1>13, <4>3 DEF FileRecs, Held
      <4>4. r \in Held(main'["addr"]) \/ r \in kept
        BY <1>13, <3>1
      <4>5. r \in kept => \E k \in Kinds : r \in Held(main[k]) \/ r \in Held(back[k])
        BY <2>1 DEF CopyInv, LastCopy, FileRecs, Held
      <4> QED
        BY <4>1, <4>2, <4>3, <4>4, <4>5
    <3>2. pc' = "idle"
      BY <1>13, <2>1
    <3> QED
      BY <3>1, <3>2 DEF CopyInv, LastCopy
  <2>2. CASE pc = "open"
    <3>1. /\ pc' = "open" /\ \A k \in Kinds : Copy(k) = Held(main[k])
          /\ \A k \in Kinds : Copy(k)' = Held(main'[k])
      BY <1>13, <2>2 DEF Renamed, Copy
    <3>2. ASSUME NEW r \in kept' PROVE \E k \in Kinds : r \in Copy(k)'
      <4>1. CASE r \in Held(main'["addr"])
        BY <3>1, <4>1 DEF Kinds
      <4>2. CASE r \in kept
        BY <2>0, <2>2, <3>1, <3>2, <4>2 DEF CopyInv
      <4> QED
        BY <1>13, <3>2, <4>1, <4>2
    <3> QED
      BY <3>1, <3>2 DEF CopyInv
  <2> QED
    BY <1>13, <2>1, <2>2
<1> QED
  BY <1>1, <1>2, <1>3, <1>4, <1>5, <1>6, <1>7, <1>8, <1>9, <1>10, <1>11, <1>12, <1>13
  DEF Next

(* ic35sync never has the last copy of a record: what it found in the PIM  *)
(* files, and what a PIM program wrote to the address file meanwhile, is   *)
(* in the files or their backups until the next run starts, for any files, *)
(* records and number of runs and failures (backup_and_openwr, vca_close,  *)
(* bin_close, txt_open).                                                   *)
THEOREM NoLastCopyLost == Spec => []LastCopy
<1>1. FilesInv /\ ListsInv /\ CopyInv /\ [Next]_pvars => FilesInv' /\ ListsInv' /\ CopyInv'
  BY FilesStep, ListsStep, CopyStep
<1> QED
  BY <1>1, FilesInit, ListsInit, CopiesLast, PTL DEF Spec

-----------------------------------------------------------------------------
(* What a run writes the next one reads.  Whether it does depends on the   *)
(* calendars: there is at most one in all files and one in memory, vcal    *)
(* points to it, and nothing follows it in the calendar file.              *)

LEMMA ConcatAt ==
  ASSUME NEW s, NEW t, IsList(s), IsList(t)
  PROVE  /\ DOMAIN (s \o t) = 1 .. Len(s) + Len(t)
         /\ \A i \in DOMAIN s : (s \o t)[i] = s[i]
         /\ \A i \in DOMAIN t : (s \o t)[Len(s) + i] = t[i]
<1> PICK S : s \in Seq(S) /\ t \in Seq(S)
  BY Together
<1> DEFINE u == s \o t
<1>1. u \in Seq(S) /\ Len(u) = Len(s) + Len(t)
  BY ConcatProperties
<1>2. \A i \in 1 .. Len(u) : u[i] = IF i <= Len(s) THEN s[i] ELSE t[i - Len(s)]
  BY ConcatProperties
<1>3. /\ DOMAIN s = 1 .. Len(s) /\ Len(s) \in Nat
      /\ DOMAIN t = 1 .. Len(t) /\ Len(t) \in Nat
  BY ListWithin
<1> HIDE DEF u
<1>4. DOMAIN u = 1 .. Len(s) + Len(t)
  BY <1>1, LenProperties
<1>5. \A i \in DOMAIN s : u[i] = s[i]
  BY <1>1, <1>2, <1>3, <1>4
<1>6. \A i \in DOMAIN t : u[Len(s) + i] = t[i]
  BY <1>1, <1>2, <1>3, <1>4
<1> QED
  BY <1>4, <1>5, <1>6 DEF u

LEMMA ConcatCal ==
  ASSUME NEW s, NEW t, IsList(s), IsList(t), OneCal(s), OneCal(t), ~(HasCal(s) /\ HasCal(t))
  PROVE  OneCal(s \o t) /\ (HasCal(s \o t) => HasCal(s) \/ HasCal(t))
<1> DEFINE u == s \o t
<1>1. /\ DOMAIN u = 1 .. Len(s) + Len(t)
      /\ \A i \in DOMAIN s : u[i] = s[i]
      /\ \A i \in DOMAIN t : u[Len(s) + i] = t[i]
  BY ConcatAt
<1>2. /\ DOMAIN s = 1 .. Len(s) /\ Len(s) \in Nat
      /\ DOMAIN t = 1 .. Len(t) /\ Len(t) \in Nat
  BY ListWithin
<1> HIDE DEF u
<1>3. \A i \in DOMAIN u : \/ i \in DOMAIN s /\ u[i] = s[i]
                          \/ i - Len(s) \in DOMAIN t /\ u[i] = t[i - Len(s)]
  <2>1. ASSUME NEW i \in DOMAIN u, ~(i \in DOMAIN s)
        PROVE  i - Len(s) \in DOMAIN t /\ u[i] = t[i - Len(s)]
    <3>1. i - Len(s) \in DOMAIN t /\ Len(s) + (i - Len(s)) = i
      BY <1>1, <1>2, <2>1
    <3>2. u[Len(s) + (i - Len(s))] = t[i - Len(s)]
      BY <1>1, <3>1
    <3> QED
      BY <3>1, <3>2
  <2> QED
    BY <1>1, <2>1
<1>4. ASSUME NEW i \in DOMAIN u, NEW j \in DOMAIN u, u[i].t = "VCAL", u[j].t = "VCAL"
      PROVE  i = j
  <2>1. CASE i \in DOMAIN s /\ j \in DOMAIN s
    BY <1>1, <1>4, <2>1 DEF OneCal
  <2>2. CASE i \notin DOMAIN s /\ j \notin DOMAIN s
    <3>1. i - Len(s) = j - Len(s)
      BY <1>3, <1>4, <2>2 DEF OneCal
    <3> QED
      BY <1>1, <1>2, <3>1
  <2>3. CASE i \in DOMAIN s /\ j \notin DOMAIN s
    BY <1>1, <1>3, <1>4, <2>3 DEF HasCal
  <2>4. CASE i \notin DOMAIN s /\ j \in DOMAIN s
    BY <1>1, <1>3, <1>4, <2>4 DEF HasCal
  <2> QED
    BY <2>1, <2>2, <2>3, <2>4
<1>5. HasCal(u) => HasCal(s) \/ HasCal(t)
  BY <1>3 DEF HasCal
<1> QED
  BY <1>4, <1>5 DEF OneCal, u

LEMMA PartAt ==
  ASSUME NEW s, IsList(s), NEW n \in Int, n <= Len(s)
  PROVE  /\ DOMAIN SubSeq(s, 1, n) = 1 .. n
         /\ \A i \in 1 .. n : SubSeq(s, 1, n)[i] = s[i]
<1>1. Len(s) \in Nat /\ DOMAIN s = 1 .. Len(s)
  BY ListWithin
<1> DEFINE S == ToSet(s)
           t == SubSeq(s, 1, n)
<1>2. \A i \in 1 .. n : s[i] \in S
  BY <1>1 DEF ToSet
<1>3. /\ t \in Seq(S) /\ Len(t) = IF 1 <= n THEN n - 1 + 1 ELSE 0
      /\ \A i \in 1 .. n - 1 + 1 : t[i] = s[1 + i - 1]
  <2> HIDE DEF S
  <2> QED
    BY <1>2, SubSeqProperties
<1>4. DOMAIN t = 1 .. Len(t)
  <2> HIDE DEF t, S
  <2> QED
    BY <1>3, LenProperties
<1> HIDE DEF t, S
<1>5. DOMAIN t = 1 .. n
  BY <1>3, <1>4
<1>6. \A i \in 1 .. n : t[i] = s[i]
  BY <1>3
<1> QED
  BY <1>5, <1>6 DEF t

LEMMA PartCal ==
  ASSUME NEW s, IsList(s), OneCal(s), NEW n \in Int, n <= Len(s)
  PROVE  OneCal(SubSeq(s, 1, n)) /\ ToSet(SubSeq(s, 1, n)) \subseteq ToSet(s)
<1>1. Len(s) \in Nat /\ DOMAIN s = 1 .. Len(s)
  BY ListWithin
<1> DEFINE t == SubSeq(s, 1, n)
<1>2. DOMAIN t = 1 .. n /\ \A i \in 1 .. n : t[i] = s[i]
  BY PartAt
<1> HIDE DEF t
<1>3. \A i \in DOMAIN t : i \in DOMAIN s /\ t[i] = s[i]
  BY <1>1, <1>2
<1>4. OneCal(t) /\ ToSet(t) \subseteq ToSet(s)
  BY <1>3 DEF OneCal, ToSet
<1> QED
  BY <1>4 DEF t

LEMMA RemoveAtIs ==
  ASSUME NEW s, IsList(s), NEW i \in DOMAIN s
  PROVE  /\ DOMAIN RemoveAt(s, i) = 1 .. Len(s) - 1
         /\ \A j \in 1 .. Len(s) - 1 : RemoveAt(s, i)[j] = s[IF j < i THEN j ELSE j + 1]
<1>1. Len(s) \in Nat /\ DOMAIN s = 1 .. Len(s)
  BY ListWithin
<1> DEFINE S == ToSet(s)
           a == SubSeq(s, 1, i - 1)
           b == SubSeq(s, i + 1, Len(s))
<1>2. \A j \in DOMAIN s : s[j] \in S
  BY DEF ToSet
<1>3. /\ IsList(a) /\ DOMAIN a = 1 .. i - 1
      /\ \A j \in 1 .. i - 1 : a[j] = s[j]
  BY <1>1, PartAt, ListPart
<1>4. /\ b \in Seq(S) /\ Len(b) = IF i + 1 <= Len(s) THEN Len(s) - (i + 1) + 1 ELSE 0
      /\ \A j \in 1 .. Len(s) - (i + 1) + 1 : b[j] = s[(i + 1) + j - 1]
  <2>1. \A j \in i + 1 .. Len(s) : s[j] \in S
    BY <1>1, <1>2
  <2> HIDE DEF S
  <2> QED
    BY <1>1, <2>1, SubSeqProperties
<1> HIDE DEF a, b, S
<1>5. IsList(b) /\ Len(b) = Len(s) - i
  BY <1>1, <1>4 DEF IsList
<1>6. Len(a) = i - 1
  <2>1. DOMAIN a = 1 .. Len(a) /\ Len(a) \in Nat
    BY <1>3, ListWithin
  <2>2. i - 1 \in Nat
    BY <1>1
  <2>3. Len(a) <= i - 1
    <3>1. Len(a) # 0 => Len(a) \in 1 .. i - 1
      BY <1>3, <2>1
    <3> QED
      BY <2>1, <2>2, <3>1
  <2>4. i - 1 <= Len(a)
    <3>1. i - 1 # 0 => i - 1 \in 1 .. Len(a)
      BY <1>3, <2>1, <2>2
    <3> QED
      BY <2>1, <2>2, <3>1
  <2> QED
    BY <2>1, <2>2, <2>3, <2>4
<1>7. /\ DOMAIN (a \o b) = 1 .. Len(s) - 1
      /\ \A j \in DOMAIN a : (a \o b)[j] = a[j]
      /\ \A j \in DOMAIN b : (a \o b)[i - 1 + j] = b[j]
  <2>1. (i - 1) + (Len(s) - i) = Len(s) - 1
    BY <1>1
  <2> QED
    BY <1>3, <1>5, <1>6, <2>1, ConcatAt
<1>8. ASSUME NEW j \in 1 .. Len(s) - 1 PROVE (a \o b)[j] = s[IF j < i THEN j ELSE j + 1]
  <2>1. CASE j < i
    <3>1. j \in 1 .. i - 1
      BY <1>1, <2>1
    <3> QED
      BY <1>3, <1>7, <2>1, <3>1
  <2>2. CASE ~(j < i)
    <3>1. /\ j - i + 1 \in 1 .. Len(b) /\ i - 1 + (j - i + 1) = j
          /\ j - i + 1 \in 1 .. Len(s) - (i + 1) + 1
          /\ (i + 1) + (j - i + 1) - 1 = j + 1
      BY <1>1, <1>5, <2>2
    <3>2. DOMAIN b = 1 .. Len(b)
      BY <1>5, ListWithin
    <3>3. (a \o b)[j] = b[j - i + 1]
      BY <1>7, <3>1, <3>2
    <3>4. b[j - i + 1] = s[j + 1]
      BY <1>4, <3>1
    <3> QED
      BY <2>2, <3>3, <3>4
  <2> QED
    BY <2>1, <2>2
<1> QED
  BY <1>7, <1>8 DEF RemoveAt, a, b

LEMMA RemoveCal ==
  ASSUME NEW s, IsList(s), OneCal(s), NEW i \in DOMAIN s
  PROVE  /\ OneCal(RemoveAt(s, i)) /\ ToSet(RemoveAt(s, i)) \subseteq ToSet(s)
         /\ HasCal(RemoveAt(s, i)) => HasCal(s)
<1> DEFINE r == RemoveAt(s, i)
           At(j) == IF j < i THEN j ELSE j + 1
<1>1. Len(s) \in Nat /\ DOMAIN s = 1 .. Len(s)
  BY ListWithin
<1>2. DOMAIN r = 1 .. Len(s) - 1 /\ \A j \in 1 .. Len(s) - 1 : r[j] = s[At(j)]
  BY RemoveAtIs
<1>3. \A j \in 1 .. Len(s) - 1 : At(j) \in DOMAIN s
  BY <1>1
<1>4. \A j, k \in 1 .. Len(s) - 1 : At(j) = At(k) => j = k
  BY <1>1
<1> HIDE DEF r, At
<1>5. OneCal(r)
  BY <1>2, <1>3, <1>4 DEF OneCal
<1>6. ToSet(r) \subseteq ToSet(s)
  BY <1>2, <1>3 DEF ToSet
<1>7. HasCal(r) => HasCal(s)
  BY <1>2, <1>3 DEF HasCal
<1> QED
  BY <1>5, <1>6, <1>7 DEF r

-----------------------------------------------------------------------------
(* Objects are records, calendars have the events, and other kinds stand   *)
(* beside them.                                                            *)
VcaTypes    == {"VCARD", "VMEMO", "VCAL"}
Shaped(o)   == o = [t |-> o.t, id |-> o.id, items |-> o.items]
Objects(os) == \A o \in ToSet(os) : Shaped(o) /\ o.t \in VcaTypes
HasMemo(f)  == \E o \in ToSet(f.objs) : o.t = "VMEMO"

(* In the files: one calendar, nothing else but memos behind it in its     *)
(* file, and memos only in theirs.                                         *)
InMain ==
  /\ \A k \in Kinds : OneCal(main[k].objs) /\ Objects(main[k].objs)
  /\ \A o \in ToSet(main["vcal"].objs) : o.t # "VCARD"
  /\ \A o \in ToSet(main["memo"].objs) : o.t = "VMEMO"
  /\ ~(HasCal(main["addr"].objs) /\ HasCal(main["vcal"].objs))

(* In memory: vcal points to the calendar, or to a memo that was the first *)
(* object of the calendar file, which is still there or in its backup; in  *)
(* memory it may have been freed.                                          *)
MemosHeld ==
  IF pc = "idle" THEN MemosMoved
  ELSE HasMemo(IF "vcal" \in Renamed THEN back["vcal"] ELSE main["vcal"])
InList ==
  /\ OneCal(list) /\ Objects(list) /\ vcal \in Nat \cup {Freed}
  /\ vcal = 0 => ~HasCal(list)
  /\ vcal > 0 => /\ vcal \in DOMAIN list
                 /\ list[vcal].t = "VCAL" \/ (list[vcal].t = "VMEMO" /\ MemosHeld)
  /\ vcal = Freed => MemosHeld

(* While the files are renamed and opened: each one done is open for       *)
(* writing, or gone.  What the files hold is known for a run only after.   *)
DoneInv ==
  /\ "addr" \in given /\ failed \subseteq given /\ step \in {"remove", "rename", "open"}
  /\ \A k \in Kinds \ given : main[k] = Absent
  /\ pc \in {"backup", "write"} \/ fmt = "txt" => saved = Unknown
  /\ pc \in {"backup", "write"} /\ fmt # "txt" =>
       \A k \in given \ todo : k \in opened \/ (k \in failed /\ main[k] = Absent)
  /\ pc = "backup" /\ step = "open" => main[Current] = Absent

LEMMA DoneInit == Init => DoneInv
<1> SUFFICES ASSUME Init PROVE DoneInv
  OBVIOUS
<1>1. "addr" \in given
  BY GivenAssumption DEF Init
<1>2. \A k \in Kinds \ given : main[k] = Absent
  BY FoundAssumption DEF Init
<1> QED
  BY <1>1, <1>2 DEF Init, DoneInv

LEMMA DoneStep == ASSUME FilesInv, DoneInv, [Next]_pvars PROVE DoneInv'
<1> USE DEF DoneInv
<1>0. pc = "backup" => Current \in todo /\ Current \in Kinds /\ todo \subseteq given
  BY CurrentGiven DEF FilesInv
<1>1. CASE UNCHANGED pvars
  BY <1>1 DEF pvars, Current
<1>2. CASE Open \/ OpenError
  BY <1>2 DEF Open, OpenError
<1>3. CASE OpenTxt \/ Close
  BY <1>3 DEF OpenTxt, Close, ToBackup, FilesInv
<1>4. CASE Put \/ Delete
  BY <1>4, PutOrCrash DEF Delete
<1>5. CASE RemoveOld
  BY <1>5 DEF RemoveOld, Backup
<1>6. CASE Rename
  <2>1. /\ pc = "backup" /\ step' = "open" /\ UNCHANGED <<pc, fmt, given, todo, opened, failed, saved>>
        /\ \A k \in Kinds : main'[k] = main[k] \/ main'[k] = Absent
    BY <1>0, <1>6 DEF Rename, Backup, FilesInv
  <2>2. main'[Current] = Absent /\ Current' = Current
    <3>1. Current' = Current
      BY <2>1 DEF Current
    <3>2. CASE main[Current].there
      <4>1. main' = [main EXCEPT ![Current] = Absent]
        BY <1>6, <3>2 DEF Rename
      <4>2. main = [k \in Kinds |-> main[k]] /\ Current \in Kinds
        BY <1>0, <2>1 DEF FilesInv
      <4> QED
        BY <3>1, <4>1, <4>2
    <3>3. CASE ~main[Current].there
      <4>1. main' = main
        BY <1>6, <3>3 DEF Rename
      <4>2. main[Current] = Absent
        BY <1>0, <2>1, <3>3 DEF FilesInv
      <4> QED
        BY <3>1, <4>1, <4>2
    <3> QED
      BY <3>2, <3>3
  <2>3. given \subseteq Kinds
    BY DEF FilesInv
  <2> QED
    BY <2>1, <2>2, <2>3
<1>7. CASE OpenWrite
  <2>1. /\ pc = "backup" /\ step' = "remove" /\ UNCHANGED <<fmt, given, failed, saved>>
        /\ opened' = opened \cup {Current} /\ todo' = todo \ {Current}
        /\ \A k \in Kinds \ {Current} : main'[k] = main[k]
    BY <1>0, <1>7 DEF OpenWrite, Backup, FilesInv
  <2>2. given \subseteq Kinds
    BY DEF FilesInv
  <2>3. \A k \in Kinds \ given : main'[k] = Absent
    BY <1>0, <2>1
  <2>4. fmt # "txt" => \A k \in given \ todo' : k \in opened' \/ (k \in failed /\ main'[k] = Absent)
    <3> SUFFICES ASSUME fmt # "txt", NEW k \in given, k \notin todo'
                 PROVE  k \in opened' \/ (k \in failed /\ main'[k] = Absent)
      OBVIOUS
    <3>1. k = Current \/ k \notin todo
      BY <2>1
    <3> QED
      BY <2>1, <2>2, <3>1
  <2> QED
    BY <2>1, <2>3, <2>4
<1>8. CASE OpenFails
  <2>1. /\ pc = "backup" /\ step = "open" /\ step' = "remove"
        /\ UNCHANGED <<fmt, given, main, opened, saved>>
        /\ failed' = failed \cup {Current} /\ todo' = todo \ {Current}
    BY <1>0, <1>8 DEF OpenFails, Backup
  <2>2. fmt # "txt" => \A k \in given \ todo' : k \in opened \/ (k \in failed' /\ main[k] = Absent)
    BY <2>1
  <2> QED
    BY <1>0, <2>1, <2>2
<1>9. CASE Write
  <2>1. /\ pc' = "idle" /\ UNCHANGED <<fmt, given, failed, step, opened>>
        /\ fmt = "txt" => saved' = Unknown
    BY <1>9, Zenon DEF Write
  <2>2. \A k \in Kinds \ given : main'[k] = main[k]
    BY <1>9, WrittenOut DEF FilesInv
  <2> QED
    BY <2>1, <2>2
<1>10. CASE WriteCut
  <2>1. /\ pc' = "idle" /\ UNCHANGED <<fmt, given, failed, step, saved>>
    BY <1>10, Zenon DEF WriteCut
  <2>2. \A k \in Kinds \ given : main'[k] = main[k]
    BY <1>10 DEF WriteCut, FilesInv
  <2> QED
    BY <2>1, <2>2
<1>11. CASE Killed
  BY <1>11 DEF Killed
<1>12. CASE PimWrites
  <2>1. /\ pc' \in {"idle", "open"} /\ saved' = Unknown /\ UNCHANGED <<fmt, given, failed, step>>
        /\ \A k \in Kinds \ {"addr"} : main'[k] = main[k]
    BY <1>12 DEF PimWrites, FilesInv
  <2> QED
    BY <2>1
<1> QED
  BY <1>1, <1>2, <1>3, <1>4, <1>5, <1>6, <1>7, <1>8, <1>9, <1>10, <1>11, <1>12 DEF Next

-----------------------------------------------------------------------------
LEMMA DestIs ==
  ASSUME fmt = "vca", NEW o, o.t \in VcaTypes
  PROVE  /\ Dest(o) = "memo" => o.t = "VMEMO"
         /\ Dest(o) = "vcal" => o.t # "VCARD"
         /\ "addr" \in opened => Dest(o) \in opened /\ Dest(o) \in Kinds
         /\ "memo" \in opened /\ Dest(o) = "vcal" => o.t = "VCAL"
<1>1. CASE o.t = "VCARD"
  BY <1>1 DEF Dest, Fp, FileOf, Kinds
<1>2. CASE o.t = "VMEMO"
  BY <1>2 DEF Dest, Fp, FileOf, Kinds
<1>3. CASE o.t = "VCAL"
  BY <1>3 DEF Dest, Fp, FileOf, Kinds
<1> QED
  BY <1>1, <1>2, <1>3 DEF VcaTypes

(* Whatever part of its objects gets into each file, the files are in      *)
(* order.                                                                  *)
PartOf(s, k) == IsList(s) /\ OneCal(s) /\ ToSet(s) \subseteq ToSet(Output(k))

LEMMA NoObjects == ToSet(<<>>) = {} /\ OneCal(<<>>) /\ ~HasCal(<<>>) /\ IsList(<<>>)
<1>1. DOMAIN <<>> = {}
  OBVIOUS
<1> QED
  BY <1>1, ListOfOne DEF ToSet, OneCal, HasCal

LEMMA CalIn ==
  ASSUME NEW s
  PROVE  /\ HasCal(s) => \E o \in ToSet(s) : o.t = "VCAL"
         /\ (\E o \in ToSet(s) : o.t = "VCAL") => HasCal(s)
         /\ OneCal(s) => \A o, p \in ToSet(s) : o.t = "VCAL" /\ p.t = "VCAL" => o = p
  BY DEF HasCal, OneCal, ToSet

LEMMA PartsInMain ==
  ASSUME ListsInv, InList, fmt = "vca", \A k \in Kinds : PartOf(main'[k].objs, k)
  PROVE  InMain'
<1>0. IsList(list)
  BY DEF ListsInv
<1>1. ASSUME NEW k \in Kinds, NEW o \in ToSet(main'[k].objs)
      PROVE  o \in ToSet(list) /\ Dest(o) = k /\ Shaped(o) /\ o.t \in VcaTypes
  BY <1>0, <1>1, OutputSelects DEF PartOf, InList, Objects
<1>2. /\ \A o \in ToSet(main'["vcal"].objs) : o.t # "VCARD"
      /\ \A o \in ToSet(main'["memo"].objs) : o.t = "VMEMO"
  BY <1>1, DestIs DEF Kinds
<1>3. ASSUME HasCal(main'["addr"].objs), HasCal(main'["vcal"].objs) PROVE FALSE
  <2>1. PICK o \in ToSet(main'["addr"].objs), p \in ToSet(main'["vcal"].objs) :
          o.t = "VCAL" /\ p.t = "VCAL"
    BY <1>3, CalIn
  <2>2. o \in ToSet(list) /\ p \in ToSet(list) /\ Dest(o) = "addr" /\ Dest(p) = "vcal"
    BY <1>1 DEF Kinds
  <2>3. o = p
    BY <2>1, <2>2, CalIn DEF InList
  <2> QED
    BY <2>2, <2>3
<1>4. \A k \in Kinds : OneCal(main'[k].objs) /\ Objects(main'[k].objs)
  BY <1>1 DEF PartOf, Objects
<1> QED
  BY <1>2, <1>3, <1>4 DEF InMain

LEMMA MainStep ==
  ASSUME FilesInv, ListsInv, DoneInv, fmt = "vca", InMain, InList, [Next]_pvars
  PROVE  InMain'
<1>1. CASE UNCHANGED main
  BY <1>1 DEF InMain
<1>2. CASE \A k \in Kinds : main'[k] = main[k] \/ main'[k].objs = <<>>
  BY <1>2, NoObjects DEF InMain, Objects, Kinds
<1>3. CASE Rename \/ OpenWrite
  <2>1. \A k \in Kinds : main'[k] \in {main[k], Absent, File(<<>>, TRUE)}
    BY <1>3 DEF Rename, OpenWrite, FilesInv
  <2>2. Absent.objs = <<>> /\ File(<<>>, TRUE).objs = <<>>
    BY DEF Absent, File
  <2> QED
    BY <1>2, <2>1, <2>2
<1>4. CASE Write \/ WriteCut
  <2>0. IsList(list) /\ OneCal(list)
    BY DEF ListsInv, InList
  <2>1. \A k \in Kinds : k \notin opened => main[k] = Absent
    <3>1. pc = "write" /\ todo = {}
      BY <1>4 DEF Write, WriteCut, FilesInv
    <3> QED
      BY <3>1 DEF DoneInv
  <2>2. \A k : PartOf(<<>>, k) /\ PartOf(Output(k), k)
    BY <2>0, NoObjects, OutputSelects DEF PartOf
  <2>3. \A k : \A n \in Int : n <= Len(Output(k)) => PartOf(SubSeq(Output(k), 1, n), k)
    <3> TAKE k
    <3> TAKE n \in Int
    <3> HAVE n <= Len(Output(k))
    <3>1. IsList(Output(k)) /\ OneCal(Output(k))
      BY <2>0, OutputSelects
    <3> QED
      BY <3>1, PartCal, ListPart DEF PartOf
  <2>4. ASSUME Write, NEW k \in Kinds PROVE PartOf(main'[k].objs, k)
    <3>1. main'[k] = IF k \in opened THEN File(Output(k), TRUE) ELSE main[k]
      BY <2>4, WrittenOut
    <3>2. File(Output(k), TRUE).objs = Output(k) /\ Absent.objs = <<>>
      BY DEF File, Absent
    <3> QED
      BY <2>1, <2>2, <3>1, <3>2
  <2>5. ASSUME WriteCut, NEW k \in Kinds PROVE PartOf(main'[k].objs, k)
    <3>1. PICK n \in [opened -> 0 .. Len(list)], whole \in BOOLEAN :
            /\ \A j \in opened : n[j] <= Len(Output(j))
            /\ main' = [j \in Kinds |->
                          IF j \in opened THEN Cut(Output(j), n[j], whole) ELSE main[j]]
      BY <2>5 DEF WriteCut
    <3>2. main'[k] = IF k \in opened THEN Cut(Output(k), n[k], whole) ELSE main[k]
      BY <3>1, Zenon
    <3>3. CASE k \in opened
      <4>1. n[k] \in Int /\ n[k] <= Len(Output(k))
        BY <3>1, <3>3
      <4>2. main'[k].objs = SubSeq(Output(k), 1, n[k])
        BY <3>2, <3>3 DEF Cut, File
      <4> QED
        BY <2>3, <4>1, <4>2
    <3>4. CASE k \notin opened
      BY <2>1, <2>2, <3>2, <3>4 DEF Absent
    <3> QED
      BY <3>3, <3>4
  <2> QED
    BY <1>4, <2>4, <2>5, PartsInMain
<1>5. CASE PimWrites
  <2> DEFINE os == main["addr"].objs
  <2>0. IsList(os) /\ OneCal(os) /\ Objects(os)
    BY DEF ListsInv, InMain, Kinds
  <2>1. ASSUME NEW new, OneCal(new), Objects(new), HasCal(new) => HasCal(os),
               main' = [main EXCEPT !["addr"] = File(new, TRUE)]
        PROVE  InMain'
    <3>1. /\ main'["addr"].objs = new
          /\ \A k \in Kinds \ {"addr"} : main'[k] = main[k]
      BY <2>1 DEF FilesInv, Kinds, File
    <3> QED
      BY <2>1, <3>1 DEF InMain, Kinds
  <2>2. CASE \E r \in NewRecs : /\ r.t = "VCARD"
                                /\ main' = [main EXCEPT !["addr"] = File(Append(os, r), TRUE)]
    <3> PICK r \in NewRecs : /\ r.t = "VCARD"
                             /\ main' = [main EXCEPT !["addr"] = File(Append(os, r), TRUE)]
      BY <2>2
    <3>1. Shaped(r)
      BY NewRecsAssumption DEF Rec, Shaped
    <3>2. OneCal(Append(os, r)) /\ (HasCal(Append(os, r)) => HasCal(os))
      BY <2>0, AppendCal
    <3>3. Objects(Append(os, r))
      BY <2>0, <3>1, ListAppend DEF Objects, VcaTypes
    <3> QED
      BY <2>1, <3>2, <3>3
  <2>3. CASE \E i \in DOMAIN os : main' = [main EXCEPT !["addr"] = File(RemoveAt(os, i), TRUE)]
    <3> PICK i \in DOMAIN os : main' = [main EXCEPT !["addr"] = File(RemoveAt(os, i), TRUE)]
      BY <2>3
    <3>1. /\ OneCal(RemoveAt(os, i)) /\ ToSet(RemoveAt(os, i)) \subseteq ToSet(os)
          /\ HasCal(RemoveAt(os, i)) => HasCal(os)
      BY <2>0, RemoveCal
    <3>2. Objects(RemoveAt(os, i))
      BY <2>0, <3>1 DEF Objects
    <3> QED
      BY <2>1, <3>1, <3>2
  <2> QED
    BY <1>5, <2>2, <2>3 DEF PimWrites
<1>6. CASE Open \/ OpenError \/ OpenTxt \/ Put \/ Delete \/ Close \/ RemoveOld \/ OpenFails \/ Killed
  BY <1>1, <1>6 DEF Open, OpenError, OpenTxt, Put, Delete, Close, RemoveOld, OpenFails, Killed
<1>7. CASE UNCHANGED pvars
  BY <1>1, <1>7 DEF pvars
<1> QED
  BY <1>3, <1>4, <1>5, <1>6, <1>7 DEF Next

-----------------------------------------------------------------------------
(* A memo that is taken for the calendar stays on disk.                    *)
LEMMA HeldStep ==
  ASSUME FilesInv, DoneInv, fmt = "vca", MemosHeld, Next, ~Open PROVE MemosHeld'
<1>0. /\ pc = "backup" => Current \in todo /\ Current \in Kinds /\ todo \subseteq given
      /\ "vcal" \in Kinds /\ ~HasMemo(Absent)
  BY CurrentGiven, NoObjects DEF FilesInv, Kinds, HasMemo, Absent
<1>1. MemosMoved <=> HasMemo(main["vcal"]) \/ HasMemo(back["vcal"])
  BY DEF MemosMoved, HasMemo
<1>2. MemosMoved' <=> HasMemo(main'["vcal"]) \/ HasMemo(back'["vcal"])
  BY DEF MemosMoved, HasMemo
<1>3. ASSUME UNCHANGED <<main, back>>, pc' = "idle" \/ (pc # "idle" /\ pc' # "idle" /\ Renamed' = Renamed)
      PROVE  MemosHeld'
  BY <1>1, <1>2, <1>3 DEF MemosHeld
<1>4. CASE OpenError \/ Killed
  BY <1>3, <1>4 DEF OpenError, Killed
<1>5. CASE OpenTxt
  BY <1>5 DEF OpenTxt
<1>6. CASE Put \/ Delete
  <2>1. /\ pc = "open" /\ pc' \in {"open", "idle"}
        /\ UNCHANGED <<fmt, given, main, back, todo, step>>
    BY <1>6, PutOrCrash, Zenon DEF Delete
  <2> QED
    BY <1>3, <2>1 DEF Renamed, Current
<1>7. CASE Close
  <2>1. pc = "open" /\ pc' # "idle" /\ UNCHANGED <<fmt, given, main, back>>
    BY <1>7 DEF Close
  <2>2. Renamed' = Renamed
    BY <1>7, <2>1 DEF Close, ToBackup, FilesInv, Renamed
  <2> QED
    BY <1>3, <2>1, <2>2
<1>8. CASE RemoveOld
  <2>1. /\ pc = "backup" /\ step = "remove" /\ step' = "rename"
        /\ UNCHANGED <<pc, main, given, todo>>
        /\ \A k \in Kinds \ {Current} : back'[k] = back[k]
    BY <1>8 DEF RemoveOld, Backup, FilesInv
  <2>2. Renamed' = Renamed /\ Current \notin Renamed
    BY <1>0, <2>1 DEF Renamed
  <2> QED
    BY <1>0, <2>1, <2>2 DEF MemosHeld
<1>9. CASE Rename
  <2>1. /\ pc = "backup" /\ step = "rename" /\ step' = "open"
        /\ UNCHANGED <<pc, given, todo>>
        /\ \A k \in Kinds \ {Current} : back'[k] = back[k] /\ main'[k] = main[k]
        /\ back'[Current] = main[Current] \/ main[Current] = Absent
    BY <1>0, <1>9 DEF Rename, Backup, FilesInv
  <2>2. Renamed' = Renamed \cup {Current} /\ Current \notin Renamed
    BY <1>0, <2>1 DEF Renamed, Current
  <2> QED
    BY <1>0, <2>1, <2>2 DEF MemosHeld
<1>10. CASE OpenWrite
  <2>1. /\ pc = "backup" /\ step = "open" /\ step' = "remove"
        /\ todo' = todo \ {Current} /\ pc' = AfterBackup
        /\ UNCHANGED <<given, back, fmt>>
        /\ \A k \in Kinds \ {Current} : main'[k] = main[k]
    BY <1>10 DEF OpenWrite, Backup, FilesInv
  <2>2. Renamed' = Renamed /\ Current \in Renamed /\ pc' # "idle"
    BY <1>0, <2>1 DEF Renamed, AfterBackup
  <2> QED
    BY <1>0, <2>1, <2>2 DEF MemosHeld
<1>11. CASE OpenFails
  <2>1. /\ pc = "backup" /\ step = "open" /\ step' = "remove"
        /\ todo' = todo \ {Current} /\ pc' = AfterBackup
        /\ UNCHANGED <<given, main, back, fmt>>
    BY <1>11 DEF OpenFails, Backup
  <2>2. pc' # "idle" /\ Renamed' = Renamed
    BY <1>0, <2>1 DEF Renamed, AfterBackup
  <2> QED
    BY <1>3, <2>1, <2>2
<1>12. CASE Write \/ WriteCut
  <2>1. pc = "write" /\ pc' = "idle" /\ UNCHANGED back
    BY <1>12, Zenon DEF Write, WriteCut
  <2>2. Renamed = given
    BY <2>1 DEF Renamed
  <2>3. "vcal" \notin given => main["vcal"] = Absent
    BY <1>0 DEF DoneInv
  <2> QED
    BY <1>0, <1>2, <2>1, <2>2, <2>3 DEF MemosHeld
<1>13. CASE PimWrites
  <2>1. /\ pc \in {"idle", "open"} /\ UNCHANGED <<pc, fmt, back>>
        /\ main'["vcal"] = main["vcal"]
    BY <1>13 DEF PimWrites, FilesInv, Kinds
  <2>2. pc = "open" => Renamed = {} /\ Renamed' = {}
    BY <2>1 DEF Renamed
  <2> QED
    BY <1>1, <1>2, <2>1, <2>2 DEF MemosHeld
<1> QED
  BY <1>4, <1>5, <1>6, <1>7, <1>8, <1>9, <1>10, <1>11, <1>12, <1>13 DEF Next

-----------------------------------------------------------------------------
LEMMA NamedAll == ASSUME FilesInv, DoneInv PROVE Named(main) = main
<1>1. \A k \in Kinds : Named(main)[k] = main[k]
  BY DEF Named, DoneInv
<1>2. Named(main) = [k \in Kinds |-> Named(main)[k]]
  BY DEF Named
<1> QED
  BY <1>1, <1>2 DEF FilesInv

LEMMA FirstIs ==
  ASSUME NEW s, IsList(s)
  PROVE  /\ IsList(FirstOf(s)) /\ OneCal(FirstOf(s)) /\ ToSet(FirstOf(s)) \subseteq ToSet(s)
         /\ s = <<>> => FirstOf(s) = <<>>
         /\ s # <<>> => 1 \in DOMAIN s /\ DOMAIN FirstOf(s) = {1} /\ FirstOf(s)[1] = s[1]
<1>1. CASE s = <<>>
  BY <1>1, NoObjects DEF FirstOf
<1>2. CASE s # <<>>
  <2>1. FirstOf(s) = <<s[1]>> /\ DOMAIN <<s[1]>> = {1} /\ <<s[1]>>[1] = s[1]
    BY <1>2 DEF FirstOf
  <2>2. 1 \in DOMAIN s
    BY <1>2, EmptySeq, ListWithin
  <2> QED
    BY <1>2, <2>1, <2>2, ListOfOne DEF OneCal, ToSet
<1> QED
  BY <1>1, <1>2

ItemsAt(s, i, x) == [s EXCEPT ![i].items = x]
LEMMA ItemsList ==
  ASSUME NEW s, IsList(s), OneCal(s), Objects(s), NEW i \in DOMAIN s, NEW x
  PROVE  LET r == ItemsAt(s, i, x) IN
         /\ OneCal(r) /\ Objects(r) /\ (HasCal(r) => HasCal(s))
         /\ DOMAIN r = DOMAIN s /\ \A j \in DOMAIN s : r[j].t = s[j].t
<1> DEFINE r == ItemsAt(s, i, x)
           e == [s[i] EXCEPT !.items = x]
<1>0. \A j \in DOMAIN s : Shaped(s[j]) /\ s[j].t \in VcaTypes
  BY DEF Objects, ToSet
<1>1. DOMAIN s = 1 .. Len(s)
  BY ListWithin
<1>2. DOMAIN r = DOMAIN s /\ r[i] = e /\ \A j \in DOMAIN s \ {i} : r[j] = s[j]
  BY <1>1 DEF ItemsAt
<1>3. Shaped(e) /\ e.t = s[i].t
  <2>1. s[i] = [t |-> s[i].t, id |-> s[i].id, items |-> s[i].items]
    BY <1>0 DEF Shaped
  <2>2. e = [t |-> s[i].t, id |-> s[i].id, items |-> x]
    BY <2>1
  <2> HIDE DEF e
  <2> QED
    BY <2>2 DEF Shaped
<1> HIDE DEF r, e
<1>4. \A j \in DOMAIN s : r[j].t = s[j].t /\ Shaped(r[j])
  BY <1>0, <1>2, <1>3
<1>5. OneCal(r) /\ (HasCal(r) => HasCal(s))
  BY <1>2, <1>4 DEF OneCal, HasCal
<1>6. Objects(r)
  BY <1>0, <1>2, <1>4 DEF Objects, ToSet
<1> QED
  BY <1>2, <1>4, <1>5, <1>6 DEF r

LEMMA OpenList ==
  ASSUME FilesInv, ListsInv, DoneInv, InMain, fmt = "vca", Open PROVE InList'
<1> DEFINE a == main["addr"].objs
           v == main["vcal"].objs
           f == FirstOf(v)
           m == main["memo"].objs
<1>0. /\ IsList(a) /\ OneCal(a) /\ Objects(a)
      /\ IsList(v) /\ OneCal(v) /\ Objects(v)
      /\ IsList(m) /\ OneCal(m) /\ Objects(m)
      /\ \A o \in ToSet(v) : o.t # "VCARD"
      /\ \A o \in ToSet(m) : o.t = "VMEMO"
      /\ ~(HasCal(a) /\ HasCal(v))
  BY DEF ListsInv, InMain, Kinds
<1>1. list' = (a \o f) \o m /\ vcal' = VcalOf(main) /\ pc' = "open" /\ UNCHANGED <<main, fmt>>
  <2>1. Named(main) = main
    BY NamedAll
  <2> QED
    BY <2>1 DEF Open, ListOf, VcaList
<1>2. MemosHeld' <=> HasMemo(main["vcal"])
  BY <1>1 DEF MemosHeld, Renamed
<1>3. HasMemo(main["vcal"]) <=> \E o \in ToSet(v) : o.t = "VMEMO"
  BY DEF HasMemo
<1> HIDE DEF a, v, m
<1>4. /\ IsList(f) /\ OneCal(f) /\ ToSet(f) \subseteq ToSet(v)
      /\ v = <<>> => f = <<>>
      /\ v # <<>> => 1 \in DOMAIN v /\ DOMAIN f = {1} /\ f[1] = v[1]
  BY <1>0, FirstIs
<1> HIDE DEF f
<1>5. /\ HasCal(f) => HasCal(v)
      /\ ~HasCal(m)
  BY <1>0, <1>4, CalIn
<1>6. /\ IsList(a \o f) /\ OneCal(a \o f) /\ (HasCal(a \o f) => HasCal(a) \/ HasCal(f))
      /\ ToSet(a \o f) = ToSet(a) \cup ToSet(f)
  BY <1>0, <1>4, <1>5, ConcatCal, ListConcat
<1>7. /\ IsList(list') /\ OneCal(list') /\ (HasCal(list') => HasCal(a) \/ HasCal(f))
      /\ ToSet(list') = ToSet(a) \cup ToSet(f) \cup ToSet(m)
  BY <1>0, <1>1, <1>5, <1>6, ConcatCal, ListConcat
<1>8. Objects(list')
  BY <1>0, <1>4, <1>7 DEF Objects
<1>9. /\ DOMAIN a = 1 .. Len(a) /\ Len(a) \in Nat
      /\ DOMAIN (a \o f) = 1 .. Len(a \o f) /\ Len(a \o f) \in Nat
      /\ DOMAIN list' = 1 .. Len(list') /\ Len(list') \in Nat
      /\ Len(f) \in Nat /\ Len(m) \in Nat /\ DOMAIN f = 1 .. Len(f)
  BY <1>0, <1>4, <1>6, <1>7, ListWithin
<1>10. /\ \A i \in DOMAIN a : i \in DOMAIN (a \o f) /\ (a \o f)[i] = a[i]
       /\ \A i \in DOMAIN f : Len(a) + i \in DOMAIN (a \o f) /\ (a \o f)[Len(a) + i] = f[i]
  <2>1. /\ DOMAIN (a \o f) = 1 .. Len(a) + Len(f)
        /\ \A i \in DOMAIN a : (a \o f)[i] = a[i]
        /\ \A i \in DOMAIN f : (a \o f)[Len(a) + i] = f[i]
    BY <1>0, <1>4, ConcatAt
  <2> QED
    BY <1>9, <2>1
<1>11. \A i \in DOMAIN (a \o f) : i \in DOMAIN list' /\ list'[i] = (a \o f)[i]
  <2>1. /\ DOMAIN list' = 1 .. Len(a \o f) + Len(m)
        /\ \A i \in DOMAIN (a \o f) : list'[i] = (a \o f)[i]
    BY <1>0, <1>1, <1>6, ConcatAt
  <2> QED
    BY <1>9, <2>1
<1>12. CASE v # <<>>
  <2>1. vcal' = Len(a) + 1
    BY <1>1, <1>12 DEF VcalOf, a, v
  <2>2. vcal' \in DOMAIN list' /\ list'[vcal'] = v[1]
    BY <1>4, <1>9, <1>10, <1>11, <1>12, <2>1
  <2>3. v[1] \in ToSet(v)
    BY <1>4, <1>12 DEF ToSet
  <2>4. v[1].t = "VCAL" \/ (v[1].t = "VMEMO" /\ MemosHeld')
    BY <1>0, <1>2, <1>3, <2>3 DEF Objects, VcaTypes
  <2>5. vcal' \in Nat /\ vcal' # 0 /\ vcal' > 0 /\ vcal' # Freed
    BY <1>9, <2>1 DEF Freed
  <2> QED
    BY <1>7, <1>8, <2>2, <2>4, <2>5 DEF InList
<1>13. CASE v = <<>>
  <2> DEFINE I == {i \in 1 .. Len(a) : a[i].t = "VCAL"}
  <2>1. vcal' = IF I # {} THEN Min(I) ELSE 0
    BY <1>1, <1>13 DEF VcalOf, SelectInSeq, a, v
  <2>2. CASE I = {}
    <3>1. ~HasCal(a) /\ ~HasCal(f)
      BY <1>4, <1>9, <1>13, <2>2, NoObjects DEF HasCal
    <3>2. ~HasCal(list') /\ vcal' = 0 /\ vcal' \in Nat /\ ~(vcal' > 0) /\ vcal' # Freed
      BY <1>7, <2>1, <2>2, <3>1 DEF Freed
    <3> QED
      BY <1>7, <1>8, <3>2 DEF InList
  <2>3. CASE I # {}
    <3>1. Min(I) \in I
      <4>1. I \subseteq Nat
        OBVIOUS
      <4> HIDE DEF I
      <4>2. \E x \in I : \A y \in I : x <= y
        BY <2>3, <4>1, LeastNat
      <4> QED
        BY <4>2 DEF Min
    <3>2. vcal' \in DOMAIN a /\ a[vcal'].t = "VCAL"
      BY <1>9, <2>1, <2>3, <3>1
    <3>3. /\ vcal' \in DOMAIN list' /\ list'[vcal'].t = "VCAL"
          /\ vcal' \in Nat /\ vcal' # 0 /\ vcal' # Freed
      BY <1>9, <1>10, <1>11, <3>2 DEF Freed
    <3> QED
      BY <1>7, <1>8, <3>3 DEF InList
  <2> QED
    BY <2>2, <2>3
<1> QED
  BY <1>12, <1>13

LEMMA PutList ==
  ASSUME FilesInv, ListsInv, DoneInv, InList, fmt = "vca", Put PROVE InList'
<1>0. IsList(list) /\ OneCal(list) /\ Objects(list) /\ vcal \in Nat \cup {Freed} /\ Freed = -1
  BY DEF ListsInv, InList, Freed
<1>1. DOMAIN list = 1 .. Len(list) /\ Len(list) \in Nat
  BY <1>0, ListWithin
<1>2. MemosHeld => MemosHeld'
  BY HeldStep DEF Put, Open, Next
<1>3. PICK r \in NewRecs : \/ FileOf(r.t) = "vcal" /\ AddEvent(r)
                           \/ FileOf(r.t) # "vcal" /\ list' = Append(list, r) /\ UNCHANGED vcal
  BY DEF Put
<1>4. r.t \in {"VCARD", "VEVENT", "VTODO", "VMEMO"} /\ Shaped(r)
  BY NewRecsAssumption DEF Rec, Shaped
<1>5. ASSUME NEW e, Shaped(e), e.t \in VcaTypes, e.t = "VCAL" => vcal = 0, list' = Append(list, e)
      PROVE  /\ OneCal(list') /\ Objects(list') /\ (HasCal(list') => HasCal(list) \/ e.t = "VCAL")
             /\ DOMAIN list' = 1 .. Len(list) + 1 /\ list'[Len(list) + 1] = e
             /\ \A i \in DOMAIN list : i \in DOMAIN list' /\ list'[i] = list[i]
  <2>1. e.t = "VCAL" => ~HasCal(list)
    BY <1>5 DEF InList
  <2>2. OneCal(list') /\ (HasCal(list') => HasCal(list) \/ e.t = "VCAL")
    BY <1>0, <1>5, <2>1, AppendCal
  <2>3. Objects(list')
    BY <1>0, <1>5, ListAppend DEF Objects
  <2>4. /\ DOMAIN list' = 1 .. Len(list) + 1 /\ list'[Len(list) + 1] = e
        /\ \A i \in DOMAIN list : list'[i] = list[i]
    BY <1>0, <1>5, AppendAt
  <2> QED
    BY <1>1, <2>2, <2>3, <2>4
<1>6. CASE FileOf(r.t) # "vcal" /\ list' = Append(list, r) /\ UNCHANGED vcal
  <2>1. r.t \in VcaTypes /\ r.t # "VCAL"
    BY <1>4, <1>6 DEF FileOf, VcaTypes
  <2>2. /\ OneCal(list') /\ Objects(list') /\ (HasCal(list') => HasCal(list))
        /\ \A i \in DOMAIN list : i \in DOMAIN list' /\ list'[i] = list[i]
    BY <1>4, <1>5, <1>6, <2>1
  <2> QED
    BY <1>2, <1>6, <2>2 DEF InList
<1>7. CASE AddEvent(r) /\ vcal = 0
  <2> DEFINE e == Calendar(<<r>>)
  <2>1. list' = Append(list, e) /\ vcal' = Len(list) + 1
    BY <1>0, <1>7 DEF AddEvent
  <2>2. Shaped(e) /\ e.t = "VCAL" /\ e.t \in VcaTypes
    BY DEF Calendar, Shaped, VcaTypes
  <2> HIDE DEF e
  <2>3. /\ OneCal(list') /\ Objects(list')
        /\ DOMAIN list' = 1 .. Len(list) + 1 /\ list'[Len(list) + 1] = e
    BY <1>5, <1>7, <2>1, <2>2
  <2>4. vcal' \in DOMAIN list' /\ list'[vcal'].t = "VCAL" /\ vcal' \in Nat /\ vcal' > 0
    BY <1>1, <2>1, <2>2, <2>3
  <2> QED
    BY <1>0, <2>3, <2>4 DEF InList
<1>8. CASE AddEvent(r) /\ vcal > 0
  <2>1. PICK x : list' = ItemsAt(list, vcal, x) /\ vcal' = vcal
    BY <1>0, <1>8 DEF AddEvent, ItemsAt
  <2>2. vcal \in DOMAIN list /\ (list[vcal].t = "VCAL" \/ (list[vcal].t = "VMEMO" /\ MemosHeld))
    BY <1>8 DEF InList
  <2>3. /\ OneCal(list') /\ Objects(list') /\ (HasCal(list') => HasCal(list))
        /\ DOMAIN list' = DOMAIN list /\ \A j \in DOMAIN list : list'[j].t = list[j].t
    BY <1>0, <2>1, <2>2, ItemsList
  <2> QED
    BY <1>0, <1>2, <1>8, <2>1, <2>2, <2>3 DEF InList
<1>9. CASE AddEvent(r) /\ vcal = Freed
  <2>1. vcal' = vcal /\ MemosHeld'
    BY <1>0, <1>2, <1>9 DEF AddEvent, InList
  <2>2. CASE list' = list
    BY <1>0, <1>9, <2>1, <2>2 DEF InList
  <2>3. CASE \E i \in DOMAIN list : list' = [list EXCEPT ![i].items = Append(@, r)]
    <3>1. PICK i \in DOMAIN list : list' = ItemsAt(list, i, Append(list[i].items, r))
      BY <2>3 DEF ItemsAt
    <3>2. OneCal(list') /\ Objects(list')
      BY <1>0, <3>1, ItemsList
    <3> QED
      BY <1>0, <1>9, <2>1, <3>2 DEF InList
  <2> QED
    BY <1>0, <1>9, <2>2, <2>3 DEF AddEvent
<1> QED
  BY <1>0, <1>3, <1>6, <1>7, <1>8, <1>9

LEMMA DeleteList ==
  ASSUME FilesInv, ListsInv, DoneInv, InList, fmt = "vca", Delete PROVE InList'
<1>0. IsList(list) /\ OneCal(list) /\ Objects(list) /\ vcal \in Nat \cup {Freed} /\ Freed = -1
  BY DEF ListsInv, InList, Freed
<1>1. DOMAIN list = 1 .. Len(list) /\ Len(list) \in Nat
  BY <1>0, ListWithin
<1>2. MemosHeld => MemosHeld'
  BY HeldStep DEF Delete, Open, Next
<1>3. ASSUME NEW i \in DOMAIN list, list[i].t # "VCAL", list' = RemoveAt(list, i),
             vcal' = IF i = vcal THEN Freed ELSE IF i < vcal THEN vcal - 1 ELSE vcal
      PROVE  InList'
  <2>1. /\ OneCal(list') /\ ToSet(list') \subseteq ToSet(list)
        /\ HasCal(list') => HasCal(list)
    BY <1>0, <1>3, RemoveCal
  <2>2. Objects(list')
    BY <1>0, <2>1 DEF Objects
  <2>3. /\ DOMAIN list' = 1 .. Len(list) - 1
        /\ \A j \in 1 .. Len(list) - 1 : list'[j] = list[IF j < i THEN j ELSE j + 1]
    BY <1>0, <1>3, RemoveAtIs
  <2>4. CASE vcal = 0
    <3>1. vcal' = 0 /\ vcal' \in Nat /\ ~(vcal' > 0) /\ vcal' # Freed
      BY <1>1, <1>3, <2>4 DEF Freed
    <3>2. ~HasCal(list')
      BY <2>1, <2>4 DEF InList
    <3> QED
      BY <2>1, <2>2, <3>1, <3>2 DEF InList
  <2>6. CASE vcal = Freed
    <3>1. vcal' = Freed /\ MemosHeld'
      BY <1>0, <1>1, <1>2, <1>3, <2>6 DEF InList
    <3> QED
      BY <1>0, <2>1, <2>2, <3>1 DEF InList
  <2>7. CASE vcal = i
    <3>1. vcal > 0
      BY <1>1, <2>7
    <3>2. vcal' = Freed /\ MemosHeld'
      BY <1>2, <1>3, <2>7, <3>1 DEF InList
    <3> QED
      BY <1>0, <2>1, <2>2, <3>2 DEF InList
  <2>5. CASE vcal > 0 /\ vcal # i
    <3>1. vcal \in DOMAIN list /\ (list[vcal].t = "VCAL" \/ (list[vcal].t = "VMEMO" /\ MemosHeld))
      BY <2>5 DEF InList
    <3>2. /\ vcal' \in 1 .. Len(list) - 1 /\ vcal' \in Nat /\ vcal' > 0
          /\ vcal = IF vcal' < i THEN vcal' ELSE vcal' + 1
      BY <1>1, <1>3, <2>5, <3>1
    <3>3. list'[vcal'] = list[vcal]
      BY <2>3, <3>2
    <3> QED
      BY <1>0, <1>2, <2>1, <2>2, <2>3, <3>1, <3>2, <3>3 DEF InList
  <2> QED
    BY <1>0, <2>4, <2>5, <2>6, <2>7
<1>4. ASSUME vcal > 0, NEW x, list' = ItemsAt(list, vcal, x), UNCHANGED vcal PROVE InList'
  <2>1. vcal \in DOMAIN list /\ (list[vcal].t = "VCAL" \/ (list[vcal].t = "VMEMO" /\ MemosHeld))
    BY <1>4 DEF InList
  <2>2. /\ OneCal(list') /\ Objects(list')
        /\ DOMAIN list' = DOMAIN list /\ \A j \in DOMAIN list : list'[j].t = list[j].t
    BY <1>0, <1>4, <2>1, ItemsList
  <2> QED
    BY <1>0, <1>2, <1>4, <2>1, <2>2 DEF InList
<1> QED
  BY <1>3, <1>4 DEF Delete, ItemsAt

LEMMA ListStep ==
  ASSUME FilesInv, ListsInv, DoneInv, fmt = "vca", InMain, InList, [Next]_pvars PROVE InList'
<1>1. CASE UNCHANGED pvars
  <2>1. MemosHeld' <=> MemosHeld
    BY <1>1 DEF pvars, MemosHeld, MemosMoved, Renamed, Current
  <2>2. UNCHANGED <<list, vcal>>
    BY <1>1 DEF pvars
  <2> QED
    BY <2>1, <2>2 DEF InList
<1>2. CASE Open
  BY <1>2, OpenList
<1>3. CASE Put
  BY <1>3, PutList
<1>4. CASE Delete
  BY <1>4, DeleteList
<1>5. CASE Next /\ ~Open /\ UNCHANGED <<list, vcal>>
  <2>1. MemosHeld => MemosHeld'
    BY <1>5, HeldStep
  <2> QED
    BY <1>5, <2>1 DEF InList
<1>6. ASSUME Next, ~Open, ~Put, ~Delete PROVE UNCHANGED <<list, vcal>>
  BY <1>6, Zenon DEF Next, OpenError, OpenTxt, Close, RemoveOld, Rename, OpenWrite, OpenFails,
                     Backup, Write, WriteCut, Killed, PimWrites
<1> QED
  BY <1>1, <1>2, <1>3, <1>4, <1>5, <1>6

-----------------------------------------------------------------------------
(* In the other formats there are no calendars.                            *)
OtherInv ==
  /\ fmt \in {"vca", "bin", "txt"}
  /\ fmt # "vca" => vcal = 0 /\ ~HasCal(list) /\ ~HasCal(main["addr"].objs)

LEMMA InsertIn ==
  ASSUME NEW s, IsList(s), NEW i \in 1 .. Len(s) + 1, NEW e
  PROVE  ToSet(InsertAt(s, i, e)) \subseteq ToSet(s) \cup {e}
<1> DEFINE a == SubSeq(s, 1, i - 1)
           b == SubSeq(s, i, Len(s))
<1>1. Len(s) \in Nat /\ DOMAIN s = 1 .. Len(s)
  BY ListWithin
<1>2. /\ IsList(a) /\ ToSet(a) = {s[j] : j \in 1 .. i - 1}
      /\ IsList(b) /\ ToSet(b) = {s[j] : j \in i .. Len(s)}
  <2>1. i \in Int /\ i - 1 \in Int /\ 1 <= i /\ i - 1 <= Len(s) /\ Len(s) <= Len(s)
    BY <1>1
  <2>2. IsList(a) /\ ToSet(a) = {s[j] : j \in 1 .. i - 1}
    BY <2>1, ListSubSeq
  <2>3. IsList(b) /\ ToSet(b) = {s[j] : j \in i .. Len(s)}
    BY <1>1, <2>1, ListSubSeq
  <2> QED
    BY <2>2, <2>3
<1>3. IsList(<<e>>) /\ ToSet(<<e>>) = {e}
  BY ListOfOne DEF ToSet
<1> HIDE DEF a, b
<1>4. ToSet((a \o <<e>>) \o b) = ToSet(a) \cup {e} \cup ToSet(b)
  <2>1. IsList(a \o <<e>>) /\ ToSet(a \o <<e>>) = ToSet(a) \cup {e}
    BY <1>2, <1>3, ListConcat
  <2> QED
    BY <1>2, <2>1, ListConcat
<1>5. ToSet(a) \subseteq ToSet(s) /\ ToSet(b) \subseteq ToSet(s)
  <2>1. \A j \in 1 .. Len(s) : s[j] \in ToSet(s)
    BY <1>1 DEF ToSet
  <2> QED
    BY <1>1, <1>2, <2>1
<1> QED
  BY <1>4, <1>5 DEF InsertAt, a, b

LEMMA OtherPut ==
  ASSUME ListsInv, OtherInv, fmt # "vca", Put PROVE vcal' = 0 /\ ~HasCal(list')
<1>0. IsList(list) /\ ~HasCal(list) /\ vcal = 0
  BY DEF ListsInv, OtherInv
<1>1. PICK r \in NewRecs : BinAdd(r) \/ (list' = Append(list, r) /\ UNCHANGED vcal)
  BY DEF Put
<1>2. r.t # "VCAL" /\ \A o \in ToSet(list) : o.t # "VCAL"
  BY <1>0, CalIn, NewRecsAssumption
<1>3. CASE list' = Append(list, r) /\ UNCHANGED vcal
  <2>1. ToSet(list') = ToSet(list) \cup {r}
    BY <1>0, <1>3, ListAppend
  <2> QED
    BY <1>0, <1>2, <1>3, <2>1, CalIn
<1>4. CASE BinAdd(r)
  <2> DEFINE I == {j \in 1 .. Len(list) : list[j].t = r.t}
             i == SelectLastInSeq(list, LAMBDA o : o.t = r.t)
  <2>1. Len(list) \in Nat
    BY <1>0, ListWithin
  <2>2. i = IF I # {} THEN Max(I) ELSE 0
    BY DEF SelectLastInSeq
  <2>3. I # {} => Max(I) \in I
    BY <2>1, ListPlaces
  <2>4. i \in 0 .. Len(list)
    BY <2>1, <2>2, <2>3
  <2>5. list' = InsertAt(list, IF i = 0 THEN Len(list) + 1 ELSE i + 1, r) /\ UNCHANGED vcal
    BY <1>4 DEF BinAdd
  <2> HIDE DEF i
  <2>6. (IF i = 0 THEN Len(list) + 1 ELSE i + 1) \in 1 .. Len(list) + 1
    BY <2>1, <2>4
  <2>7. ToSet(list') \subseteq ToSet(list) \cup {r}
    BY <1>0, <2>5, <2>6, InsertIn
  <2> QED
    BY <1>0, <1>2, <2>5, <2>7, CalIn
<1> QED
  BY <1>1, <1>3, <1>4

LEMMA OtherStep ==
  ASSUME FilesInv, ListsInv, DoneInv, OtherInv, [Next]_pvars PROVE OtherInv'
<1>1. fmt' = fmt
  BY Zenon DEF Next, Open, OpenError, OpenTxt, Put, Delete, Close, RemoveOld, Rename, OpenWrite,
               OpenFails, Backup, Write, WriteCut, Killed, PimWrites, pvars
<1> SUFFICES ASSUME fmt' # "vca" PROVE vcal' = 0 /\ ~HasCal(list') /\ ~HasCal(main'["addr"].objs)
  BY <1>1 DEF OtherInv
<1>2. /\ fmt # "vca" /\ vcal = 0 /\ ~HasCal(list) /\ ~HasCal(main["addr"].objs)
      /\ IsList(list) /\ IsList(main["addr"].objs)
  BY <1>1 DEF OtherInv, ListsInv, Kinds
<1>3. CASE UNCHANGED <<list, vcal, main>>
  BY <1>2, <1>3
<1>4. CASE UNCHANGED pvars \/ OpenError \/ Close \/ RemoveOld \/ OpenFails \/ Killed
  BY <1>3, <1>4 DEF pvars, OpenError, Close, RemoveOld, OpenFails, Backup, Killed
<1>5. CASE Open
  <2> DEFINE os == main["addr"].objs
  <2>2. /\ list' = (IF fmt = "bin" THEN Readable(main["addr"]) ELSE VcaList(main))
        /\ vcal' = (IF fmt = "bin" THEN 0 ELSE VcalOf(main)) /\ UNCHANGED main
    <3>1. Named(main) = main
      BY NamedAll
    <3> QED
      BY <1>5, <3>1 DEF Open, ListOf
  <2>3. fmt = "bin"
    BY <1>2, <1>5 DEF Open, OtherInv
  <2>4. ToSet(Front(os)) \subseteq ToSet(os)
    <3>1. os # <<>> => ToSet(Front(os)) \subseteq ToSet(os)
      BY <1>2, ListFront
    <3>2. os = <<>> => Front(os) = <<>>
      <4>1. Len(<<>>) = 0 /\ SubSeq(<<>>, 1, 0 - 1) = <<>>
        OBVIOUS
      <4> QED
        BY <4>1 DEF Front
    <3> QED
      BY <3>1, <3>2
  <2>5. ToSet(list') \subseteq ToSet(os)
    BY <2>2, <2>3, <2>4 DEF Readable
  <2> QED
    BY <1>2, <2>2, <2>3, <2>5, CalIn
<1>6. CASE OpenTxt
  BY <1>2, <1>6, NoObjects DEF OpenTxt
<1>7. CASE Put
  BY <1>2, <1>7, OtherPut DEF Put
<1>8. CASE Delete
  <2>1. PICK i \in DOMAIN list :
          /\ list' = RemoveAt(list, i)
          /\ vcal' = IF i = vcal THEN Freed ELSE IF i < vcal THEN vcal - 1 ELSE vcal
    BY <1>2, <1>8 DEF Delete
  <2>2. ToSet(list') \subseteq ToSet(list)
    <3>1. ToSet(list) = {list[j] : j \in DOMAIN list}
      BY DEF ToSet
    <3>2. OneCal(list)
      BY <1>2 DEF OneCal, HasCal
    <3> QED
      BY <1>2, <2>1, <3>2, RemoveCal
  <2>3. vcal' = 0
    BY <1>2, <2>1, ListWithin
  <2>4. UNCHANGED main
    BY <1>8 DEF Delete
  <2> QED
    BY <1>2, <2>2, <2>3, <2>4, CalIn
<1>9. CASE Rename \/ OpenWrite
  <2>1. main'["addr"] \in {main["addr"], Absent, File(<<>>, TRUE)} /\ UNCHANGED <<list, vcal>>
    BY <1>9 DEF Rename, OpenWrite, Backup, FilesInv, Kinds
  <2>2. Absent.objs = <<>> /\ File(<<>>, TRUE).objs = <<>>
    BY DEF Absent, File
  <2> QED
    BY <1>2, <2>1, <2>2, NoObjects
<1>10. CASE Write \/ WriteCut
  <2>0. UNCHANGED <<list, vcal>>
    BY <1>10 DEF Write, WriteCut
  <2>1. OneCal(Output("addr")) /\ IsList(Output("addr")) /\ ToSet(Output("addr")) \subseteq ToSet(list)
    BY <1>2, OutputSelects DEF OneCal, HasCal
  <2>2. ASSUME Write PROVE ~HasCal(main'["addr"].objs)
    <3>1. main'["addr"] = IF "addr" \in opened THEN File(Output("addr"), TRUE) ELSE main["addr"]
      BY <2>2, WrittenOut DEF Kinds
    <3>2. CASE "addr" \in opened
      <4>1. main'["addr"].objs = Output("addr")
        BY <3>1, <3>2 DEF File
      <4>2. ~HasCal(Output("addr"))
        BY <1>2, <2>1, CalIn
      <4> QED
        BY <4>1, <4>2
    <3>3. CASE "addr" \notin opened
      BY <1>2, <3>1, <3>3
    <3> QED
      BY <3>2, <3>3
  <2>3. ASSUME WriteCut PROVE ~HasCal(main'["addr"].objs)
    <3>1. PICK n \in [opened -> 0 .. Len(list)], whole \in BOOLEAN :
            /\ \A j \in opened : n[j] <= Len(Output(j))
            /\ main' = [j \in Kinds |->
                          IF j \in opened THEN Cut(Output(j), n[j], whole) ELSE main[j]]
      BY <2>3 DEF WriteCut
    <3>2. main'["addr"] = IF "addr" \in opened THEN Cut(Output("addr"), n["addr"], whole)
                          ELSE main["addr"]
      BY <3>1, Zenon DEF Kinds
    <3>3. CASE "addr" \in opened
      <4>1. n["addr"] \in Int /\ n["addr"] <= Len(Output("addr"))
        BY <3>1, <3>3
      <4>2. main'["addr"].objs = SubSeq(Output("addr"), 1, n["addr"])
        BY <3>2, <3>3 DEF Cut, File
      <4>3. ToSet(main'["addr"].objs) \subseteq ToSet(Output("addr"))
        BY <2>1, <4>1, <4>2, PartCal
      <4> QED
        BY <1>2, <2>1, <4>3, CalIn
    <3>4. CASE "addr" \notin opened
      BY <1>2, <3>2, <3>4
    <3> QED
      BY <3>3, <3>4
  <2> QED
    BY <1>2, <1>10, <2>0, <2>2, <2>3
<1>11. CASE PimWrites
  BY <1>2, <1>11 DEF PimWrites
<1> QED
  BY <1>4, <1>5, <1>6, <1>7, <1>8, <1>9, <1>10, <1>11 DEF Next

-----------------------------------------------------------------------------
(* What the run writes is what it has in memory: everything goes to a file *)
(* that is open, and nothing behind the calendar.                          *)
RecsOf(S) == {o \in S : o.t # "VCAL"} \cup UNION {ToSet(o.items) : o \in S}

LEMMA WrittenBack ==
  ASSUME ListsInv, InList, fmt = "vca", "addr" \in opened, "vcal" \in opened => "memo" \in opened,
         NEW fs, \A k \in Kinds : fs[k] = IF k \in opened THEN File(Output(k), TRUE) ELSE Absent
  PROVE  Recs(VcaList(fs)) = Recs(list) /\ \A k \in Kinds : fs[k].whole = TRUE
<1> DEFINE a == fs["addr"].objs
           v == fs["vcal"].objs
           m == fs["memo"].objs
           Out(k) == {o \in ToSet(list) : Dest(o) = k}
<1>0. "addr" \in Kinds /\ "vcal" \in Kinds /\ "memo" \in Kinds /\ IsList(list) /\ OneCal(list)
  BY DEF Kinds, ListsInv, InList
<1>1. ASSUME NEW k \in Kinds PROVE /\ IsList(fs[k].objs) /\ fs[k].whole = TRUE
                                  /\ ToSet(fs[k].objs) = IF k \in opened THEN Out(k) ELSE {}
  <2>1. CASE k \in opened
    <3>1. fs[k] = [there |-> TRUE, objs |-> Output(k), whole |-> TRUE]
      BY <2>1 DEF File
    <3>2. fs[k].objs = Output(k)
      BY <3>1
    <3>3. fs[k].whole = TRUE
      BY <3>1
    <3> QED
      BY <1>0, <2>1, <3>2, <3>3, OutputSelects
  <2>2. CASE k \notin opened
    <3>1. fs[k] = [there |-> FALSE, objs |-> <<>>, whole |-> TRUE]
      BY <2>2 DEF Absent
    <3>2. fs[k].objs = <<>>
      BY <3>1
    <3>3. fs[k].whole = TRUE
      BY <3>1
    <3> QED
      BY <2>2, <3>2, <3>3, NoObjects
  <2> QED
    BY <2>1, <2>2
<1>2. \A o \in ToSet(list) : o.t \in VcaTypes
  BY DEF InList, Objects
<1>3. ToSet(FirstOf(v)) = ToSet(v)
  <2>1. CASE v = <<>>
    BY <2>1 DEF FirstOf
  <2>2. CASE v # <<>>
    <3>1. 1 \in DOMAIN v /\ FirstOf(v) = <<v[1]>>
      BY <1>0, <1>1, <2>2, FirstIs DEF FirstOf
    <3>2. v[1] \in ToSet(v) /\ ToSet(<<v[1]>>) = {v[1]}
      BY <3>1 DEF ToSet
    <3>3. \A o \in ToSet(v) : o \in ToSet(list) /\ o.t = "VCAL"
      <4>1. \A o \in ToSet(v) : o \in ToSet(list) /\ Dest(o) = "vcal" /\ "vcal" \in opened
        BY <1>0, <1>1
      <4> QED
        BY <1>2, <4>1, DestIs
    <3>4. \A o \in ToSet(v) : o = v[1]
      BY <1>0, <3>2, <3>3, CalIn
    <3> QED
      BY <3>1, <3>2, <3>4
  <2> QED
    BY <2>1, <2>2
<1>4. \A o \in ToSet(list) : \E k \in Kinds : o \in ToSet(fs[k].objs)
  <2> TAKE o \in ToSet(list)
  <2>1. Dest(o) \in opened /\ Dest(o) \in Kinds
    BY <1>2, DestIs
  <2> QED
    BY <1>1, <2>1
<1>5. ToSet(VcaList(fs)) = ToSet(list)
  <2>1. IsList(a) /\ IsList(v) /\ IsList(m) /\ IsList(FirstOf(v))
    BY <1>0, <1>1, FirstIs
  <2>2. VcaList(fs) = (a \o FirstOf(v)) \o m
    BY DEF VcaList
  <2>3. ToSet(VcaList(fs)) = ToSet(a) \cup ToSet(v) \cup ToSet(m)
    <3> HIDE DEF a, v, m
    <3>1. IsList(a \o FirstOf(v)) /\ ToSet(a \o FirstOf(v)) = ToSet(a) \cup ToSet(v)
      BY <1>3, <2>1, ListConcat
    <3> QED
      BY <2>1, <2>2, <3>1, ListConcat
  <2>4. \A k \in Kinds : ToSet(fs[k].objs) \subseteq ToSet(list)
    BY <1>1
  <2>5. \A o \in ToSet(list) : o \in ToSet(a) \/ o \in ToSet(v) \/ o \in ToSet(m)
    BY <1>4 DEF Kinds
  <2> QED
    BY <1>0, <2>3, <2>4, <2>5
<1>6. \A os : Recs(os) = RecsOf(ToSet(os))
  BY DEF Recs, RecsOf
<1> QED
  BY <1>1, <1>5, <1>6

(* Memos have a file of their own if events have.                          *)
MemosNamed == \A g \in Given : "vcal" \in g => "memo" \in g

LEMMA ReadBackStep ==
  ASSUME MemosNamed, given \in Given, FilesInv, ListsInv, DoneInv, OtherInv,
         fmt = "vca" => InList, ReadBack, [Next]_pvars
  PROVE  ReadBack'
<1>1. CASE UNCHANGED <<fmt, given, main, saved>>
  BY <1>1 DEF ReadBack, OpenOk, ListOf, Named, Nested
<1>2. CASE saved' = Unknown
  BY <1>2 DEF ReadBack, Unknown
<1>3. CASE UNCHANGED pvars \/ Open \/ OpenError \/ Put \/ Delete \/ Killed
  BY <1>1, <1>3, PutOrCrash DEF pvars, Open, OpenError, Delete, Killed
<1>4. CASE OpenTxt \/ Close \/ PimWrites
  BY <1>2, <1>4 DEF OpenTxt, Close, PimWrites
<1>5. CASE RemoveOld \/ Rename \/ OpenWrite \/ OpenFails
  <2>1. pc = "backup" /\ saved' = saved
    BY <1>5 DEF RemoveOld, Rename, OpenWrite, OpenFails, Backup
  <2> QED
    BY <1>2, <2>1 DEF DoneInv
<1>6. CASE WriteCut
  <2>1. (pc = "write" \/ fmt = "txt") /\ saved' = saved
    BY <1>6 DEF WriteCut
  <2> QED
    BY <1>2, <2>1 DEF DoneInv
<1>7. CASE Write
  <2>1. /\ pc = "write" /\ UNCHANGED <<fmt, given>>
        /\ saved' = IF failed \subseteq {"vcal"} /\ fmt # "txt"
                    THEN [known |-> TRUE, recs |-> Recs(list)] ELSE Unknown
    BY <1>7, Zenon DEF Write
  <2> SUFFICES ASSUME failed \subseteq {"vcal"}, fmt # "txt",
                      \A k \in given' : ~Nested(main'[k])
               PROVE  ReadBack'
    BY <1>2, <2>1 DEF ReadBack
  <2>2. saved'.recs = Recs(list)
    BY <2>1
  <2>3. \A k \in Kinds : k \in opened \/ main[k] = Absent
    <3>1. todo = {}
      BY <2>1 DEF FilesInv
    <3> QED
      BY <2>1, <3>1 DEF DoneInv
  <2>4. "addr" \in opened
    <3>1. todo = {} /\ "addr" \in given /\ "addr" \notin failed
      BY <2>1 DEF FilesInv, DoneInv
    <3> QED
      BY <2>1, <3>1 DEF DoneInv
  <2>5. "vcal" \in opened => "memo" \in opened
    <3>1. todo = {} /\ opened \subseteq given /\ "memo" \notin failed
      BY <2>1 DEF FilesInv
    <3> QED
      BY <2>1, <3>1 DEF DoneInv, MemosNamed
  <2>6. ASSUME NEW k \in Kinds
        PROVE  Named(main)'[k] = IF k \in opened THEN File(Output(k), TRUE) ELSE Absent
    <3>1. main'[k] = IF k \in opened THEN File(Output(k), TRUE) ELSE main[k]
      BY <1>7, WrittenOut
    <3>2. Named(main)'[k] = IF k \in given THEN main'[k] ELSE Absent
      BY <2>1 DEF Named
    <3>3. opened \subseteq given
      BY DEF FilesInv
    <3> QED
      BY <2>3, <3>1, <3>2, <3>3
  <2>7. CASE fmt = "vca"
    <3> DEFINE fs == Named(main)'
    <3>1. \A k \in Kinds : fs[k] = IF k \in opened THEN File(Output(k), TRUE) ELSE Absent
      BY <2>6
    <3>2. OpenOk(Named(main))' <=> \A k \in Kinds : fs[k].whole /\ ~Nested(fs[k])
      BY <2>1, <2>7 DEF OpenOk
    <3>6. ASSUME NEW k \in Kinds PROVE ~Nested(fs[k])
      <4>1. CASE k \in given
        BY <2>1, <4>1 DEF Named
      <4>2. CASE k \notin given
        <5>1. fs[k] = Absent
          BY <2>1, <4>2 DEF Named
        <5> QED
          BY <5>1, NoObjects DEF Absent, Nested, ToSet
      <4> QED
        BY <4>1, <4>2
    <3>3. ListOf(Named(main))' = VcaList(fs)
      BY <2>1, <2>7 DEF ListOf
    <3> HIDE DEF fs
    <3>4. Recs(VcaList(fs)) = Recs(list) /\ \A k \in Kinds : fs[k].whole = TRUE
      BY <2>4, <2>5, <2>7, <3>1, WrittenBack
    <3>5. \A k \in Kinds : fs[k].whole
      BY <3>4
    <3> QED
      BY <2>2, <3>2, <3>3, <3>4, <3>5, <3>6 DEF ReadBack
  <2>8. CASE fmt = "bin"
    <3>1. Named(main)'["addr"] = File(Output("addr"), TRUE)
      BY <2>4, <2>6 DEF Kinds
    <3>2. ListOf(Named(main))' = Output("addr")
      BY <2>1, <2>8, <3>1 DEF ListOf, Readable, File
    <3>3. ToSet(Output("addr")) = ToSet(list)
      <4>1. \A o : Dest(o) = "addr"
        BY <2>8 DEF Dest
      <4> QED
        BY <4>1, OutputSelects DEF ListsInv
    <3>4. \A os : Recs(os) = RecsOf(ToSet(os))
      BY DEF Recs, RecsOf
    <3>5. OpenOk(Named(main))'
      BY <2>1, <2>8 DEF OpenOk
    <3>6. Recs(ListOf(Named(main)))' = Recs(list)
      BY <3>2, <3>3, <3>4
    <3> QED
      BY <2>2, <3>5, <3>6 DEF ReadBack
  <2> QED
    BY <2>7, <2>8 DEF OtherInv
<1> QED
  BY <1>3, <1>4, <1>5, <1>6, <1>7 DEF Next

-----------------------------------------------------------------------------
LEMMA FoundInit ==
  ASSUME CalendarsFound, Init
  PROVE  OtherInv /\ (fmt = "vca" => InMain /\ InList) /\ given \in Given /\ ReadBack
<1>1. main \in Found /\ fmt \in Formats /\ given \in Given /\ list = <<>> /\ vcal = 0 /\ saved = Unknown
  BY DEF Init
<1>2. ReadBack
  BY <1>1 DEF ReadBack, Unknown
<1>3. fmt # "vca" => ~HasCal(main["addr"].objs)
  BY CalIn DEF Init
<1>4. InList
  <2>1. vcal \in Nat /\ ~(vcal > 0) /\ vcal # Freed
    BY <1>1 DEF Freed
  <2>2. OneCal(list) /\ ~HasCal(list) /\ Objects(list)
    BY <1>1, NoObjects DEF Objects
  <2> QED
    BY <2>1, <2>2 DEF InList
<1>5. ASSUME fmt = "vca" PROVE InMain
  <2>0. "addr" \in Kinds /\ "vcal" \in Kinds /\ "memo" \in Kinds /\ Kinds = {"addr", "vcal", "memo"}
    BY DEF Kinds
  <2>1. /\ \A o \in ToSet(main["addr"].objs) : o.t \in VcaTypes
        /\ \A o \in ToSet(main["vcal"].objs) : o.t = "VCAL"
        /\ \A o \in ToSet(main["memo"].objs) : o.t = "VMEMO"
        /\ \A k, l \in Kinds : \A i \in DOMAIN main[k].objs, j \in DOMAIN main[l].objs :
             main[k].objs[i].t = "VCAL" /\ main[l].objs[j].t = "VCAL" => k = l /\ i = j
    BY <1>1, <1>5 DEF CalendarsFound, VcaTypes
  <2>2. \A k \in Kinds : \A o \in ToSet(main[k].objs) : Shaped(o)
    BY <1>1, FoundAssumption DEF Shaped
  <2>3. \A k \in Kinds : OneCal(main[k].objs)
    BY <2>1 DEF OneCal
  <2>4. ~(HasCal(main["addr"].objs) /\ HasCal(main["vcal"].objs))
    BY <2>0, <2>1 DEF HasCal
  <2>5. \A k \in Kinds : Objects(main[k].objs)
    BY <2>0, <2>1, <2>2 DEF Objects, VcaTypes
  <2>6. \A o \in ToSet(main["vcal"].objs) : o.t # "VCARD"
    BY <2>1
  <2> QED
    BY <2>1, <2>3, <2>4, <2>5, <2>6 DEF InMain
<1> QED
  BY <1>1, <1>2, <1>3, <1>4, <1>5, FormatsAssumption, NoObjects DEF OtherInv

FilesAndLists ==
  /\ FilesInv /\ ListsInv /\ DoneInv /\ OtherInv
  /\ fmt = "vca" => InMain /\ InList
  /\ given \in Given

LEMMA FilesAndListsInit == ASSUME CalendarsFound PROVE Init => FilesAndLists
  BY FilesInit, ListsInit, DoneInit, FoundInit DEF FilesAndLists

LEMMA FilesAndListsStep == FilesAndLists /\ [Next]_pvars => FilesAndLists'
<1> SUFFICES ASSUME FilesAndLists, [Next]_pvars PROVE FilesAndLists'
  OBVIOUS
<1> USE DEF FilesAndLists
<1>1. UNCHANGED <<fmt, given>>
  BY Zenon DEF Next, Open, OpenError, OpenTxt, Put, Delete, Close, RemoveOld, Rename, OpenWrite,
               OpenFails, Backup, Write, WriteCut, Killed, PimWrites, pvars
<1>2. FilesInv' /\ ListsInv' /\ DoneInv' /\ OtherInv'
  BY FilesStep, ListsStep, DoneStep, OtherStep
<1>3. fmt' = "vca" => InMain' /\ InList'
  BY <1>1, MainStep, ListStep
<1> QED
  BY <1>1, <1>2, <1>3

(* An undisturbed run, or one that could not open the calendar file only,  *)
(* is read back by the next one: every record it had in memory, and no     *)
(* other, whichever files are named and whatever earlier runs left behind  *)
(* (vca_open, vca_close, bin_open, bin_close).  Memos must have a file of  *)
(* their own where events have: else they are written behind the calendar, *)
(* where vca_open does not read them.                                      *)
THEOREM WrittenIsRead == ASSUME CalendarsFound, MemosNamed PROVE Spec => []ReadBack
<1>1. Init => FilesAndLists /\ ReadBack
  BY FilesAndListsInit, FoundInit
<1>2. FilesAndLists /\ ReadBack /\ [Next]_pvars => FilesAndLists' /\ ReadBack'
  BY FilesAndListsStep, ReadBackStep DEF FilesAndLists
<1> QED
  BY <1>1, <1>2, PTL DEF Spec

LEMMA TypesHold == FilesAndLists => TypeOK
<1> SUFFICES ASSUME FilesAndLists PROVE TypeOK
  OBVIOUS
<1> DEFINE Cals == {i \in DOMAIN list : list[i].t = "VCAL"}
<1>1. /\ pc \in {"idle", "open", "backup", "write"}
      /\ step \in {"remove", "rename", "open"}
      /\ pc = "backup" => todo # {}
      /\ opened \cup failed \subseteq given
  BY DEF FilesAndLists, FilesInv, DoneInv
<1>2. MemosHeld => MemosMoved
  <2>1. \A k : HasMemo(main["vcal"]) \/ HasMemo(back["vcal"]) => MemosMoved
    BY DEF HasMemo, MemosMoved
  <2> QED
    BY <2>1 DEF MemosHeld
<1>3. vcal = 0 => Cals = {}
  BY DEF FilesAndLists, OtherInv, InList, HasCal
<1>4. vcal # 0 => Cals = {vcal} \/ MemosMoved
  BY <1>2 DEF FilesAndLists, OtherInv, InList, OneCal, Freed
<1> QED
  BY <1>1, <1>3, <1>4 DEF TypeOK

(* The lists stay well formed over any number of runs: where vcal points   *)
(* there is the one calendar, or a memo that a file or its backup has      *)
(* among the events (vca_open, vca_putic35rec, vca_delrec).                *)
THEOREM TypeCorrect == ASSUME CalendarsFound PROVE Spec => []TypeOK
  BY FilesAndListsInit, FilesAndListsStep, TypesHold, PTL DEF Spec
=============================================================================
