------------------------ MODULE ConfigGeneratorProofs ------------------------
(***************************************************************************)
(* What ConfigGenerator promises of a text, for inputs of every size.      *)
(***************************************************************************)
EXTENDS ConfigGenerator, Integers, FiniteSetTheorems, SequenceTheorems,
        WellFoundedInduction, TLAPS

-----------------------------------------------------------------------------
(***************************************************************************)
(* Induction.  The theorems of the library that are named so take an       *)
(* operator; this one takes a set.  It follows from FiniteSetTheorems:     *)
(* the finite sets 0 .. n - 1 are well-founded by inclusion.               *)
(***************************************************************************)
\* A set with zero in it, and with every number the next, has them all.
LEMMA SetInduction ==
  ASSUME NEW I, 0 \in I, \A n \in Nat : n \in I => n + 1 \in I
  PROVE  Nat \subseteq I
<1> DEFINE Below(n) == 0 .. (n - 1)
           Bad == {U \in FiniteSubsetsOf(Nat) : \E n \in Nat : n \notin I /\ U = Below(n)}
<1>1. SUFFICES ASSUME NEW m \in Nat, m \notin I PROVE FALSE   OBVIOUS
<1>2. ASSUME NEW n \in Nat PROVE Below(n) \in FiniteSubsetsOf(Nat)   BY FS_Interval DEF FiniteSubsetsOf
<1>3. Bad \subseteq FiniteSubsetsOf(Nat) /\ Bad # {}   BY <1>1, <1>2
<1>4. PICK U \in Bad : \A V \in Bad : <<V, U>> \notin StrictSubsetOrdering(Nat)
  <2>1. IsWellFoundedOn(StrictSubsetOrdering(Nat), FiniteSubsetsOf(Nat))  BY FS_StrictSubsetOrderingWellFounded
  <2> HIDE DEF Bad
  <2> QED BY <2>1, <1>3, WFMin
<1>5. PICK n \in Nat : n \notin I /\ U = Below(n)   OBVIOUS
<1>6. n # 0 /\ n - 1 \in Nat /\ n - 1 \notin I   BY <1>5
<1>7. Below(n - 1) \in Bad   BY <1>6, <1>2
<1>8. <<Below(n - 1), U>> \in StrictSubsetOrdering(Nat)
  <2>1. Below(n - 1) \subseteq U /\ n - 1 \in U /\ n - 1 \notin Below(n - 1)   BY <1>5, <1>6
  <2>2. U \in SUBSET Nat /\ Below(n - 1) \in SUBSET Nat   BY <1>5
  <2> QED BY <2>1, <2>2 DEF StrictSubsetOrdering
<1> QED BY <1>4, <1>7, <1>8

-----------------------------------------------------------------------------
(***************************************************************************)
(* FlattenSeq.  The recursive function it is defined by exists, and its    *)
(* result is the sequences laid out one after the other.                   *)
(***************************************************************************)
\* f[i] is the first i sequences of ss put together.
IsFlattening(f, ss) ==
  f = [i \in 1..Len(ss) |-> IF i = 1 THEN ss[i] ELSE f[i - 1] \o ss[i]]

LEMMA FlattenIsChosen ==
  ASSUME NEW ss, Len(ss) # 0
  PROVE  FlattenSeq(ss) = (CHOOSE f : IsFlattening(f, ss))[Len(ss)]
BY DEF FlattenSeq, IsFlattening

\* off[i] places come before those of ss[i] when the sequences of ss are
\* put one after the other; t is the result.
Laid(off, t, ss, n) ==
  /\ off[1] = 0 /\ Len(t) = off[n + 1]
  /\ \A i \in 1..n : off[i + 1] = off[i] + Len(ss[i])
  /\ \A i, k \in 1..n + 1 : i <= k => off[i] <= off[k]
  /\ \A i \in 1..n : \A j \in 1..Len(ss[i]) : t[off[i] + j] = ss[i][j]
  /\ \A p \in 1..Len(t) : \E i \in 1..n : off[i] < p /\ p <= off[i + 1]

\* With one more sequence, laid out where the others end.
LEMMA LaidNext ==
  ASSUME NEW T, NEW ss \in Seq(Seq(T)), NEW n \in Nat, n + 1 <= Len(ss),
         NEW t \in Seq(T), NEW off \in [1..n + 1 -> Nat], Laid(off, t, ss, n)
  PROVE  \E o \in [1..n + 2 -> Nat] : Laid(o, t \o ss[n + 1], ss, n + 1)
<1> DEFINE s == ss[n + 1]
           u == t \o s
           o == [i \in 1..n + 2 |-> IF i = n + 2 THEN Len(t) + Len(s) ELSE off[i]]
<1>1. s \in Seq(T) /\ Len(s) \in Nat /\ Len(t) \in Nat
  OBVIOUS
<1>2. /\ u \in Seq(T) /\ Len(u) = Len(t) + Len(s)
      /\ \A i \in 1..Len(t) : u[i] = t[i]
      /\ \A i \in 1..Len(s) : u[Len(t) + i] = s[i]
  BY <1>1
<1>3. \A i \in 1..n : ss[i] \in Seq(T) /\ Len(ss[i]) \in Nat
  OBVIOUS
<1>4. o \in [1..n + 2 -> Nat] /\ o[n + 2] = Len(t) + Len(s)
      /\ \A i \in 1..n + 1 : o[i] = off[i]
  BY <1>1
<1> HIDE DEF s, u, o
<1>5. off[n + 1] = Len(t) /\ o[n + 1] = Len(t)
  BY <1>4 DEF Laid
<1>6. o[1] = 0 /\ Len(u) = o[n + 2]
  BY <1>2, <1>4 DEF Laid
<1>7. \A i \in 1..n + 1 : o[i + 1] = o[i] + Len(ss[i])
  <2> TAKE i \in 1..n + 1
  <2>1. CASE i = n + 1
    BY <2>1, <1>4, <1>5 DEF s
  <2>2. CASE i # n + 1
    BY <2>2, <1>4 DEF Laid
  <2> QED
    BY <2>1, <2>2
<1>8. \A i, k \in 1..n + 2 : i <= k => o[i] <= o[k]
  <2> TAKE i, k \in 1..n + 2
  <2>1. \A m \in 1..n + 1 : off[m] <= off[n + 1]
    BY DEF Laid
  <2>2. \A m \in 1..n + 1 : o[m] <= o[n + 2]
    BY <2>1, <1>1, <1>4, <1>5
  <2>3. CASE k = n + 2
    <3>1. CASE i = n + 2
      BY <2>3, <3>1, <1>1, <1>4
    <3>2. CASE i # n + 2
      BY <2>2, <2>3, <3>2
    <3> QED
      BY <3>1, <3>2
  <2>4. CASE k # n + 2
    <3> SUFFICES ASSUME i <= k PROVE o[i] <= o[k]
      OBVIOUS
    <3>1. i \in 1..n + 1 /\ k \in 1..n + 1
      BY <2>4
    <3>2. off[i] <= off[k]
      BY <3>1 DEF Laid
    <3> QED
      BY <3>1, <3>2, <1>4
  <2> QED
    BY <2>3, <2>4
<1>9. \A i \in 1..n + 1 : \A j \in 1..Len(ss[i]) : u[o[i] + j] = ss[i][j]
  <2> TAKE i \in 1..n + 1
  <2> TAKE j \in 1..Len(ss[i])
  <2>1. CASE i = n + 1
    BY <2>1, <1>2, <1>5 DEF s
  <2>2. CASE i # n + 1
    <3>1. i \in 1..n /\ off[i + 1] = off[i] + Len(ss[i]) /\ off[i + 1] <= Len(t)
      BY <2>2, <1>5 DEF Laid
    <3>2. off[i] + j \in 1..Len(t)
      <4> DEFINE a == off[i]
                 b == off[i + 1]
                 c == Len(ss[i])
      <4>1. a \in Nat /\ b \in Nat /\ c \in Nat /\ j \in 1..c /\ b = a + c /\ b <= Len(t)
        BY <3>1, <1>3
      <4> HIDE DEF a, b, c
      <4> QED
        <5>1. a + j \in 1..Len(t)
          BY <4>1, <1>1
        <5> QED
          BY <5>1 DEF a
    <3> QED
      BY <3>1, <3>2, <1>2, <1>4 DEF Laid
  <2> QED
    BY <2>1, <2>2
<1>10. \A p \in 1..Len(u) : \E i \in 1..n + 1 : o[i] < p /\ p <= o[i + 1]
  <2> TAKE p \in 1..Len(u)
  <2>1. CASE p <= Len(t)
    <3>1. PICK i \in 1..n : off[i] < p /\ p <= off[i + 1]
      BY <2>1, <1>1 DEF Laid
    <3> QED
      BY <3>1, <1>4
  <2>2. CASE p > Len(t)
    BY <2>2, <1>1, <1>2, <1>4, <1>5
  <2> QED
    BY <2>1, <2>2, <1>1
<1>11. (n + 1) + 1 = n + 2
  OBVIOUS
<1>12. Laid(o, u, ss, n + 1)
  BY <1>6, <1>7, <1>8, <1>9, <1>10, <1>11 DEF Laid
<1> QED
  BY <1>4, <1>12 DEF u, s

\* The recursive function in FlattenSeq exists.
LEMMA FlatteningExists ==
  ASSUME NEW T, NEW ss \in Seq(Seq(T)), Len(ss) # 0
  PROVE  IsFlattening(CHOOSE f : IsFlattening(f, ss), ss)
<1> DEFINE First(g, n) == \A i \in 1..n : g[i] = IF i = 1 THEN ss[i] ELSE g[i - 1] \o ss[i]
           P(n) == n <= Len(ss) => \E g \in [1..n -> Seq(T)] : First(g, n)
           I == {n \in Nat : P(n)}
<1>1. P(0)
  <2> DEFINE g == [i \in 1..0 |-> ss[i]]
  <2>1. g \in [1..0 -> Seq(T)] /\ First(g, 0)
    OBVIOUS
  <2> QED
    BY <2>1
<1>2. ASSUME NEW n \in Nat, P(n) PROVE P(n + 1)
  <2> SUFFICES ASSUME n + 1 <= Len(ss)
               PROVE  \E g \in [1..n + 1 -> Seq(T)] : First(g, n + 1)
    OBVIOUS
  <2>0. n <= Len(ss)
    OBVIOUS
  <2>1. PICK g \in [1..n -> Seq(T)] : First(g, n)
    BY <1>2, <2>0
  <2> DEFINE last == IF n = 0 THEN ss[1] ELSE g[n] \o ss[n + 1]
             h == [i \in 1..n + 1 |-> IF i = n + 1 THEN last ELSE g[i]]
  <2>2. last \in Seq(T)
    <3>1. ss[n + 1] \in Seq(T) /\ ss[1] \in Seq(T)
      OBVIOUS
    <3>2. n # 0 => g[n] \o ss[n + 1] \in Seq(T)
      BY <3>1, ConcatProperties
    <3> QED
      BY <3>1, <3>2
  <2>3. /\ n = 0 => last = ss[1]
        /\ n # 0 => last = g[n] \o ss[n + 1]
    OBVIOUS
  <2> HIDE DEF last
  <2>4. h \in [1..n + 1 -> Seq(T)] /\ h[n + 1] = last /\ \A i \in 1..n : h[i] = g[i]
    BY <2>2
  <2> HIDE DEF h
  <2>5. ASSUME NEW i \in 1..n + 1
        PROVE  h[i] = IF i = 1 THEN ss[i] ELSE h[i - 1] \o ss[i]
    <3>1. CASE i = n + 1 /\ n = 0
      BY <2>3, <2>4, <3>1
    <3>2. CASE i = n + 1 /\ n # 0
      <4>1. i - 1 = n /\ n \in 1..n /\ i # 1
        BY <3>2
      <4> QED
        BY <4>1, <2>3, <2>4, <3>2
    <3>3. CASE i # n + 1
      <4>1. i \in 1..n /\ (i # 1 => i - 1 \in 1..n)
        BY <3>3
      <4> QED
        BY <4>1, <2>1, <2>4
    <3> QED
      BY <3>1, <3>2, <3>3
  <2> QED
    BY <2>4, <2>5
<1> HIDE DEF P
<1>3. Len(ss) \in I
  <2>1. 0 \in I /\ \A n \in Nat : n \in I => n + 1 \in I
    BY <1>1, <1>2
  <2> HIDE DEF I
  <2> QED
    BY <2>1, SetInduction
<1>4. PICK g \in [1..Len(ss) -> Seq(T)] : First(g, Len(ss))
  BY <1>3 DEF P
<1>5. IsFlattening(g, ss)
  BY <1>4 DEF IsFlattening
<1> QED
  BY <1>5

\* Where the elements of FlattenSeq(ss) come from.
LEMMA FlattenLaid ==
  ASSUME NEW T, NEW ss \in Seq(Seq(T))
  PROVE  /\ FlattenSeq(ss) \in Seq(T)
         /\ \E off \in [1..Len(ss) + 1 -> Nat] :
              Laid(off, FlattenSeq(ss), ss, Len(ss))
<1>1. CASE Len(ss) = 0
  <2>1. FlattenSeq(ss) = ss /\ ss = <<>>
    BY <1>1 DEF FlattenSeq
  <2>2. Laid([i \in 1..1 |-> 0], <<>>, ss, 0) /\ <<>> \in Seq(T)
    BY DEF Laid
  <2> QED
    BY <1>1, <2>1, <2>2
<1>2. CASE Len(ss) # 0
  <2> DEFINE f == CHOOSE f : IsFlattening(f, ss)
             LaidUpTo(n) == \E off \in [1..n + 1 -> Nat] : Laid(off, f[n], ss, n)
             P(n) == n + 1 <= Len(ss) => f[n + 1] \in Seq(T) /\ LaidUpTo(n + 1)
             I == {n \in Nat : P(n)}
  <2>1. FlattenSeq(ss) = f[Len(ss)] /\ IsFlattening(f, ss)
    BY <1>2, FlattenIsChosen, FlatteningExists
  <2> HIDE DEF f
  <2>2. P(0)
    <3>1. f[1] = ss[1] /\ ss[1] \in Seq(T)
      BY <1>2, <2>1 DEF IsFlattening
    <3> DEFINE off == [i \in 1..2 |-> IF i = 1 THEN 0 ELSE Len(ss[1])]
    <3>2. off \in [1..2 -> Nat] /\ Laid(off, ss[1], ss, 1)
      BY <3>1 DEF Laid
    <3>3. 0 + 1 = 1 /\ 1 + 1 = 2
      OBVIOUS
    <3> HIDE DEF off
    <3> QED
      BY <3>1, <3>2, <3>3
  <2>3. ASSUME NEW n \in Nat, P(n) PROVE P(n + 1)
    <3> SUFFICES ASSUME n + 2 <= Len(ss)
                 PROVE  f[n + 2] \in Seq(T) /\ LaidUpTo(n + 2)
      <4>1. (n + 1) + 1 = n + 2
        OBVIOUS
      <4> HIDE DEF LaidUpTo
      <4> QED
        BY <4>1
    <3>1. f[n + 2] = f[n + 1] \o ss[n + 2]
      <4>1. n + 2 \in 1..Len(ss) /\ n + 2 # 1 /\ (n + 2) - 1 = n + 1
        OBVIOUS
      <4> QED
        BY <4>1, <2>1 DEF IsFlattening
    <3>2. f[n + 1] \in Seq(T) /\ LaidUpTo(n + 1) /\ ss[n + 2] \in Seq(T)
      <4>1. n + 1 <= Len(ss) /\ n + 2 \in 1..Len(ss)
        OBVIOUS
      <4> HIDE DEF LaidUpTo
      <4> QED
        BY <2>3, <4>1
    <3>3. /\ (n + 1) + 1 = n + 2 /\ (n + 1) + 2 = n + 3 /\ (n + 2) + 1 = n + 3
          /\ n + 1 \in Nat
      OBVIOUS
    <3>4. f[n + 2] \in Seq(T)
      BY <3>1, <3>2, ConcatProperties
    <3>5. PICK off \in [1..n + 2 -> Nat] : Laid(off, f[n + 1], ss, n + 1)
      BY <3>2, <3>3
    <3>6. \E o \in [1..n + 3 -> Nat] : Laid(o, f[n + 1] \o ss[n + 2], ss, n + 2)
      <4> DEFINE m == n + 1
      <4>1. \E o \in [1..m + 2 -> Nat] : Laid(o, f[m] \o ss[m + 1], ss, m + 1)
        <5>1. m \in Nat /\ m + 1 <= Len(ss) /\ off \in [1..m + 1 -> Nat]
          BY <3>3
        <5>2. f[m] \in Seq(T) /\ Laid(off, f[m], ss, m)
          BY <3>2, <3>5
        <5> HIDE DEF m, LaidUpTo
        <5> QED
          BY <5>1, <5>2, LaidNext
      <4> QED
        BY <4>1, <3>3
    <3> QED
      BY <3>1, <3>3, <3>4, <3>6
  <2> HIDE DEF P
  <2>4. Len(ss) - 1 \in I
    <3>1. Len(ss) - 1 \in Nat
      BY <1>2
    <3>2. 0 \in I /\ \A n \in Nat : n \in I => n + 1 \in I
      BY <2>2, <2>3
    <3> HIDE DEF I
    <3> QED
      BY <3>1, <3>2, SetInduction
  <2> QED
    <3>1. P(Len(ss) - 1) /\ (Len(ss) - 1) + 1 = Len(ss)
      BY <2>4
    <3> QED
      BY <2>1, <3>1 DEF P
<1> QED
  BY <1>1, <1>2

-----------------------------------------------------------------------------
(***************************************************************************)
(* Parts of a sequence.                                                    *)
(***************************************************************************)
\* t stands in s, after a places.
At(s, t, a) == \A j \in 1..Len(t) : a + j \in 1..Len(s) /\ s[a + j] = t[j]

\* Both parts of a concatenation stand in it, and nothing else does.
LEMMA ConcatAt ==
  ASSUME NEW T, NEW s \in Seq(T), NEW t \in Seq(T)
  PROVE  /\ s \o t \in Seq(T) /\ Len(s \o t) = Len(s) + Len(t)
         /\ At(s \o t, s, 0) /\ At(s \o t, t, Len(s))
         /\ \A p \in 1..Len(s \o t) :
              \/ p \in 1..Len(s) /\ (s \o t)[p] = s[p]
              \/ p - Len(s) \in 1..Len(t) /\ (s \o t)[p] = t[p - Len(s)]
BY DEF At

\* A part of a part is a part.
LEMMA AtAt ==
  ASSUME NEW s, NEW t, NEW u, NEW a \in Nat, NEW b \in Nat,
         At(s, t, a), At(t, u, b)
  PROVE  At(s, u, a + b)
<1> SUFFICES ASSUME NEW j \in 1..Len(u)
             PROVE  (a + b) + j \in 1..Len(s) /\ s[(a + b) + j] = u[j]
  BY DEF At
<1>1. b + j \in 1..Len(t) /\ t[b + j] = u[j]
  BY DEF At
<1>2. a + (b + j) \in 1..Len(s) /\ s[a + (b + j)] = t[b + j]
  BY <1>1 DEF At
<1>3. a + (b + j) = (a + b) + j
  BY <1>1
<1> QED
  BY <1>1, <1>2, <1>3

\* The sequences of ss stand in FlattenSeq(ss), each at its offset, and every
\* place there belongs to one of them.
LEMMA FlattenAt ==
  ASSUME NEW T, NEW ss \in Seq(Seq(T))
  PROVE  /\ FlattenSeq(ss) \in Seq(T)
         /\ \E off \in [1..Len(ss) + 1 -> Nat] :
              /\ Len(FlattenSeq(ss)) = off[Len(ss) + 1]
              /\ \A k \in 1..Len(ss) : At(FlattenSeq(ss), ss[k], off[k])
              /\ \A i, k \in 1..Len(ss) : i < k => off[i] + Len(ss[i]) <= off[k]
              /\ \A p \in 1..Len(FlattenSeq(ss)) :
                   \E k \in 1..Len(ss) : p - off[k] \in 1..Len(ss[k])
<1>1. FlattenSeq(ss) \in Seq(T)
  BY FlattenLaid
<1>2. PICK off \in [1..Len(ss) + 1 -> Nat] :
        Laid(off, FlattenSeq(ss), ss, Len(ss))
  BY FlattenLaid
<1> DEFINE t == FlattenSeq(ss)
           n == Len(ss)
<1>3. n \in Nat /\ Len(t) \in Nat /\ \A k \in 1..n : Len(ss[k]) \in Nat
  BY <1>1
<1>4. Laid(off, t, ss, n) /\ off \in [1..n + 1 -> Nat]
  BY <1>2
<1> HIDE DEF t, n
<1>5. Len(t) = off[n + 1]
  BY <1>4 DEF Laid
<1>6. ASSUME NEW k \in 1..n PROVE At(t, ss[k], off[k])
  <2> SUFFICES ASSUME NEW j \in 1..Len(ss[k])
               PROVE  off[k] + j \in 1..Len(t) /\ t[off[k] + j] = ss[k][j]
    BY DEF At
  <2>1. k \in 1..n + 1 /\ k + 1 \in 1..n + 1 /\ n + 1 \in 1..n + 1 /\ k + 1 <= n + 1
    BY <1>3
  <2>2. off[k + 1] = off[k] + Len(ss[k]) /\ off[k + 1] <= off[n + 1]
    BY <1>4, <2>1 DEF Laid
  <2>3. off[k] \in Nat /\ Len(ss[k]) \in Nat /\ off[k + 1] \in Nat
    BY <1>3, <1>4, <2>1
  <2>4. off[k] + j \in 1..Len(t)
    <3> DEFINE a == off[k]
               c == Len(ss[k])
    <3>1. a \in Nat /\ c \in Nat /\ a + c <= Len(t) /\ j \in 1..c
      BY <2>2, <2>3, <1>5
    <3> HIDE DEF a, c
    <3>2. a + j \in 1..Len(t)
      BY <3>1, <1>3
    <3> QED
      BY <3>2 DEF a
  <2>5. t[off[k] + j] = ss[k][j]
    BY <1>4 DEF Laid
  <2> QED
    BY <2>4, <2>5
<1>7. ASSUME NEW i \in 1..n, NEW k \in 1..n, i < k
      PROVE  off[i] + Len(ss[i]) <= off[k]
  <2>1. i + 1 \in 1..n + 1 /\ k \in 1..n + 1 /\ i + 1 <= k
    BY <1>3, <1>7
  <2> QED
    BY <1>4, <2>1 DEF Laid
<1>8. ASSUME NEW p \in 1..Len(t)
      PROVE  \E k \in 1..n : p - off[k] \in 1..Len(ss[k])
  <2>1. PICK k \in 1..n : off[k] < p /\ p <= off[k + 1]
    BY <1>4 DEF Laid
  <2> DEFINE a == off[k]
             c == Len(ss[k])
  <2>2. a \in Nat /\ c \in Nat /\ off[k + 1] = a + c
    BY <1>3, <1>4 DEF Laid
  <2>3. a < p /\ p <= a + c
    BY <2>1, <2>2
  <2> HIDE DEF a, c
  <2>4. p - a \in 1..c
    BY <2>2, <2>3
  <2> QED
    BY <2>4 DEF a, c
<1>9. Len(t) = off[n + 1] /\ off \in [1..n + 1 -> Nat]
  BY <1>4, <1>5
<1> QED
  BY <1>1, <1>6, <1>7, <1>8, <1>9 DEF t, n

-----------------------------------------------------------------------------
(***************************************************************************)
(* The texts of the parts.                                                 *)
(***************************************************************************)
\* Upstream blocks and what stands around the routes define no server of theirs.
MainTokens == {t \in Tokens : /\ t.kind \notin {"upstream", "location", "proxy_pass"}
                              /\ t.kind = "server" => t.name = NoName}
UpstreamTokens == {t \in Tokens : t.kind \in {"upstream", ""}}
\* What stands in a server block before its locations.
HeadTokens == {t \in Tokens :
                 /\ t.token = "directive"
                 /\ t.kind \in {"limit_req_zone", "listen_ssl",
                                "ssl_certificate", "limit_req"}}
LocationTokens == {t \in Tokens : t.kind \notin {"server", "upstream"}}

\* One token is a text, and so are no tokens.
LEMMA ShortTexts ==
  ASSUME NEW T
  PROVE  /\ <<>> \in Seq(T)
         /\ \A t \in T : <<t>> \in Seq(T) /\ Len(<<t>>) = 1 /\ <<t>>[1] = t
         /\ \A c : \A s \in Seq(T) : OnlyIf(c, s) \in Seq(T)
BY DEF OnlyIf

\* The tokens there are.
LEMMA TokensTyped ==
  /\ NoName \in NamesInTexts
  /\ Close \in Tokens /\ Close.token = "close" /\ Close.kind = ""
  /\ \A kind \in KindsInTexts, name \in NamesInTexts :
       /\ Open(kind, name) \in Tokens /\ Directive(kind, name) \in Tokens
       /\ Open(kind, name).token = "open" /\ Directive(kind, name).token = "directive"
       /\ Open(kind, name).kind = kind /\ Directive(kind, name).kind = kind
       /\ Open(kind, name).name = name /\ Directive(kind, name).name = name
<1>1. NoName \in NamesInTexts
  BY DEF NamesInTexts
<1> QED
  BY <1>1 DEF Tokens, Close, Open, Directive, KindsInTexts

\* The names that stand in texts.
LEMMA NamesTyped ==
  /\ RouteNames \subseteq NamesInTexts /\ Paths \subseteq NamesInTexts
  /\ \A name \in UpstreamNames \cup RouteNames : Qualified(name) \in NamesInTexts
  /\ \A route \in RouteInputs, location \in Locations :
       LocationZoneName(route, location) \in NamesInTexts
<1>1. /\ RouteNames \subseteq NamesInTexts /\ Paths \subseteq NamesInTexts
      /\ \A name \in UpstreamNames \cup RouteNames : Qualified(name) \in NamesInTexts
  BY DEF NamesInTexts
<1>2. ASSUME NEW route \in RouteInputs, NEW location \in Locations
      PROVE  LocationZoneName(route, location) \in NamesInTexts
  <2> DEFINE r == [name |-> route.name]
             l == [path |-> location.path]
  <2>1. r \in [name : RouteNames] /\ l \in [path : Paths]
    BY DEF RouteInputs, Locations
  <2>2. LocationZoneName(r, l) = LocationZoneName(route, location)
    BY DEF LocationZoneName
  <2> HIDE DEF r, l
  <2> QED
    BY <2>1, <2>2 DEF NamesInTexts
<1> QED
  BY <1>1, <1>2

\* The main configuration has no upstream, location or proxied name, and its
\* only server is the nameless one for monitoring.
LEMMA MainText == GenerateMainConfig \in Seq(MainTokens)
<1>1. /\ Close \in MainTokens
      /\ Open("events", NoName) \in MainTokens /\ Open("http", NoName) \in MainTokens
      /\ Open("server", NoName) \in MainTokens
      /\ Directive("include", NoName) \in MainTokens
  <2>1. NoName \in NamesInTexts
    BY TokensTyped
  <2> QED
    BY <2>1 DEF MainTokens, Tokens, Open, Close, Directive, KindsInTexts
<1> DEFINE a == <<Open("events", NoName), Close, Open("http", NoName)>>
           b == <<Open("server", NoName), Close>>
           c == <<Directive("include", NoName), Close>>
<1>2. a \in Seq(MainTokens) /\ b \in Seq(MainTokens) /\ c \in Seq(MainTokens)
  BY <1>1
<1> HIDE DEF a, b, c
<1>3. (a \o OnlyIf(monitoring, b)) \o c \in Seq(MainTokens)
  BY <1>2, ShortTexts, ConcatAt
<1> QED
  BY <1>3 DEF GenerateMainConfig, a, b, c

\* What a location does is one directive, or nothing.
LEMMA ActionText ==
  ASSUME NEW l \in Locations
  PROVE  \/ Action(l) = <<>> /\ l.upstreamRef = NoName /\ l.others = {}
         \/ \E kind, name :
              /\ name \in NamesInTexts /\ kind \in ActionKinds
              /\ Action(l) = <<Directive(kind, name)>>
              /\ IF l.upstreamRef # NoName
                   THEN kind = "proxy_pass" /\ name = Qualified(l.upstreamRef)
                   ELSE kind # "proxy_pass" /\ kind \in l.others
<1>1. /\ l.upstreamRef \in UpstreamNames \cup {NoName}
      /\ l.others \subseteq Range(ActionOrder)
  BY GeneratorAssumption DEF Locations
<1>2. CASE l.upstreamRef # NoName
  BY <1>1, <1>2, NamesTyped DEF Action, ActionKinds
<1>3. CASE l.upstreamRef = NoName
  <2> DEFINE set == {i \in DOMAIN ActionOrder : ActionOrder[i] \in l.others}
             first == CHOOSE i \in set : \A j \in set : i <= j
  <2>1. DOMAIN ActionOrder = 1..3
    BY DEF ActionOrder
  <2>2. Action(l) = OnlyIf(set # {}, <<Directive(ActionOrder[first], NoName)>>)
    BY <1>3 DEF Action
  <2>3. CASE set = {}
    <3>1. l.others = {}
      BY <1>1, <2>3 DEF Range
    <3> QED
      BY <1>3, <2>2, <2>3, <3>1 DEF OnlyIf
  <2>4. CASE set # {}
    <3>1. \E i \in set : \A j \in set : i <= j
      <4>1. set \subseteq {1, 2, 3}
        BY <2>1
      <4> HIDE DEF set
      <4>2. CASE 1 \in set
        BY <4>1, <4>2
      <4>3. CASE 1 \notin set /\ 2 \in set
        BY <4>1, <4>3
      <4>4. CASE 1 \notin set /\ 2 \notin set
        <5>1. set = {3}
          BY <2>4, <4>1, <4>4
        <5> QED
          BY <5>1
      <4> QED
        BY <4>2, <4>3, <4>4
    <3>2. first \in set
      BY <3>1
    <3> HIDE DEF first
    <3>3. /\ ActionOrder[first] \in l.others
          /\ ActionOrder[first] \in Range(ActionOrder)
      BY <3>2 DEF Range
    <3>4. \A i \in 1..3 : ActionOrder[i] # "proxy_pass"
      BY DEF ActionOrder
    <3>5. ActionOrder[first] \in ActionKinds /\ ActionOrder[first] # "proxy_pass"
      BY <2>1, <3>2, <3>3, <3>4 DEF ActionKinds
    <3>6. Action(l) = <<Directive(ActionOrder[first], NoName)>>
      BY <2>2, <2>4 DEF OnlyIf
    <3>7. NoName \in NamesInTexts
      BY TokensTyped
    <3> HIDE DEF set
    <3> QED
      BY <1>3, <3>3, <3>5, <3>6, <3>7
  <2> QED
    BY <2>3, <2>4
<1> QED
  BY <1>2, <1>3

\* A location is one block: it opens, has a directive for what it does and
\* perhaps a rate limit, and closes.
LEMMA LocationText ==
  ASSUME NEW route \in RouteInputs, NEW l \in Locations
  PROVE  LET t == LocationConfig(route, l)
         IN /\ t \in Seq(LocationTokens) /\ Len(t) \in Nat /\ Len(t) >= 2
            /\ t[1] = Open("location", l.path) /\ t[Len(t)] = Close
            /\ \A j \in 2..Len(t) - 1 : /\ t[j].token = "directive"
                                         /\ \/ t[j].kind = "limit_req"
                                            \/ Action(l) = <<t[j]>>
            /\ Action(l) # <<>> => \E j \in 2..Len(t) - 1 : Action(l) = <<t[j]>>
            /\ \A j \in 1..Len(t) : t[j].kind = "proxy_pass" => Action(l) = <<t[j]>>
<1> DEFINE o == Open("location", l.path)
           a == Action(l)
           d == Directive("limit_req", LocationZoneName(route, l))
           z == OnlyIf(l.limited, <<d>>)
           T == LocationTokens
           t1 == <<o>> \o a
           t2 == t1 \o z
           t == t2 \o <<Close>>
<1>1. o \in T /\ o.kind = "location" /\ Close \in T /\ Close.kind = ""
  <2>1. l.path \in NamesInTexts
    BY NamesTyped DEF Locations
  <2>2. NoName \in NamesInTexts
    BY TokensTyped
  <2> QED
    BY <2>1, <2>2 DEF LocationTokens, Tokens, KindsInTexts, Open, Close
<1>2. d \in T /\ d.token = "directive" /\ d.kind = "limit_req"
  <2>1. LocationZoneName(route, l) \in NamesInTexts
    BY NamesTyped
  <2> QED
    BY <2>1 DEF LocationTokens, Tokens, KindsInTexts, Directive
<1>3. \/ a = <<>>
      \/ \E e \in T : a = <<e>> /\ e.token = "directive"
  <2>1. ASSUME NEW kind, NEW name, name \in NamesInTexts, kind \in ActionKinds
        PROVE  /\ Directive(kind, name) \in T
               /\ Directive(kind, name).token = "directive"
    <3>1. kind \in {"proxy_pass", "proxyPass", "staticContent", "return"}
      BY <2>1 DEF ActionKinds, ActionOrder, Range
    <3>2. kind \in KindsInTexts /\ kind \notin {"server", "upstream"}
      BY <3>1 DEF KindsInTexts
    <3> QED
      BY <2>1, <3>2 DEF LocationTokens, Tokens, Directive
  <2> QED
    BY <2>1, ActionText
<1>4. z = <<>> \/ z = <<d>>
  BY DEF OnlyIf
<1>5. LocationConfig(route, l) = t
  BY DEF LocationConfig
<1> HIDE DEF o, a, d, z, T
<1>6. <<o>> \in Seq(T) /\ a \in Seq(T) /\ z \in Seq(T) /\ <<Close>> \in Seq(T)
  BY <1>1, <1>2, <1>3, <1>4, ShortTexts
<1>7. /\ t1 \in Seq(T) /\ Len(t1) = 1 + Len(a)
      /\ t1[1] = o /\ \A j \in 1..Len(t1) :
                      j = 1 \/ (j - 1 \in 1..Len(a) /\ t1[j] = a[j - 1])
      /\ \A j \in 1..Len(a) : t1[1 + j] = a[j]
  BY <1>6
<1> HIDE DEF t1
<1>8. /\ t2 \in Seq(T) /\ Len(t2) = Len(t1) + Len(z)
      /\ \A j \in 1..Len(t1) : t2[j] = t1[j]
      /\ \A j \in 1..Len(t2) : j \in 1..Len(t1) \/ (j - Len(t1) \in 1..Len(z) /\ t2[j] = z[j - Len(t1)])
  BY <1>6, <1>7
<1> HIDE DEF t2
<1>9. /\ t \in Seq(T) /\ Len(t) = Len(t2) + 1 /\ t[Len(t)] = Close
      /\ \A j \in 1..Len(t2) : t[j] = t2[j]
  BY <1>6, <1>8
<1> HIDE DEF t
<1>10. Len(a) \in {0, 1} /\ Len(z) \in {0, 1}
       /\ (a # <<>> => Len(a) = 1 /\ a = <<a[1]>>)
       /\ (Len(a) = 1 => a[1].token = "directive" /\ a = <<a[1]>>)
       /\ (Len(z) = 1 => z[1] = d)
  BY <1>3, <1>4
<1>11. Len(t) \in Nat /\ Len(t) >= 2 /\ t[1] = o
  BY <1>7, <1>8, <1>9, <1>10
<1>12. ASSUME NEW j \in 2..Len(t) - 1
       PROVE  t[j].token = "directive" /\ (t[j].kind = "limit_req" \/ a = <<t[j]>>)
  <2>1. j \in 1..Len(t2) /\ t[j] = t2[j]
    BY <1>7, <1>8, <1>9, <1>10
  <2>2. CASE j \in 1..Len(t1)
    <3>1. j - 1 \in 1..Len(a) /\ t2[j] = a[j - 1]
      BY <2>2, <1>7, <1>8
    <3>2. Len(a) = 1 /\ j - 1 = 1
      BY <3>1, <1>10
    <3> QED
      BY <2>1, <3>1, <3>2, <1>10
  <2>3. CASE j - Len(t1) \in 1..Len(z) /\ t2[j] = z[j - Len(t1)]
    <3>1. Len(z) = 1 /\ j - Len(t1) = 1
      BY <2>3, <1>10
    <3> QED
      BY <2>1, <2>3, <3>1, <1>2, <1>10
  <2> QED
    BY <2>1, <2>2, <2>3, <1>8
<1>13. a # <<>> => \E j \in 2..Len(t) - 1 : a = <<t[j]>>
  <2> SUFFICES ASSUME a # <<>> PROVE a = <<t[2]>> /\ 2 \in 2..Len(t) - 1
    OBVIOUS
  <2>1. Len(a) = 1 /\ a = <<a[1]>> /\ 1 \in 1..Len(a)
    BY <1>10
  <2>2. t1[2] = a[1] /\ 2 \in 1..Len(t1)
    BY <2>1, <1>7
  <2>3. t[2] = a[1] /\ 2 \in 1..Len(t2)
    BY <2>2, <1>8, <1>9, <1>10
  <2> QED
    BY <2>1, <2>3, <1>7, <1>8, <1>9, <1>10
<1>14. ASSUME NEW j \in 1..Len(t), t[j].kind = "proxy_pass" PROVE a = <<t[j]>>
  <2>1. j = 1 \/ j = Len(t) \/ j \in 2..Len(t) - 1
    BY <1>11
  <2> QED
    BY <2>1, <1>1, <1>9, <1>11, <1>12, <1>14
<1> QED
  BY <1>5, <1>9, <1>11, <1>12, <1>13, <1>14 DEF T, o, a

\* Before its locations a server block has one token that opens it, and
\* directives.
LEMMA HeadText ==
  ASSUME NEW route \in RouteInputs
  PROVE  LET h == OnlyIf(route.limited, <<Directive("limit_req_zone", ZoneName(route))>>)
                    \o <<Open("server", route.name)>>
                    \o OnlyIf(route.tls # "off", <<Directive("listen_ssl", NoName)>>)
                    \o OnlyIf(route.tls = "secret",
                              <<Directive("ssl_certificate", NoName)>>)
                    \o OnlyIf(route.limited, <<Directive("limit_req", ZoneName(route))>>)
         IN /\ h \in Seq(Tokens)
            /\ \E p \in 1..Len(h) : /\ h[p] = Open("server", route.name)
                                    /\ \A q \in 1..Len(h) : q # p => h[q] \in HeadTokens
<1> DEFINE s == Open("server", route.name)
           z == OnlyIf(route.limited, <<Directive("limit_req_zone", ZoneName(route))>>)
           a == OnlyIf(route.tls # "off", <<Directive("listen_ssl", NoName)>>)
           b == OnlyIf(route.tls = "secret", <<Directive("ssl_certificate", NoName)>>)
           c == OnlyIf(route.limited, <<Directive("limit_req", ZoneName(route))>>)
           Headed(h) == /\ h \in Seq(Tokens)
                        /\ \E p \in 1..Len(h) :
                             /\ h[p] = s
                             /\ \A q \in 1..Len(h) : q # p => h[q] \in HeadTokens
<1>1. s \in Tokens
  BY NamesTyped, TokensTyped DEF RouteInputs, KindsInTexts
<1>2. /\ Directive("limit_req_zone", ZoneName(route)) \in HeadTokens
      /\ Directive("listen_ssl", NoName) \in HeadTokens
      /\ Directive("ssl_certificate", NoName) \in HeadTokens
      /\ Directive("limit_req", ZoneName(route)) \in HeadTokens
  <2>1. ZoneName(route) \in NamesInTexts
    BY NamesTyped DEF RouteInputs, ZoneName
  <2> QED
    BY <2>1, TokensTyped DEF HeadTokens, Tokens, KindsInTexts, Directive
<1>3. /\ z \in Seq(HeadTokens) /\ a \in Seq(HeadTokens)
      /\ b \in Seq(HeadTokens) /\ c \in Seq(HeadTokens)
  BY <1>2, ShortTexts
<1>4. HeadTokens \subseteq Tokens
  BY DEF HeadTokens
<1> HIDE DEF s, z, a, b, c
<1>5. ASSUME NEW h, Headed(h), NEW t \in Seq(HeadTokens) PROVE Headed(h \o t)
  <2>1. PICK p \in 1..Len(h) :
          /\ h[p] = s
          /\ \A q \in 1..Len(h) : q # p => h[q] \in HeadTokens
    BY <1>5
  <2>2. h \in Seq(Tokens) /\ t \in Seq(Tokens)
    BY <1>4, <1>5, SeqMonotonic
  <2>3. /\ h \o t \in Seq(Tokens) /\ Len(h \o t) = Len(h) + Len(t)
        /\ \A q \in 1..Len(h) : (h \o t)[q] = h[q]
        /\ \A q \in 1..Len(h \o t) :
             q \in 1..Len(h) \/ (q - Len(h) \in 1..Len(t) /\ (h \o t)[q] = t[q - Len(h)])
    BY <2>2
  <2>4. p \in 1..Len(h \o t) /\ (h \o t)[p] = s
    BY <2>1, <2>2, <2>3
  <2>5. ASSUME NEW q \in 1..Len(h \o t), q # p PROVE (h \o t)[q] \in HeadTokens
    <3>1. CASE q \in 1..Len(h)
      BY <2>1, <2>3, <2>5, <3>1
    <3>2. CASE q - Len(h) \in 1..Len(t) /\ (h \o t)[q] = t[q - Len(h)]
      BY <3>2
    <3> QED
      BY <2>3, <3>1, <3>2
  <2> QED
    BY <2>3, <2>4, <2>5
<1>6. Headed(z \o <<s>>)
  <2>1. z \in Seq(Tokens) /\ <<s>> \in Seq(Tokens)
    BY <1>1, <1>3, <1>4, SeqMonotonic, ShortTexts
  <2>2. /\ z \o <<s>> \in Seq(Tokens) /\ Len(z \o <<s>>) = Len(z) + 1
        /\ (z \o <<s>>)[Len(z) + 1] = s
        /\ \A q \in 1..Len(z) : (z \o <<s>>)[q] = z[q]
    BY <2>1
  <2>3. \A q \in 1..Len(z) : z[q] \in HeadTokens
    BY <1>3
  <2>4. Len(z) \in Nat
    BY <1>3
  <2>5. Len(z) + 1 \in 1..Len(z \o <<s>>)
    BY <2>2, <2>4
  <2>6. \A q \in 1..Len(z \o <<s>>) : q # Len(z) + 1 => q \in 1..Len(z)
    BY <2>2, <2>4
  <2> QED
    BY <2>2, <2>3, <2>5, <2>6
<1> HIDE DEF Headed
<1>7. Headed(z \o <<s>> \o a \o b \o c)
  BY <1>3, <1>5, <1>6
<1> QED
  BY <1>7 DEF Headed, s, z, a, b, c

-----------------------------------------------------------------------------
(***************************************************************************)
(* The texts of a route and of a whole configuration, laid out.            *)
(***************************************************************************)
\* In t, the text of a route, the server block opens at p, its own directives
\* end at h, and location k stands after off[k] places.
RouteLaid(t, route, p, h, off) ==
  LET n == Len(route.locations)
      text(k) == LocationConfig(route, route.locations[k])
  IN /\ off \in [1..n -> Nat] /\ h \in Nat /\ h < Len(t)
     /\ p \in 1..h /\ t[p] = Open("server", route.name)
     /\ \A q \in 1..h : q # p => t[q] \in HeadTokens
     /\ t[Len(t)] = Close
     /\ \A k \in 1..n : At(t, text(k), off[k]) /\ h <= off[k]
     /\ \A i, k \in 1..n : i < k => off[i] + Len(text(i)) <= off[k]
     /\ \A q \in 1..Len(t) : \/ q \in 1..h \/ q = Len(t)
                             \/ \E k \in 1..n : q - off[k] \in 1..Len(text(k))

\* In t, a configuration, the upstream blocks stand between m and b, and after
\* them route order[k] after off[k] places.
ConfigLaid(t, order, m, b, off) ==
  LET n == Len(routes)
      text(k) == RouteConfig(routes[order[k]])
  IN /\ off \in [1..n -> Nat] /\ m \in Nat /\ b \in Nat /\ m <= b /\ b <= Len(t)
     /\ \A q \in 1..m : t[q] \in MainTokens
     /\ \A q \in m + 1..b : t[q] \in UpstreamTokens
     /\ \A k \in 1..Len(upstreams) :
          \E q \in m + 1..b : t[q] = Open("upstream", Qualified(upstreams[k]))
     /\ \A k \in 1..n : At(t, text(k), off[k]) /\ b <= off[k]
     /\ \A i, k \in 1..n : i < k => off[i] + Len(text(i)) <= off[k]
     /\ \A q \in b + 1..Len(t) : \E k \in 1..n : q - off[k] \in 1..Len(text(k))

\* The inputs, of any length.
InputsTyped == /\ routes \in Seq(RouteInputs) /\ upstreams \in Seq(UpstreamNames)
               /\ DistinctNames(routes, RouteName)

\* Sequences of bounded length are sequences.
LEMMA SeqsUpToAreSeqs ==
  ASSUME NEW S, NEW n \in Nat, NEW s \in SeqsUpTo(S, n)
  PROVE  s \in Seq(S)
<1>1. PICK k \in 0..n : s \in [1..k -> S]
  BY DEF SeqsUpTo
<1> QED
  BY <1>1

\* The locations of a route are a sequence.
LEMMA LocationsTyped ==
  ASSUME NEW route \in RouteInputs
  PROVE  route.locations \in Seq(Locations)
<1>1. route.locations \in SeqsUpTo(Locations, MaxLocations) /\ MaxLocations \in Nat
  BY GeneratorAssumption DEF RouteInputs
<1> QED
  BY <1>1, SeqsUpToAreSeqs

\* A sequence of sequences after s, with offsets counted from the beginning.
LEMMA AppendedAt ==
  ASSUME NEW T, NEW s \in Seq(T), NEW ss \in Seq(Seq(T))
  PROVE  LET t == s \o FlattenSeq(ss)
         IN /\ t \in Seq(T) /\ Len(s) <= Len(t) /\ At(t, s, 0)
            /\ \E off \in [1..Len(ss) -> Nat] :
                 /\ \A k \in 1..Len(ss) : At(t, ss[k], off[k]) /\ Len(s) <= off[k]
                 /\ \A i, k \in 1..Len(ss) : i < k => off[i] + Len(ss[i]) <= off[k]
                 /\ \A q \in Len(s) + 1..Len(t) :
                      \E k \in 1..Len(ss) : q - off[k] \in 1..Len(ss[k])
<1> DEFINE f == FlattenSeq(ss)
           t == s \o f
           n == Len(ss)
<1>1. /\ f \in Seq(T) /\ n \in Nat /\ Len(f) \in Nat /\ Len(s) \in Nat
      /\ \A k \in 1..n : Len(ss[k]) \in Nat
  BY FlattenAt
<1>2. PICK o \in [1..n + 1 -> Nat] :
        /\ \A k \in 1..n : At(f, ss[k], o[k])
        /\ \A i, k \in 1..n : i < k => o[i] + Len(ss[i]) <= o[k]
        /\ \A p \in 1..Len(f) : \E k \in 1..n : p - o[k] \in 1..Len(ss[k])
  BY FlattenAt
<1> HIDE DEF f, n
<1>3. t \in Seq(T) /\ Len(t) = Len(s) + Len(f) /\ At(t, s, 0) /\ At(t, f, Len(s))
  BY <1>1, ConcatAt
<1> HIDE DEF t
<1> DEFINE off == [k \in 1..n |-> Len(s) + o[k]]
<1>4. off \in [1..n -> Nat] /\ \A k \in 1..n : o[k] \in Nat /\ off[k] = Len(s) + o[k]
  BY <1>1
<1> HIDE DEF off
<1>5. ASSUME NEW k \in 1..n PROVE At(t, ss[k], off[k]) /\ Len(s) <= off[k]
  <2>1. At(f, ss[k], o[k]) /\ o[k] \in Nat /\ off[k] = Len(s) + o[k]
    BY <1>2, <1>4
  <2>2. At(t, ss[k], Len(s) + o[k])
    BY <2>1, <1>1, <1>3, AtAt
  <2> QED
    BY <2>1, <2>2, <1>1
<1>6. ASSUME NEW i \in 1..n, NEW k \in 1..n, i < k
      PROVE  off[i] + Len(ss[i]) <= off[k]
  <2> DEFINE c == Len(ss[i])
  <2>1. o[i] + c <= o[k] /\ o[i] \in Nat /\ o[k] \in Nat /\ c \in Nat
    BY <1>1, <1>2, <1>4, <1>6
  <2>2. off[i] = Len(s) + o[i] /\ off[k] = Len(s) + o[k]
    BY <1>4
  <2> HIDE DEF c
  <2>3. off[i] + c <= off[k]
    BY <2>1, <2>2, <1>1
  <2> QED
    BY <2>3 DEF c
<1>7. ASSUME NEW q \in Len(s) + 1..Len(t)
      PROVE  \E k \in 1..n : q - off[k] \in 1..Len(ss[k])
  <2>1. q - Len(s) \in 1..Len(f)
    BY <1>1, <1>3
  <2>2. PICK k \in 1..n : (q - Len(s)) - o[k] \in 1..Len(ss[k])
    BY <1>2, <2>1
  <2>3. (q - Len(s)) - o[k] = q - off[k]
    BY <1>1, <1>4
  <2> QED
    BY <2>2, <2>3
<1>8. Len(s) <= Len(t)
  BY <1>1, <1>3
<1> QED
  BY <1>3, <1>4, <1>5, <1>6, <1>7, <1>8 DEF t, f, n

\* The text of a route is its server block, laid out as RouteLaid says.
LEMMA RouteText ==
  ASSUME NEW route \in RouteInputs
  PROVE  /\ RouteConfig(route) \in Seq(Tokens)
         /\ \E p, h, off : RouteLaid(RouteConfig(route), route, p, h, off)
<1> DEFINE s == OnlyIf(route.limited, <<Directive("limit_req_zone", ZoneName(route))>>)
                  \o <<Open("server", route.name)>>
                  \o OnlyIf(route.tls # "off", <<Directive("listen_ssl", NoName)>>)
                  \o OnlyIf(route.tls = "secret",
                            <<Directive("ssl_certificate", NoName)>>)
                  \o OnlyIf(route.limited, <<Directive("limit_req", ZoneName(route))>>)
           ss == [i \in DOMAIN route.locations |->
                    LocationConfig(route, route.locations[i])]
           n == Len(route.locations)
           u == s \o FlattenSeq(ss)
           t == u \o <<Close>>
<1>1. RouteConfig(route) = t
  BY DEF RouteConfig
<1>2. route.locations \in Seq(Locations) /\ n \in Nat
  BY LocationsTyped
<1>3. ASSUME NEW k \in 1..n
      PROVE  LocationConfig(route, route.locations[k]) \in Seq(Tokens)
  <2>1. route.locations[k] \in Locations
    BY <1>2
  <2>2. LocationConfig(route, route.locations[k]) \in Seq(LocationTokens)
    BY <2>1, LocationText
  <2>3. LocationTokens \subseteq Tokens
    BY DEF LocationTokens
  <2> QED
    BY <2>2, <2>3, SeqMonotonic
<1>4. /\ ss \in Seq(Seq(Tokens)) /\ Len(ss) = n
      /\ \A k \in 1..n : ss[k] = LocationConfig(route, route.locations[k])
  BY <1>2, <1>3
<1>5. s \in Seq(Tokens)
  BY HeadText
<1>6. PICK p \in 1..Len(s) : /\ s[p] = Open("server", route.name)
                             /\ \A q \in 1..Len(s) : q # p => s[q] \in HeadTokens
  BY HeadText
<1> HIDE DEF s, ss, n
<1>7. u \in Seq(Tokens) /\ Len(s) <= Len(u) /\ At(u, s, 0)
  BY <1>4, <1>5, AppendedAt
<1>8. PICK off \in [1..n -> Nat] :
        /\ \A k \in 1..n : At(u, ss[k], off[k]) /\ Len(s) <= off[k]
        /\ \A i, k \in 1..n : i < k => off[i] + Len(ss[i]) <= off[k]
        /\ \A q \in Len(s) + 1..Len(u) : \E k \in 1..n : q - off[k] \in 1..Len(ss[k])
  BY <1>4, <1>5, AppendedAt
<1> HIDE DEF u
<1>9. /\ Close \in Tokens /\ t \in Seq(Tokens) /\ Len(t) = Len(u) + 1
      /\ t[Len(t)] = Close /\ At(t, u, 0) /\ Len(u) \in Nat /\ Len(s) \in Nat
  <2>1. Close \in Tokens /\ Len(u) \in Nat /\ Len(s) \in Nat
    <3>1. Close \in Tokens
      BY TokensTyped
    <3>2. Len(u) \in Nat
      BY <1>7
    <3>3. Len(s) \in Nat
      BY <1>5
    <3> QED
      BY <3>1, <3>2, <3>3
  <2>2. <<Close>> \in Seq(Tokens) /\ Len(<<Close>>) = 1 /\ <<Close>>[1] = Close
    BY <2>1
  <2>3. t \in Seq(Tokens) /\ Len(t) = Len(u) + 1 /\ At(t, u, 0)
    BY <2>2, <1>7, ConcatAt
  <2>4. t[Len(u) + 1] = Close
    BY <2>1, <2>2, <1>7
  <2> QED
    BY <2>1, <2>3, <2>4
<1> HIDE DEF t
<1>10. \A q \in 1..Len(s) : t[q] = s[q]
  BY <1>5, <1>7, <1>9 DEF At
<1>11. Len(s) < Len(t) /\ t[p] = Open("server", route.name)
       /\ \A q \in 1..Len(s) : q # p => t[q] \in HeadTokens
  BY <1>6, <1>7, <1>9, <1>10
<1>12. ASSUME NEW k \in 1..n PROVE At(t, ss[k], off[k]) /\ Len(s) <= off[k]
  <2>1. At(u, ss[k], off[k]) /\ off[k] \in Nat /\ Len(s) <= off[k]
    BY <1>8
  <2>2. At(t, ss[k], 0 + off[k])
    BY <2>1, <1>9, AtAt
  <2> QED
    BY <2>1, <2>2
<1>13. ASSUME NEW q \in 1..Len(t)
       PROVE  \/ q \in 1..Len(s) \/ q = Len(t)
              \/ \E k \in 1..n : q - off[k] \in 1..Len(ss[k])
  <2>1. q \in 1..Len(s) \/ q = Len(t) \/ q \in Len(s) + 1..Len(u)
    BY <1>9
  <2> QED
    BY <2>1, <1>8
<1>14. RouteLaid(t, route, p, Len(s), off)
  BY <1>4, <1>8, <1>9, <1>11, <1>12, <1>13 DEF RouteLaid, n
<1> QED
  BY <1>1, <1>9, <1>14

\* A configuration is laid out as ConfigLaid says, whatever the order.
LEMMA ConfigText ==
  ASSUME InputsTyped, NEW order \in [1..Len(routes) -> 1..Len(routes)]
  PROVE  /\ FullConfig(order) \in Seq(Tokens)
         /\ \E m, b, off : ConfigLaid(FullConfig(order), order, m, b, off)
<1> DEFINE g == GenerateMainConfig
           us == [i \in DOMAIN upstreams |-> GenerateUpstreamConfig(upstreams[i])]
           rs == [i \in DOMAIN routes |-> RouteConfig(routes[order[i]])]
           n == Len(routes)
           v == FlattenSeq(us)
           u == g \o v
           t == u \o FlattenSeq(rs)
<1>1. FullConfig(order) = t
  BY DEF FullConfig
<1>2. /\ routes \in Seq(RouteInputs) /\ n \in Nat
      /\ upstreams \in Seq(UpstreamNames) /\ Len(upstreams) \in Nat
  BY DEF InputsTyped
<1>3. g \in Seq(Tokens) /\ Len(g) \in Nat /\ \A q \in 1..Len(g) : g[q] \in MainTokens
  <2>1. g \in Seq(MainTokens) /\ MainTokens \subseteq Tokens
    BY MainText DEF MainTokens
  <2>2. g \in Seq(Tokens)
    BY <2>1, SeqMonotonic
  <2> QED
    BY <2>1, <2>2
<1>4. /\ us \in Seq(Seq(UpstreamTokens)) /\ Len(us) = Len(upstreams)
      /\ \A k \in 1..Len(upstreams) :
           Len(us[k]) = 2 /\ us[k][1] = Open("upstream", Qualified(upstreams[k]))
  <2>1. ASSUME NEW k \in 1..Len(upstreams)
        PROVE  LET x == GenerateUpstreamConfig(upstreams[k])
               IN /\ x \in Seq(UpstreamTokens) /\ Len(x) = 2
                  /\ x[1] = Open("upstream", Qualified(upstreams[k]))
    <3>1. Qualified(upstreams[k]) \in NamesInTexts /\ NoName \in NamesInTexts
      <4>1. upstreams[k] \in UpstreamNames
        BY <1>2
      <4> QED
        BY <4>1, NamesTyped, TokensTyped
    <3>2. /\ Open("upstream", Qualified(upstreams[k])) \in UpstreamTokens
          /\ Close \in UpstreamTokens
      BY <3>1 DEF UpstreamTokens, Tokens, KindsInTexts, Open, Close
    <3> QED
      BY <3>2 DEF GenerateUpstreamConfig
  <2> QED
    BY <2>1, <1>2
<1>5. rs \in Seq(Seq(Tokens)) /\ Len(rs) = n
      /\ \A k \in 1..n : rs[k] = RouteConfig(routes[order[k]])
  <2>1. ASSUME NEW k \in 1..n PROVE RouteConfig(routes[order[k]]) \in Seq(Tokens)
    <3>1. routes[order[k]] \in RouteInputs
      BY <1>2
    <3> QED
      BY <3>1, RouteText
  <2>2. DOMAIN routes = 1..n
    BY <1>2
  <2>3. rs = [k \in 1..n |-> RouteConfig(routes[order[k]])]
    BY <2>2
  <2> HIDE DEF rs, n
  <2> QED
    BY <1>2, <2>1, <2>3
<1>6. /\ v \in Seq(UpstreamTokens) /\ Len(v) \in Nat
      /\ \A k \in 1..Len(upstreams) :
           \E q \in 1..Len(v) : v[q] = Open("upstream", Qualified(upstreams[k]))
  <2> HIDE DEF us
  <2>1. v \in Seq(UpstreamTokens)
    BY <1>4, FlattenAt
  <2>2. PICK o : \A k \in 1..Len(upstreams) : At(v, us[k], o[k])
    BY <1>4, FlattenAt
  <2>3. ASSUME NEW k \in 1..Len(upstreams)
        PROVE  /\ o[k] + 1 \in 1..Len(v)
               /\ v[o[k] + 1] = Open("upstream", Qualified(upstreams[k]))
    BY <2>2, <1>4 DEF At
  <2> QED
    BY <2>1, <2>3
<1>7. v \in Seq(Tokens)
  <2>1. UpstreamTokens \subseteq Tokens
    BY DEF UpstreamTokens
  <2> QED
    BY <1>6, <2>1, SeqMonotonic
<1> HIDE DEF g, us, rs, v
<1>8. /\ u \in Seq(Tokens) /\ Len(u) = Len(g) + Len(v)
      /\ \A q \in 1..Len(g) : u[q] = g[q]
      /\ \A q \in 1..Len(v) : u[Len(g) + q] = v[q]
  BY <1>3, <1>7
<1> HIDE DEF u, n
<1>9. t \in Seq(Tokens) /\ Len(t) \in Nat /\ Len(u) <= Len(t) /\ At(t, u, 0)
  BY <1>5, <1>8, AppendedAt
<1>10. PICK off \in [1..n -> Nat] :
         /\ \A k \in 1..n : At(t, rs[k], off[k]) /\ Len(u) <= off[k]
         /\ \A i, k \in 1..n : i < k => off[i] + Len(rs[i]) <= off[k]
         /\ \A q \in Len(u) + 1..Len(t) : \E k \in 1..n : q - off[k] \in 1..Len(rs[k])
  <2>1. \E off \in [1..Len(rs) -> Nat] :
          /\ \A k \in 1..Len(rs) : At(t, rs[k], off[k]) /\ Len(u) <= off[k]
          /\ \A i, k \in 1..Len(rs) : i < k => off[i] + Len(rs[i]) <= off[k]
          /\ \A q \in Len(u) + 1..Len(t) :
               \E k \in 1..Len(rs) : q - off[k] \in 1..Len(rs[k])
    BY <1>5, <1>8, AppendedAt
  <2> HIDE DEF t
  <2> QED
    BY <2>1, <1>5
<1> HIDE DEF t
<1>11. \A q \in 1..Len(u) : t[q] = u[q]
  BY <1>8, <1>9 DEF At
<1>12. \A q \in 1..Len(g) : t[q] \in MainTokens
  BY <1>3, <1>6, <1>8, <1>11
<1>13. ASSUME NEW q \in Len(g) + 1..Len(u) PROVE t[q] \in UpstreamTokens
  <2>1. q - Len(g) \in 1..Len(v) /\ q \in 1..Len(u) /\ Len(g) + (q - Len(g)) = q
    BY <1>3, <1>6, <1>8
  <2>2. t[q] = v[q - Len(g)]
    BY <2>1, <1>8, <1>11
  <2> QED
    BY <2>1, <2>2, <1>6
<1>14. ASSUME NEW k \in 1..Len(upstreams)
       PROVE  \E q \in Len(g) + 1..Len(u) :
                t[q] = Open("upstream", Qualified(upstreams[k]))
  <2>1. PICK q \in 1..Len(v) : v[q] = Open("upstream", Qualified(upstreams[k]))
    BY <1>6
  <2>2. Len(g) + q \in Len(g) + 1..Len(u) /\ Len(g) + q \in 1..Len(u)
    BY <1>3, <1>6, <1>8
  <2>3. t[Len(g) + q] = v[q]
    BY <2>2, <1>8, <1>11
  <2> QED
    BY <2>1, <2>2, <2>3
<1>15. Len(g) <= Len(u) /\ Len(u) \in Nat
  BY <1>3, <1>6, <1>8
<1>16. ConfigLaid(t, order, Len(g), Len(u), off)
  BY <1>3, <1>5, <1>9, <1>10, <1>12, <1>13, <1>14, <1>15 DEF ConfigLaid, n
<1> QED
  BY <1>1, <1>9, <1>16

-----------------------------------------------------------------------------
(***************************************************************************)
(* The inductive invariant: a text is what FullConfig makes of the inputs, *)
(* in an order that respects the priorities, and only when all references  *)
(* resolve.                                                                *)
(***************************************************************************)
AllResolve == \A i \in DOMAIN routes : Resolves(routes[i], Range(upstreams))
Assembled ==
  /\ InputsTyped
  /\ \/ fullConfig = NotYet
     \/ fullConfig = Failed /\ ~AllResolve
     \/ AllResolve /\ \E order \in SortedOrders : fullConfig = FullConfig(order)

\* An order of the routes maps their positions to their positions.
LEMMA OrdersTyped ==
  ASSUME InputsTyped, NEW order \in SortedOrders
  PROVE  /\ order \in [1..Len(routes) -> 1..Len(routes)]
         /\ \A i, j \in 1..Len(routes) : order[i] = order[j] => i = j
         /\ \A i, j \in 1..Len(routes) :
              i < j => routes[order[i]].priority <= routes[order[j]].priority
<1>1. DOMAIN routes = 1..Len(routes)
  BY DEF InputsTyped
<1> QED
  BY <1>1 DEF SortedOrders

\* Whatever was generated, it was assembled from the inputs.
THEOREM AlwaysAssembled == Spec => []Assembled
<1>1. Init => Assembled
  <2> SUFFICES ASSUME Init PROVE Assembled
    OBVIOUS
  <2>1. routes \in Seq(RouteInputs)
    <3>1. routes \in SeqsUpTo(RouteInputs, MaxRoutes) /\ MaxRoutes \in Nat
      BY GeneratorAssumption DEF Init
    <3> QED
      BY <3>1, SeqsUpToAreSeqs
  <2>2. upstreams \in Seq(UpstreamNames)
    <3>1. upstreams \in SeqsUpTo(UpstreamNames, MaxUpstreams) /\ MaxUpstreams \in Nat
      BY GeneratorAssumption DEF Init
    <3> QED
      BY <3>1, SeqsUpToAreSeqs
  <2>3. DistinctNames(routes, RouteName) /\ fullConfig = NotYet
    BY DEF Init
  <2> QED
    BY <2>1, <2>2, <2>3 DEF Assembled, InputsTyped
<1>2. Assembled /\ [Next]_vars => Assembled'
  <2> SUFFICES ASSUME Assembled, [Next]_vars PROVE Assembled'
    OBVIOUS
  <2>1. UNCHANGED <<monitoring, routes, upstreams>>
    BY DEF Next, GenerateFullConfig, vars
  <2>2. InputsTyped' /\ AllResolve' = AllResolve /\ SortedOrders' = SortedOrders
        /\ \A order : FullConfig(order)' = FullConfig(order)
    BY <2>1 DEF Assembled, InputsTyped, AllResolve, DistinctNames, SortedOrders,
                FullConfig, GenerateMainConfig
  <2>3. CASE UNCHANGED vars
    BY <2>2, <2>3 DEF Assembled, vars
  <2>4. CASE GenerateFullConfig
    <3>1. CASE AllResolve
      <4>1. \E order \in SortedOrders : fullConfig' = FullConfig(order)
        BY <2>4, <3>1 DEF GenerateFullConfig, AllResolve
      <4> QED
        BY <4>1, <2>2, <3>1 DEF Assembled
    <3>2. CASE ~AllResolve
      <4>1. fullConfig' = Failed
        BY <2>4, <3>2 DEF GenerateFullConfig, AllResolve
      <4> QED
        BY <4>1, <2>2, <3>2 DEF Assembled
    <3> QED
      BY <3>1, <3>2
  <2> QED
    BY <2>3, <2>4 DEF Next
<1> QED
  BY <1>1, <1>2, PTL DEF Spec

\* A configuration that was generated is laid out, in an order that respects
\* the priorities.
LEMMA GeneratedLaid ==
  ASSUME Assembled, Generated
  PROVE  /\ AllResolve /\ fullConfig \in Seq(Tokens)
         /\ \E order \in SortedOrders :
              \E m, b, off : ConfigLaid(fullConfig, order, m, b, off)
<1>1. PICK order \in SortedOrders : fullConfig = FullConfig(order) /\ AllResolve
  BY DEF Assembled, Generated
<1>2. InputsTyped /\ order \in [1..Len(routes) -> 1..Len(routes)]
  BY OrdersTyped DEF Assembled
<1> QED
  BY <1>1, <1>2, ConfigText

\* Generating fails only on a reference that does not resolve.
LEMMA FailedUnresolved ==
  ASSUME Assembled, fullConfig = Failed
  PROVE  ~AllResolve
<1>1. ASSUME NEW order \in SortedOrders PROVE FullConfig(order) # Failed
  <2>1. InputsTyped /\ order \in [1..Len(routes) -> 1..Len(routes)]
    BY OrdersTyped DEF Assembled
  <2> QED
    BY <2>1, ConfigText, GeneratorAssumption DEF Texts
<1> QED
  BY <1>1, GeneratorAssumption DEF Assembled

-----------------------------------------------------------------------------
(***************************************************************************)
(* Where the blocks of a generated configuration stand.                    *)
(***************************************************************************)
\* The block of location l of route opens at q.
BlockAt(q, route, l) == At(fullConfig, LocationConfig(route, l), q - 1)

\* A place of the generated text that is in location l of route, whose block
\* opens at s.
InBlock(q, s, route, l) ==
  /\ s \in Nat /\ BlockAt(s, route, l)
  /\ (q - s) + 1 \in 1..Len(LocationConfig(route, l))
  /\ fullConfig[q] = LocationConfig(route, l)[(q - s) + 1]

\* A place of the text of route, which stands after a places: its server's
\* opening, one of its own directives or its end, or it is in a location.
RoutePlace(q, route, a, p, off) ==
  \/ q = a + p /\ fullConfig[q] = Open("server", route.name)
  \/ fullConfig[q] \in HeadTokens \/ fullConfig[q] = Close
  \/ \E k \in 1..Len(route.locations) :
       InBlock(q, (a + off[k]) + 1, route, route.locations[k])

\* Each place of a route's text is one of those.
LEMMA RoutePlaces ==
  ASSUME NEW route \in RouteInputs, NEW a \in Nat, NEW p, NEW h, NEW off,
         fullConfig \in Seq(Tokens), At(fullConfig, RouteConfig(route), a),
         RouteLaid(RouteConfig(route), route, p, h, off),
         NEW q, q - a \in 1..Len(RouteConfig(route)), q \in Int
  PROVE  RoutePlace(q, route, a, p, off)
<1> DEFINE t == RouteConfig(route)
           n == Len(route.locations)
<1>1. q - a \in 1..Len(t) /\ fullConfig[q] = t[q - a] /\ a + (q - a) = q
  <2>1. a + (q - a) = q
    OBVIOUS
  <2>2. fullConfig[a + (q - a)] = t[q - a]
    BY DEF At
  <2> QED
    BY <2>1, <2>2
<1>2. p \in 1..h /\ t[p] = Open("server", route.name) /\ t[Len(t)] = Close
      /\ (\A x \in 1..h : x # p => t[x] \in HeadTokens) /\ off \in [1..n -> Nat]
  BY DEF RouteLaid
<1>3. CASE q - a \in 1..h
  <2>1. CASE q - a = p
    BY <1>1, <1>2, <2>1 DEF RoutePlace
  <2>2. CASE q - a # p
    BY <1>1, <1>2, <1>3, <2>2 DEF RoutePlace
  <2> QED
    BY <2>1, <2>2
<1>4. CASE q - a = Len(t)
  BY <1>1, <1>2, <1>4 DEF RoutePlace
<1>5. CASE \E k \in 1..n :
             q - a - off[k] \in 1..Len(LocationConfig(route, route.locations[k]))
  <2>1. PICK k \in 1..n :
          q - a - off[k] \in 1..Len(LocationConfig(route, route.locations[k]))
    BY <1>5
  <2> DEFINE l == route.locations[k]
             text == LocationConfig(route, l)
             r == q - (a + off[k])
  <2>2. off[k] \in Nat /\ At(t, text, off[k])
    BY <1>2 DEF RouteLaid
  <2>3. r = q - a - off[k] /\ (a + off[k]) + r = q /\ ((a + off[k]) + 1) - 1 = a + off[k]
    BY <2>2
  <2>4. At(fullConfig, text, a + off[k])
    BY <2>2, AtAt
  <2> HIDE DEF l
  <2>5. r \in 1..Len(text)
    BY <2>1, <2>3 DEF l
  <2> HIDE DEF r, text
  <2>6. fullConfig[q] = text[r]
    BY <2>3, <2>4, <2>5 DEF At
  <2>7. BlockAt((a + off[k]) + 1, route, l)
    BY <2>3, <2>4 DEF BlockAt, text
  <2>8. (a + off[k]) + 1 \in Nat /\ (q - ((a + off[k]) + 1)) + 1 = r
    BY <2>2 DEF r
  <2>9. InBlock(q, (a + off[k]) + 1, route, l)
    BY <2>5, <2>6, <2>7, <2>8 DEF text, InBlock
  <2> QED
    BY <2>9 DEF l, RoutePlace
<1>6. \/ q - a \in 1..h \/ q - a = Len(t)
      \/ \E k \in 1..n :
           q - a - off[k] \in 1..Len(LocationConfig(route, route.locations[k]))
  BY <1>1 DEF RouteLaid
<1> QED
  BY <1>3, <1>4, <1>5, <1>6

\* What stands in a generated configuration.
LEMMA Places ==
  ASSUME Assembled, Generated, NEW q \in 1..Len(fullConfig)
  PROVE  \/ fullConfig[q] \in MainTokens \cup UpstreamTokens \cup HeadTokens \cup {Close}
         \/ \E i \in 1..Len(routes) : fullConfig[q] = Open("server", routes[i].name)
         \/ \E i \in 1..Len(routes) : \E k \in 1..Len(routes[i].locations) :
              \E s \in Nat : InBlock(q, s, routes[i], routes[i].locations[k])
<1>1. /\ fullConfig \in Seq(Tokens) /\ q \in Int
      /\ routes \in Seq(RouteInputs) /\ InputsTyped
  BY GeneratedLaid DEF Assembled, InputsTyped
<1>2. PICK order \in SortedOrders :
        \E m, b, off : ConfigLaid(fullConfig, order, m, b, off)
  BY GeneratedLaid
<1>3. PICK m, b, off : ConfigLaid(fullConfig, order, m, b, off)
  BY <1>2
<1>4. order \in [1..Len(routes) -> 1..Len(routes)]
  BY <1>1, OrdersTyped
<1>5. CASE q <= b
  <2>1. q \in 1..m \/ q \in m + 1..b
    BY <1>3, <1>5 DEF ConfigLaid
  <2> QED
    BY <1>3, <2>1 DEF ConfigLaid
<1>6. CASE q > b
  <2>1. q \in b + 1..Len(fullConfig)
    BY <1>3, <1>6 DEF ConfigLaid
  <2>2. PICK j \in 1..Len(routes) : q - off[j] \in 1..Len(RouteConfig(routes[order[j]]))
    BY <1>3, <2>1 DEF ConfigLaid
  <2> DEFINE i == order[j]
             route == routes[i]
  <2>3. off[j] \in Nat /\ At(fullConfig, RouteConfig(route), off[j])
    BY <1>3 DEF ConfigLaid
  <2>4. i \in 1..Len(routes) /\ route \in RouteInputs
    BY <1>1, <1>4
  <2>9. q - off[j] \in 1..Len(RouteConfig(route))
    BY <2>2
  <2> HIDE DEF i, route
  <2>5. PICK p, h, o : RouteLaid(RouteConfig(route), route, p, h, o)
    BY <2>4, RouteText
  <2>6. RoutePlace(q, route, off[j], p, o)
    BY <1>1, <2>3, <2>4, <2>5, <2>9, RoutePlaces
  <2>7. CASE \E k \in 1..Len(route.locations) :
               InBlock(q, (off[j] + o[k]) + 1, route, route.locations[k])
    <3>1. PICK k \in 1..Len(route.locations) :
            InBlock(q, (off[j] + o[k]) + 1, route, route.locations[k])
      BY <2>7
    <3>2. (off[j] + o[k]) + 1 \in Nat
      BY <3>1 DEF InBlock
    <3> QED
      BY <2>4, <3>1, <3>2 DEF route
  <2> QED
    BY <2>4, <2>6, <2>7 DEF RoutePlace, route
<1> QED
  <2>1. b \in Nat
    BY <1>3 DEF ConfigLaid
  <2>2. q <= b \/ q > b
    BY <1>1, <2>1
  <2> QED
    BY <1>5, <1>6, <2>2, Zenon

\* What a location proxies to has its upstream block, and generating fails
\* only if some location proxies to nothing there is.
THEOREM ReferencesAlwaysResolve == Spec => []ReferencesResolve
<1>1. ASSUME Assembled, Generated PROVE ReferencesResolve
  <2> SUFFICES ASSUME NEW q \in Where("directive", "proxy_pass")
               PROVE  \E u \in Where("open", "upstream") :
                        fullConfig[u].name = fullConfig[q].name
    BY <1>1 DEF ReferencesResolve, NamesAt
  <2>1. /\ q \in 1..Len(fullConfig) /\ fullConfig[q].kind = "proxy_pass"
        /\ fullConfig \in Seq(Tokens) /\ AllResolve
        /\ routes \in Seq(RouteInputs) /\ upstreams \in Seq(UpstreamNames)
    BY <1>1, GeneratedLaid DEF Where, Assembled, InputsTyped
  <2>2. fullConfig[q] \notin MainTokens \cup UpstreamTokens \cup HeadTokens \cup {Close}
    <3> DEFINE t == fullConfig[q]
    <3>1. t.kind = "proxy_pass" /\ Close.kind = ""
      BY <2>1 DEF Close
    <3> HIDE DEF t
    <3>2. t # Close /\ t \notin MainTokens /\ t \notin UpstreamTokens /\ t \notin HeadTokens
      BY <3>1 DEF MainTokens, UpstreamTokens, HeadTokens
    <3> QED
      BY <3>2 DEF t
  <2>3. ~\E i \in 1..Len(routes) : fullConfig[q] = Open("server", routes[i].name)
    <3>1. \A name : Open("server", name).kind = "server"
      BY DEF Open
    <3> QED
      BY <2>1, <3>1
  <2>4. PICK i \in 1..Len(routes) : \E k \in 1..Len(routes[i].locations) :
          \E s \in Nat : InBlock(q, s, routes[i], routes[i].locations[k])
    BY <1>1, <2>1, <2>2, <2>3, Places
  <2>5. PICK k \in 1..Len(routes[i].locations) :
          \E s \in Nat : InBlock(q, s, routes[i], routes[i].locations[k])
    BY <2>4
  <2> DEFINE route == routes[i]
             l == route.locations[k]
  <2>6. PICK s \in Nat : InBlock(q, s, route, l)
    BY <2>5
  <2>7. route \in RouteInputs /\ route.locations \in Seq(Locations)
    <3>1. route \in RouteInputs
      BY <2>1
    <3> QED
      BY <3>1, LocationsTyped
  <2>8. l \in Locations /\ k \in DOMAIN route.locations /\ i \in DOMAIN routes
    BY <2>1, <2>7
  <2> HIDE DEF route
  <2>9. l.upstreamRef \in Range(upstreams) \cup {NoName}
    BY <2>1, <2>8 DEF AllResolve, Resolves, route
  <2> HIDE DEF l
  <2>10. Action(l) = <<fullConfig[q]>>
    BY <2>1, <2>6, <2>7, <2>8, LocationText DEF InBlock
  <2>11. PICK kind, name :
           /\ Action(l) = <<Directive(kind, name)>>
           /\ IF l.upstreamRef # NoName
                THEN kind = "proxy_pass" /\ name = Qualified(l.upstreamRef)
                ELSE kind # "proxy_pass" /\ kind \in l.others
    <3>1. Action(l) # <<>>
      BY <2>10
    <3> QED
      BY <2>8, <3>1, ActionText
  <2>12. fullConfig[q] = Directive(kind, name)
    BY <2>10, <2>11
  <2>13. l.upstreamRef # NoName /\ fullConfig[q].name = Qualified(l.upstreamRef)
    BY <2>1, <2>11, <2>12 DEF Directive
  <2>14. PICK x \in 1..Len(upstreams) : upstreams[x] = l.upstreamRef
    <3>1. l.upstreamRef \in Range(upstreams)
      BY <2>9, <2>13
    <3>2. DOMAIN upstreams = 1..Len(upstreams)
      BY <2>1
    <3> QED
      BY <3>1, <3>2 DEF Range
  <2>15. PICK order \in SortedOrders :
           \E m, b, off : ConfigLaid(fullConfig, order, m, b, off)
    BY <1>1, GeneratedLaid
  <2>16. PICK m, b, off : ConfigLaid(fullConfig, order, m, b, off)
    BY <2>15
  <2>17. PICK u \in m + 1..b : fullConfig[u] = Open("upstream", Qualified(upstreams[x]))
    BY <2>16 DEF ConfigLaid
  <2>18. u \in DOMAIN fullConfig
    BY <2>1, <2>16, <2>17 DEF ConfigLaid
  <2>19. u \in Where("open", "upstream") /\ fullConfig[u].name = fullConfig[q].name
    BY <2>13, <2>14, <2>17, <2>18 DEF Where, Open
  <2> QED
    BY <2>19
<1>2. ASSUME Assembled, ~Generated PROVE ReferencesResolve
  <2> SUFFICES ASSUME fullConfig = Failed
               PROVE  \E i \in DOMAIN routes : \E j \in DOMAIN routes[i].locations :
                        LET ref == routes[i].locations[j].upstreamRef
                        IN ref # NoName /\ ref \notin Range(upstreams)
    BY <1>2 DEF ReferencesResolve
  <2>1. ~AllResolve
    BY <1>2, FailedUnresolved
  <2> QED
    BY <2>1 DEF AllResolve, Resolves
<1>3. Assembled => ReferencesResolve
  BY <1>1, <1>2
<1> QED
  BY <1>3, AlwaysAssembled, PTL

-----------------------------------------------------------------------------
(***************************************************************************)
(* The order of the servers.                                               *)
(***************************************************************************)
\* pos[k] is where the server block of the k-th route in order opens.
ServersAt(pos, order) ==
  LET n == Len(routes)
  IN /\ pos \in [1..n -> 1..Len(fullConfig)]
     /\ \A k \in 1..n : fullConfig[pos[k]] = Open("server", routes[order[k]].name)
     /\ \A i, k \in 1..n : i < k => pos[i] < pos[k]
     /\ \A q \in Where("open", "server") :
          fullConfig[q].name # NoName => \E k \in 1..n : q = pos[k]
     /\ \A q \in Where("open", "upstream"), k \in 1..n : q < pos[k]

\* The opening of its server is in a route's text.
LEMMA ServerInText ==
  ASSUME NEW route \in RouteInputs, NEW a \in Nat, NEW p, NEW h, NEW off,
         RouteLaid(RouteConfig(route), route, p, h, off),
         At(fullConfig, RouteConfig(route), a)
  PROVE  /\ p \in Nat /\ p >= 1 /\ p <= Len(RouteConfig(route))
         /\ a + p \in 1..Len(fullConfig)
         /\ fullConfig[a + p] = Open("server", route.name)
<1> DEFINE t == RouteConfig(route)
<1>1. p \in 1..h /\ h \in Nat /\ h < Len(t) /\ t[p] = Open("server", route.name)
  BY DEF RouteLaid
<1>2. Len(t) \in Nat
  BY RouteText
<1>3. p \in 1..Len(t)
  BY <1>1, <1>2
<1>4. a + p \in 1..Len(fullConfig) /\ fullConfig[a + p] = t[p]
  BY <1>3 DEF At
<1> HIDE DEF t
<1> QED
  BY <1>1, <1>2, <1>3, <1>4 DEF t

\* In a configuration that is laid out there is one server block for each
\* route, in the order of the routes and after all upstream blocks.
LEMMA ServerPlaces ==
  ASSUME Assembled, Generated, NEW order \in SortedOrders,
         NEW m, NEW b, NEW off, ConfigLaid(fullConfig, order, m, b, off)
  PROVE  \E pos : ServersAt(pos, order)
<1> DEFINE n == Len(routes)
           route(k) == routes[order[k]]
           t(k) == RouteConfig(route(k))
           IsP(k, p) == \E h, o : RouteLaid(t(k), route(k), p, h, o)
           P(k) == CHOOSE p : IsP(k, p)
           pos == [k \in 1..n |-> off[k] + P(k)]
<1>1. /\ fullConfig \in Seq(Tokens) /\ n \in Nat /\ Len(fullConfig) \in Nat
      /\ routes \in Seq(RouteInputs) /\ InputsTyped
  BY GeneratedLaid DEF Assembled, InputsTyped
<1>2. order \in [1..n -> 1..n]
  BY <1>1, OrdersTyped
<1>3. ASSUME NEW k \in 1..n
      PROVE  route(k) \in RouteInputs /\ IsP(k, P(k)) /\ off[k] \in Nat
             /\ At(fullConfig, t(k), off[k]) /\ b <= off[k] /\ b \in Nat
             /\ Len(t(k)) \in Nat
  <2>1. route(k) \in RouteInputs
    BY <1>1, <1>2
  <2>2. \E p : IsP(k, p)
    BY <2>1, RouteText
  <2>3. IsP(k, P(k))
    <3> HIDE DEF IsP
    <3> QED
      BY <2>2
  <2>4. Len(t(k)) \in Nat
    BY <2>1, RouteText
  <2>5. off[k] \in Nat /\ At(fullConfig, t(k), off[k]) /\ b <= off[k] /\ b \in Nat
    BY DEF ConfigLaid
  <2> HIDE DEF P, IsP
  <2> QED
    BY <2>1, <2>3, <2>4, <2>5
<1>4. ASSUME NEW k \in 1..n
      PROVE  /\ P(k) \in Nat /\ P(k) >= 1 /\ P(k) <= Len(t(k))
             /\ off[k] + P(k) \in 1..Len(fullConfig)
             /\ fullConfig[off[k] + P(k)] = Open("server", route(k).name)
  <2> HIDE DEF route, P
  <2>1. PICK h, o : RouteLaid(t(k), route(k), P(k), h, o)
    BY <1>3
  <2> QED
    BY <1>3, <2>1, ServerInText
<1>5. \A k \in 1..n : pos[k] = off[k] + P(k)
  OBVIOUS
<1>6. pos \in [1..n -> 1..Len(fullConfig)]
  <2> HIDE DEF P, route
  <2> QED
    BY <1>4
<1>7. \A k \in 1..n : fullConfig[pos[k]] = Open("server", route(k).name)
  <2> HIDE DEF P, route, pos
  <2> QED
    BY <1>4, <1>5
<1>8. ASSUME NEW i \in 1..n, NEW k \in 1..n, i < k PROVE pos[i] < pos[k]
  <2> DEFINE x == off[i]
             y == off[k]
             c == Len(t(i))
  <2>1. x + c <= y
    BY <1>8 DEF ConfigLaid
  <2>2. /\ pos[i] = x + P(i) /\ P(i) \in Nat /\ P(i) <= c /\ x \in Nat /\ c \in Nat
        /\ pos[k] = y + P(k) /\ P(k) \in Nat /\ P(k) >= 1 /\ y \in Nat
    <3> HIDE DEF P, route, pos
    <3> QED
      BY <1>3, <1>4, <1>5
  <2> HIDE DEF x, y, c, P, pos
  <2> QED
    BY <2>1, <2>2
<1>9. ASSUME NEW q \in 1..Len(fullConfig), q > b
      PROVE  \E k \in 1..n : \E o : RoutePlace(q, route(k), off[k], P(k), o)
  <2>1. PICK k \in 1..n : q - off[k] \in 1..Len(t(k))
    <3>1. q \in b + 1..Len(fullConfig)
      BY <1>9 DEF ConfigLaid
    <3> QED
      BY <3>1 DEF ConfigLaid
  <2> HIDE DEF P, route
  <2>2. PICK h, o : RouteLaid(t(k), route(k), P(k), h, o)
    BY <1>3
  <2>3. RoutePlace(q, route(k), off[k], P(k), o)
    BY <1>1, <1>3, <2>1, <2>2, RoutePlaces
  <2> QED
    BY <2>3
<1>10. ASSUME NEW q \in 1..Len(fullConfig), q > b,
              fullConfig[q].kind = "server" \/ fullConfig[q].kind = "upstream"
       PROVE  \E k \in 1..n : q = pos[k] /\ fullConfig[q].kind = "server"
  <2> DEFINE token == fullConfig[q]
  <2>1. PICK k \in 1..n : \E o : RoutePlace(q, route(k), off[k], P(k), o)
    <3> HIDE DEF P, route
    <3> QED
      BY <1>9, <1>10
  <2>2. PICK o : RoutePlace(q, route(k), off[k], P(k), o)
    BY <2>1
  <2>3. token \notin HeadTokens /\ token # Close
    <3>1. Close.kind = ""
      BY DEF Close
    <3> HIDE DEF token
    <3> QED
      BY <1>10, <3>1 DEF HeadTokens, token
  <2>4. ASSUME NEW x \in 1..Len(route(k).locations),
               InBlock(q, (off[k] + o[x]) + 1, route(k), route(k).locations[x])
        PROVE  FALSE
    <3> DEFINE l == route(k).locations[x]
    <3> HIDE DEF route
    <3>1. route(k) \in RouteInputs /\ route(k).locations \in Seq(Locations)
      BY <1>3, LocationsTyped
    <3>2. l \in Locations
      BY <3>1
    <3>3. LocationConfig(route(k), l) \in Seq(LocationTokens)
      <4> HIDE DEF l
      <4> QED
        BY <3>1, <3>2, LocationText
    <3>4. token \in LocationTokens
      BY <2>4, <3>3 DEF InBlock
    <3> QED
      BY <1>10, <3>4 DEF LocationTokens
  <2>5. q = off[k] + P(k) /\ token = Open("server", route(k).name)
    <3> HIDE DEF route, P, token
    <3> QED
      BY <2>2, <2>3, <2>4 DEF RoutePlace, token
  <2>6. Open("server", route(k).name).kind = "server"
    BY DEF Open
  <2> HIDE DEF route, P, pos
  <2> QED
    BY <1>5, <2>5, <2>6
<1>11. ASSUME NEW q \in Where("open", "server"), fullConfig[q].name # NoName
       PROVE  \E k \in 1..n : q = pos[k]
  <2>1. q \in 1..Len(fullConfig) /\ fullConfig[q].kind = "server"
    BY <1>1 DEF Where
  <2>2. CASE q <= b
    <3>1. q \in 1..m \/ q \in m + 1..b
      BY <2>1, <2>2 DEF ConfigLaid
    <3>2. fullConfig[q] \in MainTokens \/ fullConfig[q] \in UpstreamTokens
      BY <3>1 DEF ConfigLaid
    <3> QED
      BY <1>11, <2>1, <3>2 DEF MainTokens, UpstreamTokens
  <2>3. CASE q > b
    <3> HIDE DEF pos
    <3> QED
      BY <1>10, <2>1, <2>3
  <2>4. b \in Nat
    BY DEF ConfigLaid
  <2> HIDE DEF pos
  <2> QED
    BY <2>1, <2>2, <2>3, <2>4
<1>12. ASSUME NEW q \in Where("open", "upstream"), NEW k \in 1..n PROVE q < pos[k]
  <2>1. q \in 1..Len(fullConfig) /\ fullConfig[q].kind = "upstream"
    BY <1>1 DEF Where
  <2> HIDE DEF pos, P, route
  <2>2. ~(q > b)
    BY <1>10, <2>1
  <2>3. off[k] \in Nat /\ b <= off[k] /\ b \in Nat /\ P(k) \in Nat /\ P(k) >= 1
    BY <1>3, <1>4
  <2>4. pos[k] = off[k] + P(k) /\ q \in Nat
    BY <1>5, <2>1
  <2> DEFINE x == off[k]
  <2>5. x \in Nat /\ b <= x /\ pos[k] = x + P(k)
    BY <2>3, <2>4
  <2> HIDE DEF x
  <2> QED
    BY <2>2, <2>3, <2>4, <2>5
<1>13. ServersAt(pos, order)
  <2> HIDE DEF pos, P
  <2> QED
    BY <1>6, <1>7, <1>8, <1>11, <1>12 DEF ServersAt
<1> QED
  BY <1>13

\* An order of the routes leaves none out.
LEMMA OrdersCover ==
  ASSUME InputsTyped, NEW order \in SortedOrders
  PROVE  \A i \in 1..Len(routes) : \E k \in 1..Len(routes) : order[k] = i
<1> DEFINE I == 1..Len(routes)
<1>1. Len(routes) \in Nat
  BY DEF InputsTyped
<1>2. IsFiniteSet(I)
  BY <1>1, FS_Interval
<1>3. order \in [I -> I] /\ \A i, j \in I : order[i] = order[j] => i = j
  BY OrdersTyped
<1> HIDE DEF I
<1>4. order \in Injection(I, I)
  BY <1>3 DEF Injection, IsInjective
<1>5. order \in Surjection(I, I)
  BY <1>2, <1>4, FS_Injection
<1> QED
  BY <1>5 DEF Surjection, I

\* Each route has one server block, none before one of a lower priority, and
\* every upstream block comes before them all.
THEOREM RoutesAlwaysInOrder == Spec => []RoutesInOrder
<1>1. ASSUME Assembled, Generated PROVE RoutesInOrder
  <2> DEFINE n == Len(routes)
             I == 1..n
             places == {q \in Where("open", "server") : fullConfig[q].name # NoName}
             priority(q) == (CHOOSE r \in Range(routes) :
                               r.name = fullConfig[q].name).priority
  <2>1. /\ routes \in Seq(RouteInputs) /\ n \in Nat /\ InputsTyped
        /\ fullConfig \in Seq(Tokens) /\ DistinctNames(routes, RouteName)
        /\ DOMAIN routes = I
    BY <1>1, GeneratedLaid DEF Assembled, InputsTyped
  <2>2. PICK order \in SortedOrders :
          \E m, b, off : ConfigLaid(fullConfig, order, m, b, off)
    BY <1>1, GeneratedLaid
  <2>3. PICK pos : ServersAt(pos, order)
    BY <1>1, <2>2, ServerPlaces
  <2>4. /\ order \in [I -> I]
        /\ \A i, k \in I : i < k => routes[order[i]].priority <= routes[order[k]].priority
        /\ \A i \in I : \E k \in I : order[k] = i
    BY <2>1, <2>2, OrdersTyped, OrdersCover
  <2>5. /\ pos \in [I -> 1..Len(fullConfig)]
        /\ \A k \in I : fullConfig[pos[k]] = Open("server", routes[order[k]].name)
        /\ \A i, k \in I : i < k => pos[i] < pos[k]
        /\ \A q \in places : \E k \in I : q = pos[k]
        /\ \A q \in Where("open", "upstream"), k \in I : q < pos[k]
    BY <2>3 DEF ServersAt
  <2>6. \A i \in I : routes[i] \in RouteInputs /\ routes[i].name \in RouteNames
    <3>1. \A i \in I : routes[i] \in RouteInputs
      BY <2>1
    <3>2. \A r \in RouteInputs : r.name \in RouteNames
      BY DEF RouteInputs
    <3> QED
      BY <3>1, <3>2
  <2>7. ASSUME NEW k \in I
        PROVE  pos[k] \in places /\ fullConfig[pos[k]].name = routes[order[k]].name
    <3>1. order[k] \in I /\ pos[k] \in DOMAIN fullConfig
      BY <2>1, <2>4, <2>5
    <3>2. fullConfig[pos[k]] = Open("server", routes[order[k]].name)
      BY <2>5
    <3>3. routes[order[k]].name # NoName
      BY <2>6, <3>1, GeneratorAssumption
    <3> QED
      BY <3>1, <3>2, <3>3 DEF Where, Open
  <2> HIDE DEF places, n
  <2>8. Cardinality(places) = n
    <3>1. pos \in [I -> places] /\ \A q \in places : \E k \in I : pos[k] = q
      BY <2>5, <2>7
    <3>2. ASSUME NEW i \in I, NEW k \in I, pos[i] = pos[k] PROVE i = k
      <4>1. pos[i] \in Int /\ pos[k] \in Int /\ (i < k => pos[i] < pos[k])
            /\ (k < i => pos[k] < pos[i])
        BY <2>5
      <4> QED
        BY <2>1, <3>2, <4>1
    <3>3. pos \in Bijection(I, places)
      BY <3>1, <3>2 DEF Bijection, Injection, Surjection, IsInjective
    <3>4. ExistsBijection(1..n, places)
      BY <3>3 DEF ExistsBijection
    <3> QED
      BY <2>1, <3>4, FS_CountingElements
  <2>9. NamesAt(places) = {r.name : r \in Range(routes)}
    <3>1. ASSUME NEW q \in places PROVE fullConfig[q].name \in {r.name : r \in Range(routes)}
      <4>1. PICK k \in I : q = pos[k]
        BY <2>5
      <4>2. order[k] \in DOMAIN routes
        BY <2>1, <2>4
      <4> QED
        BY <2>7, <4>1, <4>2 DEF Range
    <3>2. ASSUME NEW r \in Range(routes) PROVE r.name \in NamesAt(places)
      <4>1. PICK i \in I : routes[i] = r
        BY <2>1 DEF Range
      <4>2. PICK k \in I : order[k] = i
        BY <2>4
      <4> QED
        BY <2>7, <4>1, <4>2 DEF NamesAt
    <3> QED
      BY <3>1, <3>2 DEF NamesAt
  <2>10. ASSUME NEW k \in I PROVE priority(pos[k]) = routes[order[k]].priority
    <3> DEFINE route == routes[order[k]]
               chosen == CHOOSE r \in Range(routes) : r.name = fullConfig[pos[k]].name
    <3>1. order[k] \in I /\ route \in Range(routes) /\ fullConfig[pos[k]].name = route.name
      BY <2>1, <2>4, <2>7 DEF Range
    <3>2. chosen \in Range(routes) /\ chosen.name = route.name
      BY <3>1
    <3> HIDE DEF chosen
    <3>3. PICK i \in I : routes[i] = chosen
      BY <2>1, <3>2 DEF Range
    <3>4. i = order[k]
      BY <2>1, <3>1, <3>2, <3>3 DEF DistinctNames, RouteName
    <3> QED
      BY <3>3, <3>4 DEF chosen
  <2>11. ASSUME NEW p \in places, NEW q \in places, p < q
         PROVE  priority(p) <= priority(q)
    <3>1. PICK i \in I : p = pos[i]
      BY <2>5
    <3>2. PICK k \in I : q = pos[k]
      BY <2>5
    <3>3. i < k
      <4>1. pos[i] \in Int /\ pos[k] \in Int /\ (k < i => pos[k] < pos[i])
        BY <2>5
      <4> QED
        BY <2>1, <2>11, <3>1, <3>2, <4>1
    <3> HIDE DEF priority
    <3> QED
      BY <2>4, <2>10, <3>1, <3>2, <3>3
  <2>12. \A q \in places, u \in Where("open", "upstream") : u < q
    BY <2>5
  <2> QED
    BY <2>8, <2>9, <2>11, <2>12 DEF RoutesInOrder, places, n
<1>2. Assembled => RoutesInOrder
  BY <1>1 DEF RoutesInOrder
<1> QED
  BY <1>2, AlwaysAssembled, PTL

-----------------------------------------------------------------------------
(***************************************************************************)
(* Blocks: what is open where.                                             *)
(***************************************************************************)
\* How many blocks open, or close, from one place to another.
Counted(token, first, last) ==
  Cardinality({k \in first..last : fullConfig[k].token = token})

\* A block is open until as many have closed since as have opened.
LEMMA OpenWhile ==
  ASSUME NEW q, NEW k
  PROVE  OpenAt(q, k) <=>
           /\ fullConfig[q].token = "open"
           /\ \A x \in q..k - 1 : Counted("open", q, x) > Counted("close", q, x)
BY DEF OpenAt, Counted

\* A place in an interval that alone has a token of a kind.
LEMMA CountedOnce ==
  ASSUME NEW token, NEW first \in Nat, NEW last \in Nat,
         NEW q \in first..last, fullConfig[q].token = token,
         \A k \in first..last : k # q => fullConfig[k].token # token
  PROVE  Counted(token, first, last) = 1
<1>1. {k \in first..last : fullConfig[k].token = token} = {q}
  OBVIOUS
<1> QED
  BY <1>1, FS_Singleton DEF Counted

\* An interval without a token of a kind.
LEMMA CountedNever ==
  ASSUME NEW token, NEW first \in Nat, NEW last \in Nat,
         \A k \in first..last : fullConfig[k].token # token
  PROVE  Counted(token, first, last) = 0
<1>1. {k \in first..last : fullConfig[k].token = token} = {}
  OBVIOUS
<1> QED
  BY <1>1, FS_EmptySet DEF Counted

\* What a block of a location has in it: directives, for a rate limit or for
\* what the location does, from its opening to its end.
LEMMA BlockText ==
  ASSUME NEW route \in RouteInputs, NEW l \in Locations, NEW q \in Nat,
         q >= 1, fullConfig \in Seq(Tokens), BlockAt(q, route, l)
  PROVE  \E e \in Nat :
           /\ q < e /\ e <= Len(fullConfig)
           /\ e = (q - 1) + Len(LocationConfig(route, l))
           /\ fullConfig[q] = Open("location", l.path) /\ fullConfig[e] = Close
           /\ \A k \in q + 1..e - 1 : /\ fullConfig[k].token = "directive"
                                      /\ \/ fullConfig[k].kind = "limit_req"
                                         \/ Action(l) = <<fullConfig[k]>>
           /\ Action(l) # <<>> => \E k \in q + 1..e - 1 : Action(l) = <<fullConfig[k]>>
<1> DEFINE t == LocationConfig(route, l)
           e == (q - 1) + Len(t)
<1>1. /\ t \in Seq(LocationTokens) /\ Len(t) \in Nat /\ Len(t) >= 2
      /\ t[1] = Open("location", l.path) /\ t[Len(t)] = Close
      /\ \A j \in 2..Len(t) - 1 : /\ t[j].token = "directive"
                                  /\ t[j].kind = "limit_req" \/ Action(l) = <<t[j]>>
      /\ Action(l) # <<>> => \E j \in 2..Len(t) - 1 : Action(l) = <<t[j]>>
  BY LocationText
<1>2. \A j \in 1..Len(t) :
        (q - 1) + j \in 1..Len(fullConfig) /\ fullConfig[(q - 1) + j] = t[j]
  BY DEF BlockAt, At
<1> HIDE DEF t
<1>3. e \in Nat /\ q < e /\ e \in 1..Len(fullConfig) /\ fullConfig[e] = Close
  <2>1. Len(t) \in 1..Len(t)
    BY <1>1
  <2> QED
    BY <1>1, <1>2, <2>1
<1>4. fullConfig[q] = Open("location", l.path)
  <2>1. 1 \in 1..Len(t) /\ (q - 1) + 1 = q
    BY <1>1
  <2> QED
    BY <1>1, <1>2, <2>1
<1>5. ASSUME NEW k \in q + 1..e - 1
      PROVE  k - (q - 1) \in 2..Len(t) - 1 /\ fullConfig[k] = t[k - (q - 1)]
  <2>1. k - (q - 1) \in 2..Len(t) - 1 /\ k - (q - 1) \in 1..Len(t)
        /\ (q - 1) + (k - (q - 1)) = k
    BY <1>1
  <2> QED
    BY <1>2, <2>1
<1>6. ASSUME NEW k \in q + 1..e - 1
      PROVE  /\ fullConfig[k].token = "directive"
             /\ fullConfig[k].kind = "limit_req" \/ Action(l) = <<fullConfig[k]>>
  BY <1>1, <1>5
<1>7. ASSUME Action(l) # <<>>
      PROVE  \E k \in q + 1..e - 1 : Action(l) = <<fullConfig[k]>>
  <2>1. PICK j \in 2..Len(t) - 1 : Action(l) = <<t[j]>>
    BY <1>1, <1>7
  <2>2. (q - 1) + j \in q + 1..e - 1 /\ j \in 1..Len(t)
    BY <1>1
  <2> QED
    BY <1>2, <2>1, <2>2
<1> QED
  BY <1>3, <1>4, <1>6, <1>7 DEF t

\* Of the kinds in the block of a location, at most the one of its action
\* makes it do something.
LEMMA BlockKinds ==
  ASSUME NEW route \in RouteInputs, NEW l \in Locations, NEW q \in Nat,
         q >= 1, fullConfig \in Seq(Tokens), BlockAt(q, route, l)
  PROVE  /\ Action(l) = <<>> => KindsIn(q) \cap ActionKinds = {}
         /\ Action(l) # <<>> => KindsIn(q) \cap ActionKinds = {Action(l)[1].kind}
<1>1. PICK e \in Nat :
        /\ q < e /\ e <= Len(fullConfig)
        /\ fullConfig[q] = Open("location", l.path) /\ fullConfig[e] = Close
        /\ \A k \in q + 1..e - 1 : /\ fullConfig[k].token = "directive"
                                   /\ \/ fullConfig[k].kind = "limit_req"
                                      \/ Action(l) = <<fullConfig[k]>>
        /\ Action(l) # <<>> => \E k \in q + 1..e - 1 : Action(l) = <<fullConfig[k]>>
  BY BlockText
<1>2. fullConfig[q].token = "open" /\ fullConfig[e].token = "close" /\ Len(fullConfig) \in Nat
  <2>1. Open("location", l.path).token = "open" /\ Close.token = "close"
    BY DEF Open, Close
  <2>2. Len(fullConfig) \in Nat
    OBVIOUS
  <2> QED
    BY <1>1, <2>1, <2>2
<1>3. ASSUME NEW x \in q..e PROVE Counted("open", q, x) = 1
  <2>1. \A k \in q..x : k # q => fullConfig[k].token # "open"
    <3> SUFFICES ASSUME NEW k \in q..x, k # q PROVE fullConfig[k].token # "open"
      OBVIOUS
    <3>1. k = e \/ k \in q + 1..e - 1
      OBVIOUS
    <3> QED
      BY <3>1, <1>1, <1>2
  <2>2. x \in Nat /\ q \in q..x
    OBVIOUS
  <2> QED
    BY <2>1, <2>2, <1>2, CountedOnce
<1>4. ASSUME NEW x \in q..e - 1 PROVE Counted("close", q, x) = 0
  <2>1. \A k \in q..x : fullConfig[k].token # "close"
    <3> SUFFICES ASSUME NEW k \in q..x PROVE fullConfig[k].token # "close"
      OBVIOUS
    <3>1. k = q \/ k \in q + 1..e - 1
      OBVIOUS
    <3> QED
      BY <3>1, <1>1, <1>2
  <2>2. x \in Nat
    OBVIOUS
  <2> QED
    BY <2>1, <2>2, CountedNever
<1>5. Counted("close", q, e) = 1
  <2>1. \A k \in q..e : k # e => fullConfig[k].token # "close"
    <3> SUFFICES ASSUME NEW k \in q..e, k # e PROVE fullConfig[k].token # "close"
      OBVIOUS
    <3>1. k = q \/ k \in q + 1..e - 1
      OBVIOUS
    <3> QED
      BY <3>1, <1>1, <1>2
  <2>2. e \in q..e
    BY <1>1
  <2> QED
    BY <2>1, <2>2, <1>2, CountedOnce
<1>6. ASSUME NEW k \in q + 1..Len(fullConfig)
      PROVE  OpenAt(q, k) <=> k <= e
  <2>1. ASSUME k <= e PROVE OpenAt(q, k)
    <3>1. \A x \in q..k - 1 : Counted("open", q, x) = 1 /\ Counted("close", q, x) = 0
      BY <1>3, <1>4, <2>1
    <3> QED
      BY <3>1, <1>2, OpenWhile
  <2>2. ASSUME k > e PROVE ~OpenAt(q, k)
    <3>1. e \in q..k - 1 /\ e \in q..e
      BY <1>1, <2>2
    <3>2. Counted("open", q, e) = 1 /\ Counted("close", q, e) = 1
      BY <1>3, <1>5, <3>1
    <3> QED
      BY <3>1, <3>2, OpenWhile
  <2> QED
    BY <2>1, <2>2
<1>7. KindsIn(q) = {fullConfig[k].kind : k \in q + 1..e - 1}
  <2>1. {k \in q + 1..Len(fullConfig) :
           OpenAt(q, k) /\ fullConfig[k].token = "directive"} = q + 1..e - 1
    <3>1. ASSUME NEW k \in q + 1..Len(fullConfig), OpenAt(q, k),
                 fullConfig[k].token = "directive"
          PROVE  k \in q + 1..e - 1
      BY <3>1, <1>2, <1>6
    <3>2. ASSUME NEW k \in q + 1..e - 1
          PROVE  k \in q + 1..Len(fullConfig) /\ OpenAt(q, k)
                 /\ fullConfig[k].token = "directive"
      <4>1. k \in q + 1..Len(fullConfig) /\ k <= e
        BY <1>1, <1>2
      <4> QED
        BY <4>1, <1>1, <1>6
    <3> QED
      BY <3>1, <3>2
  <2> QED
    BY <2>1 DEF KindsIn
<1>8. "limit_req" \notin ActionKinds
  BY DEF ActionKinds, ActionOrder, Range
<1>9. CASE Action(l) = <<>>
  <2>1. \A k \in q + 1..e - 1 : fullConfig[k].kind = "limit_req"
    BY <1>1, <1>9
  <2> QED
    BY <2>1, <1>7, <1>8, <1>9
<1>10. CASE Action(l) # <<>>
  <2>1. PICK kind, name : kind \in ActionKinds /\ Action(l) = <<Directive(kind, name)>>
    BY <1>10, ActionText
  <2>2. Action(l)[1].kind \in ActionKinds
    BY <2>1 DEF Directive
  <2>3. \A k \in q + 1..e - 1 :
          fullConfig[k].kind = "limit_req" \/ fullConfig[k] = Action(l)[1]
    BY <1>1
  <2>4. \E k \in q + 1..e - 1 : fullConfig[k] = Action(l)[1]
    BY <1>1, <1>10
  <2> QED
    BY <2>2, <2>3, <2>4, <1>7, <1>8, <1>10
<1> QED
  BY <1>9, <1>10

\* When what closes in an interval closes what opened there, and each a block
\* of its own other than the first, then the first is still open.
LEMMA MoreOpen ==
  ASSUME NEW i \in Nat, NEW x \in Nat, i <= x, fullConfig[i].token = "open",
         NEW closes,
         \A c \in i..x : fullConfig[c].token = "close" =>
           \E o \in i + 1..x : fullConfig[o].token = "open" /\ <<c, o>> \in closes,
         \A c, d, o \in i..x :
           <<c, o>> \in closes /\ <<d, o>> \in closes => c = d
  PROVE  Counted("open", i, x) > Counted("close", i, x)
<1> DEFINE O == {k \in i..x : fullConfig[k].token = "open"}
           C == {k \in i..x : fullConfig[k].token = "close"}
           R == O \ {i}
           f == [c \in C |-> CHOOSE o \in R : <<c, o>> \in closes]
<1>1. IsFiniteSet(O) /\ IsFiniteSet(C)
  <2>1. IsFiniteSet(i..x)
    BY FS_Interval
  <2>2. O \in SUBSET (i..x) /\ C \in SUBSET (i..x)
    OBVIOUS
  <2> QED
    BY <2>1, <2>2, FS_Subset
<1>2. i \in O
  OBVIOUS
<1>3. IsFiniteSet(R) /\ Cardinality(R) = Cardinality(O) - 1
  <2> HIDE DEF O
  <2> QED
    BY <1>1, <1>2, FS_RemoveElement
<1>4. ASSUME NEW c \in C PROVE f[c] \in R /\ <<c, f[c]>> \in closes
  <2>1. \E o \in R : <<c, o>> \in closes
    OBVIOUS
  <2> QED
    BY <2>1
<1>5. R \subseteq i..x /\ C \subseteq i..x
  OBVIOUS
<1>6. f \in Injection(C, R)
  <2>1. f \in [C -> R]
    BY <1>4
  <2>2. \A c, d \in C : f[c] = f[d] => c = d
    <3> SUFFICES ASSUME NEW c \in C, NEW d \in C, f[c] = f[d] PROVE c = d
      OBVIOUS
    <3>1. <<c, f[c]>> \in closes /\ <<d, f[c]>> \in closes /\ f[c] \in R
      BY <1>4
    <3> QED
      BY <3>1, <1>5
  <2> HIDE DEF f, R, C
  <2> QED
    BY <2>1, <2>2 DEF Injection, IsInjective
<1>7. Cardinality(C) <= Cardinality(R) /\ IsFiniteSet(C)
  <2> HIDE DEF f, R, C
  <2> QED
    BY <1>3, <1>6, FS_Injection
<1>8. Cardinality(O) \in Nat /\ Cardinality(C) \in Nat
  BY <1>1, FS_CardinalityType
<1>9. Cardinality(O) > Cardinality(C)
  <2> HIDE DEF O, R, C
  <2> QED
    BY <1>3, <1>7, <1>8
<1> QED
  BY <1>9 DEF Counted

\* The block of a route's server is open where the blocks of its locations
\* open, whatever stands before them.
LEMMA ServerEncloses ==
  ASSUME NEW route \in RouteInputs, NEW a \in Nat, NEW p, NEW h, NEW off,
         fullConfig \in Seq(Tokens), At(fullConfig, RouteConfig(route), a),
         RouteLaid(RouteConfig(route), route, p, h, off),
         NEW k \in 1..Len(route.locations)
  PROVE  OpenAt(a + p, (a + off[k]) + 1)
<1> DEFINE n == Len(route.locations)
           t == RouteConfig(route)
           text(w) == LocationConfig(route, route.locations[w])
           i == a + p
           closes == {<<(a + off[w]) + Len(text(w)), (a + off[w]) + 1>> : w \in 1..n}
<1>1. /\ p \in 1..h /\ h \in Nat /\ t[p] = Open("server", route.name)
      /\ \A q \in 1..h : q # p => t[q] \in HeadTokens
      /\ \A q \in 1..Len(t) : \/ q \in 1..h \/ q = Len(t)
                              \/ \E w \in 1..n : q - off[w] \in 1..Len(text(w))
  BY DEF RouteLaid
<1>2. ASSUME NEW w \in 1..n
      PROVE  /\ off[w] \in Nat /\ At(t, text(w), off[w]) /\ h <= off[w]
             /\ Len(text(w)) \in Nat /\ Len(text(w)) >= 2
             /\ text(w)[1].token = "open" /\ text(w)[Len(text(w))] = Close
             /\ \A j \in 2..Len(text(w)) - 1 : text(w)[j].token = "directive"
  <2> DEFINE l == route.locations[w]
             u == text(w)
  <2>1. off[w] \in Nat /\ At(t, u, off[w]) /\ h <= off[w]
    BY DEF RouteLaid
  <2>2. route.locations[w] \in Locations
    <3>1. route.locations \in Seq(Locations)
      BY LocationsTyped
    <3> QED
      BY <3>1
  <2>3. /\ Len(u) \in Nat /\ Len(u) >= 2
        /\ u[1] = Open("location", l.path) /\ u[Len(u)] = Close
        /\ \A j \in 2..Len(u) - 1 : u[j].token = "directive"
    <3> HIDE DEF l
    <3> QED
      BY <2>2, LocationText DEF l
  <2>4. u[1].token = "open"
    BY <2>3 DEF Open
  <2> HIDE DEF u
  <2> QED
    BY <2>1, <2>3, <2>4 DEF u
<1> HIDE DEF text
<1>3. \A v, w \in 1..n : v < w => off[v] + Len(text(v)) <= off[w]
  BY DEF RouteLaid, text
<1>4. Len(t) \in Nat /\ \A q \in 1..Len(t) : a + q \in 1..Len(fullConfig) /\ fullConfig[a + q] = t[q]
  <2>1. Len(t) \in Nat
    BY RouteText
  <2> QED
    BY <2>1 DEF At
<1> HIDE DEF t
<1>5. i \in Nat /\ fullConfig[i].token = "open" /\ i <= a + h
  <2>1. Open("server", route.name).token = "open"
    BY DEF Open
  <2>2. p \in 1..Len(t) /\ p \in Nat /\ p <= h
    <3>1. h < Len(t)
      BY DEF RouteLaid, t
    <3> QED
      BY <3>1, <1>1, <1>4
  <2> QED
    BY <2>1, <2>2, <1>1, <1>4
<1>6. ASSUME NEW w \in 1..n
      PROVE  /\ off[w] + 1 \in 1..Len(t) /\ off[w] + Len(text(w)) <= Len(t)
             /\ fullConfig[(a + off[w]) + 1].token = "open"
  <2> DEFINE u == text(w)
             o == off[w]
  <2>1. /\ o \in Nat /\ Len(u) \in Nat /\ Len(u) >= 2 /\ u[1].token = "open"
        /\ \A j \in 1..Len(u) : o + j \in 1..Len(t) /\ t[o + j] = u[j]
    BY <1>2 DEF At
  <2> HIDE DEF u, o
  <2>2. 1 \in 1..Len(u) /\ Len(u) \in 1..Len(u)
    BY <2>1
  <2>3. o + 1 \in 1..Len(t) /\ t[o + 1] = u[1] /\ o + Len(u) <= Len(t)
    BY <2>1, <2>2, <1>4
  <2>4. fullConfig[a + (o + 1)] = u[1] /\ a + (o + 1) = (a + o) + 1
    BY <2>1, <2>3, <1>4
  <2> QED
    BY <2>1, <2>3, <2>4 DEF u, o
<1>7. ASSUME NEW x \in i..a + off[k]
      PROVE  Counted("open", i, x) > Counted("close", i, x)
  <2>1. x \in Nat /\ i <= x /\ x <= a + off[k] /\ off[k] \in Nat
    BY <1>2, <1>5
  <2>2. ASSUME NEW c \in i..x, fullConfig[c].token = "close"
        PROVE  \E o \in i + 1..x : fullConfig[o].token = "open" /\ <<c, o>> \in closes
    <3>1. c - a \in 1..Len(t) /\ c - a # Len(t) /\ fullConfig[c] = t[c - a]
      <4> DEFINE y == off[k]
      <4>1. y \in Nat /\ y + 1 \in 1..Len(t) /\ x <= a + y
        BY <1>6, <2>1
      <4> HIDE DEF y
      <4>2. c - a \in 1..Len(t) /\ c - a # Len(t) /\ a + (c - a) = c
        BY <4>1, <1>1, <1>4, <2>1
      <4> QED
        BY <4>2, <1>4
    <3>2. c - a \notin 1..h
      <4> SUFFICES ASSUME c - a \in 1..h PROVE FALSE
        OBVIOUS
      <4>1. c - a = p \/ fullConfig[c] \in HeadTokens
        BY <3>1, <1>1
      <4>2. c - a # p
        <5> SUFFICES ASSUME c - a = p PROVE FALSE
          OBVIOUS
        <5>1. c = i
          BY <1>1
        <5> QED
          BY <5>1, <1>5, <2>2
      <4> QED
        BY <4>1, <4>2, <2>2 DEF HeadTokens
    <3>3. PICK w \in 1..n : (c - a) - off[w] \in 1..Len(text(w))
      BY <1>1, <3>1, <3>2 DEF t, text
    <3> DEFINE u == text(w)
               o == off[w]
               r == (c - a) - o
    <3>4. /\ o \in Nat /\ Len(u) \in Nat /\ Len(u) >= 2 /\ h <= o
          /\ u[1].token = "open" /\ \A j \in 2..Len(u) - 1 : u[j].token = "directive"
          /\ \A j \in 1..Len(u) : t[o + j] = u[j]
          /\ fullConfig[(a + o) + 1].token = "open" /\ r \in 1..Len(u)
      BY <1>2, <1>6, <3>3 DEF At
    <3>5. <<(a + o) + Len(u), (a + o) + 1>> \in closes
      OBVIOUS
    <3> HIDE DEF u, o, closes
    <3>6. o + r = c - a /\ r \in Int
      BY <3>4
    <3>7. u[r].token = "close"
      BY <3>1, <3>4, <3>6, <2>2
    <3> HIDE DEF r
    <3>8. r = Len(u)
      <4>1. r = 1 \/ r = Len(u) \/ r \in 2..Len(u) - 1
        BY <3>4
      <4>2. r # 1
        BY <3>4, <3>7
      <4>3. r \notin 2..Len(u) - 1
        BY <3>4, <3>7
      <4> QED
        BY <4>1, <4>2, <4>3
    <3>9. c = (a + o) + Len(u)
      BY <3>4, <3>6, <3>8
    <3>10. (a + o) + 1 \in i + 1..x
      BY <3>4, <3>9, <1>1, <1>5, <2>1
    <3> QED
      BY <3>4, <3>5, <3>9, <3>10
  <2>3. ASSUME NEW c, NEW d, NEW o, <<c, o>> \in closes, <<d, o>> \in closes
        PROVE  c = d
    <3>1. PICK v \in 1..n : c = (a + off[v]) + Len(text(v)) /\ o = (a + off[v]) + 1
      BY <2>3
    <3>2. PICK w \in 1..n : d = (a + off[w]) + Len(text(w)) /\ o = (a + off[w]) + 1
      BY <2>3
    <3>3. off[v] = off[w]
      <4> DEFINE y == off[v]
                 z == off[w]
      <4>1. y \in Nat /\ z \in Nat /\ o = (a + y) + 1 /\ o = (a + z) + 1
        BY <3>1, <3>2, <1>2
      <4> HIDE DEF y, z
      <4>2. y = z
        BY <4>1
      <4> QED
        BY <4>2 DEF y, z
    <3>4. v = w
      <4>1. /\ off[v] \in Nat /\ off[w] \in Nat
            /\ Len(text(v)) \in Nat /\ Len(text(w)) \in Nat
            /\ Len(text(v)) >= 2 /\ Len(text(w)) >= 2
        BY <1>2
      <4>2. /\ v < w => off[v] + Len(text(v)) <= off[w]
            /\ w < v => off[w] + Len(text(w)) <= off[v]
        BY <1>3
      <4> QED
        BY <3>3, <4>1, <4>2
    <3> QED
      BY <3>1, <3>2, <3>4
  <2> HIDE DEF i, closes
  <2> QED
    BY <2>1, <2>2, <2>3, <1>5, MoreOpen
<1>8. ((a + off[k]) + 1) - 1 = a + off[k]
  BY <1>2
<1> HIDE DEF i
<1>9. OpenAt(i, (a + off[k]) + 1)
  BY <1>5, <1>7, <1>8, OpenWhile
<1> QED
  BY <1>9 DEF i

\* A valid location that does something declares just that.
LEMMA ActionDeclared ==
  ASSUME NEW l \in Locations,
         Cardinality(l.others) + (IF l.upstreamRef = NoName THEN 0 ELSE 1) = 1
  PROVE  Action(l) # <<>> /\ Declared(l) = {Action(l)[1].kind}
<1>1. /\ l.others \subseteq {"proxyPass", "staticContent", "return"}
      /\ IsFiniteSet({"proxyPass", "staticContent", "return"})
  <2>1. Range(ActionOrder) = {"proxyPass", "staticContent", "return"}
    BY DEF Range, ActionOrder
  <2>2. IsFiniteSet(({"proxyPass"} \cup {"staticContent"}) \cup {"return"})
    BY FS_Singleton, FS_AddElement
  <2>3. ({"proxyPass"} \cup {"staticContent"}) \cup {"return"}
          = {"proxyPass", "staticContent", "return"}
    OBVIOUS
  <2>4. l.others \subseteq OtherActions
    BY DEF Locations
  <2> QED
    BY <2>1, <2>2, <2>3, <2>4, GeneratorAssumption
<1>2. IsFiniteSet(l.others)
  BY <1>1, FS_Subset
<1>3. CASE l.upstreamRef # NoName
  <2>1. PICK kind, name : Action(l) = <<Directive(kind, name)>> /\ kind = "proxy_pass"
    BY <1>3, ActionText
  <2>2. Action(l)[1].kind = "proxy_pass"
    BY <2>1 DEF Directive
  <2> QED
    BY <1>3, <2>1, <2>2 DEF Declared
<1>4. CASE l.upstreamRef = NoName
  <2>1. Cardinality(l.others) = 1
    <3>1. Cardinality(l.others) \in Nat
      BY <1>2, FS_CardinalityType
    <3> QED
      BY <1>4, <3>1
  <2>2. PICK x : l.others = {x}
    BY <1>2, <2>1, FS_Singleton
  <2>3. PICK kind, name : Action(l) = <<Directive(kind, name)>> /\ kind \in l.others
    BY <1>4, <2>2, ActionText
  <2>4. Action(l)[1].kind = x
    BY <2>2, <2>3 DEF Directive
  <2> QED
    BY <1>4, <2>2, <2>3, <2>4 DEF Declared
<1> QED
  BY <1>3, <1>4

\* What opens a location in a generated text opens the block of a location of
\* some route.
LEMMA LocationPlaces ==
  ASSUME Assembled, Generated, NEW q \in Where("open", "location")
  PROVE  /\ q \in Nat /\ q >= 1
         /\ \E route \in RouteInputs, l \in Locations : BlockAt(q, route, l)
<1> DEFINE token == fullConfig[q]
<1>1. /\ q \in 1..Len(fullConfig) /\ token.token = "open" /\ token.kind = "location"
      /\ routes \in Seq(RouteInputs)
  <2>1. fullConfig \in Seq(Tokens) /\ routes \in Seq(RouteInputs)
    BY GeneratedLaid DEF Assembled, InputsTyped
  <2> QED
    BY <2>1 DEF Where
<1>2. token \notin MainTokens \cup UpstreamTokens \cup HeadTokens \cup {Close}
  <2>1. Close.kind = ""
    BY DEF Close
  <2> HIDE DEF token
  <2>2. token # Close /\ token \notin MainTokens /\ token \notin UpstreamTokens
        /\ token \notin HeadTokens
    BY <1>1, <2>1 DEF MainTokens, UpstreamTokens, HeadTokens
  <2> QED
    BY <2>2
<1>3. ~\E i \in 1..Len(routes) : token = Open("server", routes[i].name)
  <2>1. \A name : Open("server", name).kind = "server"
    BY DEF Open
  <2> HIDE DEF token
  <2> QED
    BY <1>1, <2>1
<1>4. PICK i \in 1..Len(routes) : \E k \in 1..Len(routes[i].locations) :
        \E s \in Nat : InBlock(q, s, routes[i], routes[i].locations[k])
  <2> HIDE DEF token
  <2> QED
    BY <1>1, <1>2, <1>3, Places DEF token
<1>5. PICK k \in 1..Len(routes[i].locations) :
        \E s \in Nat : InBlock(q, s, routes[i], routes[i].locations[k])
  BY <1>4
<1> DEFINE route == routes[i]
           l == route.locations[k]
           t == LocationConfig(route, l)
<1>6. PICK s \in Nat : InBlock(q, s, route, l)
  BY <1>5
<1>7. route \in RouteInputs /\ route.locations \in Seq(Locations)
  <2>1. route \in RouteInputs
    BY <1>1
  <2> QED
    BY <2>1, LocationsTyped
<1>8. l \in Locations
  BY <1>7
<1> HIDE DEF route, l
<1>9. /\ t[Len(t)] = Close /\ Len(t) \in Nat
      /\ \A j \in 2..Len(t) - 1 : t[j].token = "directive"
  BY <1>7, <1>8, LocationText
<1>10. (q - s) + 1 \in 1..Len(t) /\ token = t[(q - s) + 1]
  BY <1>6 DEF InBlock
<1> HIDE DEF t
<1>11. q = s
  <2>1. (q - s) + 1 # Len(t)
    <3>1. Close.token = "close"
      BY DEF Close
    <3> QED
      BY <3>1, <1>1, <1>9, <1>10
  <2>2. (q - s) + 1 \notin 2..Len(t) - 1
    BY <1>1, <1>9, <1>10
  <2>3. (q - s) + 1 = 1
    BY <2>1, <2>2, <1>1, <1>9, <1>10
  <2> QED
    BY <2>3, <1>1
<1> QED
  BY <1>1, <1>6, <1>7, <1>8, <1>11 DEF InBlock

\* No location of any route is told to do two things, and the locations of a
\* valid route do what they declare, each inside the block of its server.
THEOREM LocationsAlwaysAct == Spec => []LocationsActAsDeclared
<1>1. ASSUME Assembled, Generated, NEW q \in Where("open", "location")
      PROVE  Cardinality(KindsIn(q) \cap ActionKinds) <= 1
  <2>1. q \in Nat /\ q >= 1 /\ fullConfig \in Seq(Tokens)
    BY <1>1, LocationPlaces, GeneratedLaid
  <2>2. PICK route \in RouteInputs, l \in Locations : BlockAt(q, route, l)
    BY <1>1, LocationPlaces
  <2>3. \/ KindsIn(q) \cap ActionKinds = {}
        \/ KindsIn(q) \cap ActionKinds = {Action(l)[1].kind}
    BY <2>1, <2>2, BlockKinds
  <2> QED
    <3>1. Cardinality({}) = 0 /\ \A x : Cardinality({x}) = 1
      BY FS_EmptySet, FS_Singleton
    <3>2. Cardinality(KindsIn(q) \cap ActionKinds) \in {0, 1}
      BY <2>3, <3>1
    <3> QED
      BY <3>2
<1>2. ASSUME Assembled, Generated, NEW r \in Range(routes), ValidateNginxRoute(r),
             NEW l \in Range(r.locations)
      PROVE  \E i \in Where("open", "server"), j \in Where("open", "location") :
               /\ fullConfig[i].name = r.name /\ OpenAt(i, j)
               /\ fullConfig[j].name = l.path
               /\ KindsIn(j) \cap ActionKinds = Declared(l)
  <2>1. /\ routes \in Seq(RouteInputs) /\ InputsTyped /\ fullConfig \in Seq(Tokens)
        /\ DOMAIN routes = 1..Len(routes)
    BY <1>2, GeneratedLaid DEF Assembled, InputsTyped
  <2>2. r \in RouteInputs
    BY <2>1 DEF Range
  <2>3. r.locations \in Seq(Locations)
    BY <2>2, LocationsTyped
  <2>4. PICK x \in 1..Len(r.locations) : l = r.locations[x]
    BY <2>3 DEF Range
  <2>5. l \in Locations
    BY <2>3, <2>4
  <2>6. PICK order \in SortedOrders :
          \E m, b, off : ConfigLaid(fullConfig, order, m, b, off)
    BY <1>2, GeneratedLaid
  <2>7. PICK m, b, off : ConfigLaid(fullConfig, order, m, b, off)
    BY <2>6
  <2>8. PICK y \in 1..Len(routes) : routes[order[y]] = r
    <3>1. PICK z \in 1..Len(routes) : routes[z] = r
      BY <2>1 DEF Range
    <3> QED
      BY <3>1, <2>1, <2>6, OrdersCover
  <2> DEFINE a == off[y]
  <2>9. a \in Nat /\ At(fullConfig, RouteConfig(r), a)
    BY <2>7, <2>8 DEF ConfigLaid
  <2> HIDE DEF a
  <2>10. PICK p, h, o : RouteLaid(RouteConfig(r), r, p, h, o)
    BY <2>2, RouteText
  <2> DEFINE i == a + p
             j == (a + o[x]) + 1
  <2>11. i \in 1..Len(fullConfig) /\ fullConfig[i] = Open("server", r.name)
    BY <2>2, <2>9, <2>10, ServerInText
  <2>12. OpenAt(i, j)
    BY <2>1, <2>2, <2>4, <2>9, <2>10, ServerEncloses
  <2>13. o[x] \in Nat /\ At(RouteConfig(r), LocationConfig(r, l), o[x])
    BY <2>4, <2>10 DEF RouteLaid
  <2>14. At(fullConfig, LocationConfig(r, l), a + o[x])
    BY <2>9, <2>13, AtAt
  <2>15. j \in Nat /\ j >= 1 /\ BlockAt(j, r, l)
    <3>1. j \in Nat /\ j >= 1 /\ j - 1 = a + o[x]
      BY <2>9, <2>13
    <3> QED
      BY <3>1, <2>14 DEF BlockAt
  <2> HIDE DEF i, j
  <2>16. j \in 1..Len(fullConfig) /\ fullConfig[j] = Open("location", l.path)
    <3>1. PICK e \in Nat : /\ j < e /\ e <= Len(fullConfig)
                           /\ fullConfig[j] = Open("location", l.path)
      BY <2>1, <2>2, <2>5, <2>15, BlockText
    <3>2. Len(fullConfig) \in Nat
      BY <2>1
    <3> QED
      BY <2>15, <3>1, <3>2
  <2>17. KindsIn(j) \cap ActionKinds = Declared(l)
    <3>1. Cardinality(l.others) + (IF l.upstreamRef = NoName THEN 0 ELSE 1) = 1
      BY <1>2 DEF ValidateNginxRoute
    <3>2. Action(l) # <<>> /\ Declared(l) = {Action(l)[1].kind}
      BY <2>5, <3>1, ActionDeclared
    <3> QED
      BY <2>1, <2>2, <2>5, <2>15, <3>2, BlockKinds
  <2>18. i \in Where("open", "server") /\ fullConfig[i].name = r.name
    BY <2>1, <2>11 DEF Where, Open
  <2>19. j \in Where("open", "location") /\ fullConfig[j].name = l.path
    BY <2>1, <2>16 DEF Where, Open
  <2> QED
    BY <2>12, <2>17, <2>18, <2>19
<1>3. Assembled => LocationsActAsDeclared
  BY <1>1, <1>2 DEF LocationsActAsDeclared
<1> QED
  BY <1>3, AlwaysAssembled, PTL
=============================================================================
