---------------------------- MODULE Chunked_proofs ----------------------------
EXTENDS Chunked, SequenceTheorems, FiniteSetTheorems, WellFoundedInduction, TLAPS

(* Induction on the naturals, for the set of those that have a property.   *)
LEMMA EveryNat ==
  ASSUME NEW T \in SUBSET Nat, 0 \in T, \A n \in T : n + 1 \in T
  PROVE  T = Nat
<1> SUFFICES ASSUME Nat \ T # {} PROVE FALSE
  OBVIOUS
<1>1. PICK n \in Nat \ T : \A m \in Nat \ T : ~ (<<m, n>> \in OpToRel(<, Nat))
  BY NatLessThanWellFounded, WFMin
<1>2. \A m \in Nat \ T : ~ (m < n)
  BY <1>1 DEF OpToRel
<1>3. n - 1 \in T
  BY <1>2
<1> QED
  BY <1>3

(* The definition of FlattenSeq by recursion describes a function: what it *)
(* is for the first i sequences.                                           *)
LEMMA Flattens ==
  ASSUME NEW S, NEW ss \in Seq(Seq(S))
  PROVE  \E f \in [0 .. Len(ss) -> Seq(S)] :
           /\ f[0] = <<>> /\ FlattenSeq(ss) = f[Len(ss)]
           /\ \A i \in 1 .. Len(ss) : f[i] = f[i - 1] \o ss[i]
<1> DEFINE Rhs(g, i) == IF i = 1 THEN ss[i] ELSE g[i - 1] \o ss[i]
           Solves(g, n) == g = [i \in 1 .. n |-> Rhs(g, i)]
           T == {n \in Nat : n <= Len(ss) => \E g \in [1 .. n -> Seq(S)] : Solves(g, n)}
           flatten == CHOOSE g : Solves(g, Len(ss))
<1>1. Len(ss) \in Nat /\ DOMAIN ss = 1 .. Len(ss) /\ \A i \in 1 .. Len(ss) : ss[i] \in Seq(S)
  OBVIOUS
<1>2. 0 \in T
  <2>1. <<>> \in [1 .. 0 -> Seq(S)] /\ Solves(<<>>, 0)
    OBVIOUS
  <2> QED
    BY <2>1
<1>3. ASSUME NEW n \in T PROVE n + 1 \in T
  <2> SUFFICES ASSUME n + 1 <= Len(ss) PROVE \E g \in [1 .. n + 1 -> Seq(S)] : Solves(g, n + 1)
    <3> HIDE DEF Solves
    <3> QED OBVIOUS
  <2>1. PICK g \in [1 .. n -> Seq(S)] : Solves(g, n)
    <3> HIDE DEF Solves
    <3> QED BY <1>1
  <2> DEFINE h == [i \in 1 .. n + 1 |-> Rhs(g, i)]
  <2>2. ASSUME NEW i \in 1 .. n PROVE h[i] = g[i]
    <3> HIDE DEF Rhs
    <3>1. h[i] = Rhs(g, i)
      OBVIOUS
    <3> QED
      BY <2>1, <3>1
  <2>3. ASSUME NEW i \in 1 .. n + 1 PROVE Rhs(h, i) = Rhs(g, i) /\ Rhs(g, i) \in Seq(S)
    <3>1. CASE i = 1
      BY <1>1, <3>1
    <3>2. CASE i # 1
      <4>1. i - 1 \in 1 .. n /\ ss[i] \in Seq(S)
        BY <1>1, <3>2
      <4>2. h[i - 1] = g[i - 1] /\ g[i - 1] \in Seq(S)
        BY <4>1, <2>2
      <4> HIDE DEF h
      <4> QED
        BY <3>2, <4>1, <4>2
    <3> QED
      BY <3>1, <3>2
  <2>4. h \in [1 .. n + 1 -> Seq(S)] /\ Solves(h, n + 1)
    <3> HIDE DEF Rhs
    <3>1. h = [i \in 1 .. n + 1 |-> Rhs(g, i)]
      OBVIOUS
    <3> HIDE DEF h
    <3> QED
      BY <2>3, <3>1
  <2> HIDE DEF h, Solves
  <2> QED
    BY <2>4
<1>4. \E g \in [1 .. Len(ss) -> Seq(S)] : Solves(g, Len(ss))
  <2>1. T \subseteq Nat
    OBVIOUS
  <2> HIDE DEF T
  <2>2. Len(ss) \in T
    BY <1>1, <1>2, <1>3, <2>1, EveryNat
  <2> HIDE DEF Solves
  <2> QED
    BY <1>1, <2>2 DEF T
<1>5. Solves(flatten, Len(ss))
  <2> HIDE DEF Solves
  <2> QED
    BY <1>4
<1>6. FlattenSeq(ss) = IF Len(ss) = 0 THEN ss ELSE flatten[Len(ss)]
  BY DEF FlattenSeq
<1>7. flatten \in [1 .. Len(ss) -> Seq(S)]
  <2> DEFINE W == {n \in Nat : n + 1 <= Len(ss) => flatten[n + 1] \in Seq(S)}
  <2> HIDE DEF flatten
  <2>1. 0 \in W
    BY <1>1, <1>5
  <2>2. ASSUME NEW n \in W PROVE n + 1 \in W
    <3> SUFFICES ASSUME n + 2 <= Len(ss) PROVE flatten[n + 2] \in Seq(S)
      OBVIOUS
    <3>1. flatten[n + 2] = flatten[n + 1] \o ss[n + 2]
      <4>1. PICK j \in 1 .. Len(ss) : j = n + 2 /\ j # 1 /\ j - 1 = n + 1
        BY <1>1
      <4>2. flatten[j] = flatten[j - 1] \o ss[j]
        BY <1>5, <4>1
      <4> QED
        BY <4>1, <4>2
    <3>2. flatten[n + 1] \in Seq(S) /\ ss[n + 2] \in Seq(S)
      BY <1>1
    <3> QED
      BY <3>1, <3>2
  <2>3. W = Nat
    <3>1. W \subseteq Nat
      OBVIOUS
    <3> HIDE DEF W
    <3> QED
      BY <2>1, <2>2, <3>1, EveryNat
  <2>4. ASSUME NEW i \in 1 .. Len(ss) PROVE flatten[i] \in Seq(S)
    <3>1. i - 1 \in Nat /\ i - 1 + 1 = i /\ i <= Len(ss)
      BY <1>1
    <3> QED
      BY <3>1, <2>3
  <2> QED
    BY <1>5, <2>4
<1> DEFINE f == [i \in 0 .. Len(ss) |-> IF i = 0 THEN <<>> ELSE flatten[i]]
<1> HIDE DEF flatten
<1>8. f \in [0 .. Len(ss) -> Seq(S)] /\ f[0] = <<>>
  BY <1>1, <1>7
<1>9. FlattenSeq(ss) = f[Len(ss)]
  BY <1>1, <1>6
<1>10. ASSUME NEW i \in 1 .. Len(ss) PROVE f[i] = f[i - 1] \o ss[i]
  <2>1. flatten[i] = Rhs(flatten, i) /\ ss[i] \in Seq(S)
    BY <1>1, <1>5
  <2>2. f[i] = flatten[i]
    BY <1>1
  <2>3. CASE i = 1
    BY <2>1, <2>2, <2>3, <1>1
  <2>4. CASE i # 1
    BY <2>1, <2>2, <2>4, <1>1
  <2> QED
    BY <2>3, <2>4
<1> HIDE DEF f
<1> QED
  BY <1>8, <1>9, <1>10
(* Where the parts of a concatenation are.                                 *)
LaidOut(parts) ==
  LET whole == FlattenSeq(parts)
      o     == Offsets(parts)
  IN
  /\ o \in [0 .. Len(parts) -> Nat] /\ o[0] = 0 /\ o[Len(parts)] = Len(whole)
  /\ \A i \in 1 .. Len(parts) :
       /\ o[i] = o[i - 1] + Len(parts[i])
       /\ \A j \in 1 .. Len(parts[i]) : whole[o[i - 1] + j] = parts[i][j]
  /\ \A i \in 0 .. Len(parts) : o[i] <= Len(whole)

LEMMA Layout ==
  ASSUME NEW S, NEW ss \in Seq(Seq(S))
  PROVE  FlattenSeq(ss) \in Seq(S) /\ LaidOut(ss)
<1>1. PICK f \in [0 .. Len(ss) -> Seq(S)] :
        /\ f[0] = <<>> /\ FlattenSeq(ss) = f[Len(ss)]
        /\ \A i \in 1 .. Len(ss) : f[i] = f[i - 1] \o ss[i]
  BY Flattens
<1>2. Len(ss) \in Nat /\ \A i \in 1 .. Len(ss) : ss[i] \in Seq(S) /\ Len(ss[i]) \in Nat
  OBVIOUS
<1>0. ASSUME NEW i \in 1 .. Len(ss) PROVE f[i] = f[i - 1] \o ss[i]
  BY <1>1
<1> DEFINE Rhs(e, k) == IF k = 0 THEN 0 ELSE e[k - 1] + Len(ss[k])
           Solves(e) == e = [k \in 0 .. Len(ss) |-> Rhs(e, k)]
           o == CHOOSE e : Solves(e)
           g == [k \in 0 .. Len(ss) |-> Len(f[k])]
<1>3. Offsets(ss) = o
  BY DEF Offsets
<1>4. Solves(g)
  <2>1. ASSUME NEW k \in 0 .. Len(ss) PROVE g[k] = Rhs(g, k)
    <3>1. CASE k = 0
      BY <1>1, <1>2, <3>1
    <3>2. CASE k # 0
      <4>1. k \in 1 .. Len(ss) /\ k - 1 \in 0 .. Len(ss)
        BY <1>2, <3>2
      <4>2. f[k] = f[k - 1] \o ss[k] /\ f[k - 1] \in Seq(S) /\ ss[k] \in Seq(S)
        BY <1>1, <1>2, <4>1
      <4>3. Len(f[k]) = Len(f[k - 1]) + Len(ss[k])
        BY <4>2
      <4> QED
        BY <3>2, <4>1, <4>3
    <3> QED
      BY <3>1, <3>2
  <2> HIDE DEF Rhs
  <2> QED
    BY <2>1
<1>5. Solves(o)
  <2> HIDE DEF Solves
  <2> QED
    BY <1>4
<1> HIDE DEF o
<1>6. ASSUME NEW k \in 0 .. Len(ss) PROVE o[k] = Len(f[k])
  <2> DEFINE W == {n \in Nat : n <= Len(ss) => o[n] = Len(f[n])}
  <2>1. 0 \in W
    BY <1>1, <1>2, <1>5
  <2>2. ASSUME NEW n \in W PROVE n + 1 \in W
    <3> SUFFICES ASSUME n + 1 <= Len(ss) PROVE o[n + 1] = Len(f[n + 1])
      OBVIOUS
    <3>1. n \in 0 .. Len(ss) /\ n + 1 \in 1 .. Len(ss) /\ o[n] = Len(f[n])
      BY <1>2
    <3>2. o[n + 1] = o[n] + Len(ss[n + 1])
      BY <1>5, <3>1
    <3>3. f[n + 1] = f[n] \o ss[n + 1] /\ f[n] \in Seq(S) /\ ss[n + 1] \in Seq(S)
      <4>1. PICK m \in 1 .. Len(ss) : m = n + 1 /\ m - 1 = n
        BY <3>1
      <4>2. f[m] = f[m - 1] \o ss[m]
        BY <1>0
      <4>3. f[n] \in Seq(S) /\ ss[n + 1] \in Seq(S)
        BY <1>1, <1>2, <3>1
      <4> QED
        BY <4>1, <4>2, <4>3
    <3> QED
      BY <3>1, <3>2, <3>3
  <2>3. W = Nat
    <3>1. W \subseteq Nat
      OBVIOUS
    <3> HIDE DEF W
    <3> QED
      BY <2>1, <2>2, <3>1, EveryNat
  <2> QED
    BY <1>2, <2>3
<1>7. o \in [0 .. Len(ss) -> Nat] /\ o[0] = 0 /\ o[Len(ss)] = Len(FlattenSeq(ss))
  <2>1. DOMAIN o = 0 .. Len(ss) /\ o = [k \in 0 .. Len(ss) |-> o[k]]
    BY <1>5
  <2>2. 0 \in 0 .. Len(ss) /\ Len(ss) \in 0 .. Len(ss)
    BY <1>2
  <2>3. ASSUME NEW k \in 0 .. Len(ss) PROVE o[k] \in Nat
    BY <1>1, <1>6
  <2>4. o[0] = 0
    BY <1>5, <2>2
  <2> QED
    BY <2>1, <2>2, <2>3, <2>4, <1>1, <1>6
<1>8. ASSUME NEW i \in 1 .. Len(ss) PROVE i - 1 \in 0 .. Len(ss) /\ o[i] = o[i - 1] + Len(ss[i])
  <2>1. i \in 0 .. Len(ss) /\ i # 0 /\ i - 1 \in 0 .. Len(ss)
    BY <1>2
  <2>2. o[i] = Rhs(o, i)
    <3> HIDE DEF Rhs
    <3> QED
      BY <1>5, <2>1
  <2> QED
    BY <2>1, <2>2
(* What the first n parts have stays in place when more are added.         *)
<1> DEFINE Kept(n) ==
     /\ \A i \in 1 .. n : \A j \in 1 .. Len(ss[i]) : f[n][o[i - 1] + j] = ss[i][j]
     /\ \A i \in 0 .. n : o[i] <= o[n]
<1>9. Kept(Len(ss))
  <2> DEFINE W == {n \in Nat : n <= Len(ss) => Kept(n)}
  <2>1. 0 \in W
    BY <1>2, <1>7
  <2>2. ASSUME NEW n \in W PROVE n + 1 \in W
    <3> SUFFICES ASSUME n + 1 <= Len(ss) PROVE Kept(n + 1)
      <4> HIDE DEF Kept
      <4> QED OBVIOUS
    <3>1. n \in 0 .. Len(ss) /\ n + 1 \in 1 .. Len(ss) /\ Kept(n)
      BY <1>2
    <3>0. n + 1 - 1 = n
      OBVIOUS
    <3>2. f[n + 1] = f[n] \o ss[n + 1] /\ f[n] \in Seq(S) /\ ss[n + 1] \in Seq(S) /\ o[n] = Len(f[n])
      <4>1. PICK m \in 1 .. Len(ss) : m = n + 1 /\ m - 1 = n
        BY <3>1
      <4>2. f[n] \in Seq(S) /\ o[n] = Len(f[n])
        BY <1>1, <1>6, <3>1
      <4>3. f[m] = f[m - 1] \o ss[m]
        BY <1>0
      <4>4. ss[m] \in Seq(S)
        BY <1>2
      <4> QED
        BY <4>1, <4>2, <4>3, <4>4
    <3>3. o[n + 1] = o[n] + Len(ss[n + 1]) /\ o[n] \in Nat /\ Len(ss[n + 1]) \in Nat
      <4>1. o[n + 1] = o[n + 1 - 1] + Len(ss[n + 1]) /\ Len(ss[n + 1]) \in Nat
        BY <1>8, <1>2, <3>1
      <4>2. o[n] \in Nat
        BY <1>7, <3>1
      <4> QED
        BY <4>1, <4>2, <3>0
    <3>4. ASSUME NEW i \in 1 .. n, NEW j \in 1 .. Len(ss[i])
          PROVE  f[n + 1][o[i - 1] + j] = ss[i][j]
      <4>1. i \in 1 .. Len(ss) /\ i - 1 \in 0 .. Len(ss) /\ i \in 0 .. n /\ i \in 0 .. Len(ss)
        BY <3>1, <1>2
      <4>2. o[i - 1] \in Nat /\ o[i] = o[i - 1] + Len(ss[i]) /\ o[i] <= o[n] /\ Len(ss[i]) \in Nat
        BY <4>1, <3>1, <1>7, <1>8, <1>2
      <4>5. o[n] = Len(f[n]) /\ o[n] \in Nat
        BY <3>2, <3>3
      <4>3. o[i - 1] + j \in 1 .. Len(f[n])
        <5> DEFINE a == o[i - 1]  b == o[n]  c == Len(ss[i])
        <5>1. a \in Nat /\ b \in Nat /\ c \in Nat /\ a + c <= b /\ j \in 1 .. c
          BY <4>2, <4>5
        <5> HIDE DEF a, b, c
        <5>2. a + j \in 1 .. b
          BY <5>1
        <5> QED
          BY <5>2, <4>5 DEF a, b
      <4>6. ASSUME NEW q \in 1 .. Len(f[n]) PROVE f[n + 1][q] = f[n][q]
        <5> DEFINE a == f[n]  b == ss[n + 1]
        <5>1. a \in Seq(S) /\ b \in Seq(S) /\ f[n + 1] = a \o b /\ q \in 1 .. Len(a)
          BY <3>2
        <5> HIDE DEF a, b
        <5>2. (a \o b)[q] = a[q]
          BY <5>1
        <5> QED
          BY <5>1, <5>2 DEF a
      <4>4. f[n + 1][o[i - 1] + j] = f[n][o[i - 1] + j]
        BY <4>3, <4>6
      <4> QED
        BY <4>4, <3>1
    <3>5. ASSUME NEW j \in 1 .. Len(ss[n + 1]) PROVE f[n + 1][o[n] + j] = ss[n + 1][j]
      <4> DEFINE a == f[n]  b == ss[n + 1]
      <4>1. a \in Seq(S) /\ b \in Seq(S) /\ f[n + 1] = a \o b /\ o[n] = Len(a) /\ j \in 1 .. Len(b)
        BY <3>2
      <4> HIDE DEF a, b
      <4>2. (a \o b)[Len(a) + j] = b[j]
        BY <4>1
      <4> QED
        BY <4>1, <4>2 DEF b
    <3>6. ASSUME NEW i \in 0 .. n + 1 PROVE o[i] <= o[n + 1]
      <4>1. CASE i = n + 1
        BY <4>1, <3>3
      <4>2. CASE i # n + 1
        <5>1. i \in 0 .. n /\ i \in 0 .. Len(ss)
          BY <4>2, <3>1, <1>2
        <5>2. o[i] <= o[n] /\ o[i] \in Nat
          BY <5>1, <3>1, <1>7
        <5> QED
          BY <5>2, <3>3
      <4> QED
        BY <4>1, <4>2
    <3>7. ASSUME NEW i \in 1 .. n + 1, NEW j \in 1 .. Len(ss[i])
          PROVE  f[n + 1][o[i - 1] + j] = ss[i][j]
      <4>1. CASE i = n + 1
        BY <4>1, <3>5, <3>1
      <4>2. CASE i # n + 1
        <5>1. i \in 1 .. n
          BY <4>2, <3>1
        <5> QED
          BY <5>1, <3>4
      <4> QED
        BY <4>1, <4>2
    <3> QED
      BY <3>6, <3>7
  <2>3. W = Nat
    <3>1. W \subseteq Nat
      OBVIOUS
    <3> HIDE DEF W
    <3> QED
      BY <2>1, <2>2, <3>1, EveryNat
  <2> HIDE DEF Kept
  <2> QED
    BY <1>2, <2>3
<1>10. \A i \in 1 .. Len(ss) : \A j \in 1 .. Len(ss[i]) : FlattenSeq(ss)[o[i - 1] + j] = ss[i][j]
  BY <1>1, <1>9
<1>11. \A i \in 0 .. Len(ss) : o[i] <= Len(FlattenSeq(ss))
  BY <1>7, <1>9
<1>12. FlattenSeq(ss) \in Seq(S)
  BY <1>1, <1>2
<1> QED
  BY <1>3, <1>7, <1>8, <1>10, <1>11, <1>12 DEF LaidOut

-----------------------------------------------------------------------------
(* The decoder's scans.                                                    *)

(* The digits at the head of a block are counted.                          *)
LEMMA Leads ==
  ASSUME NEW s \in Seq(Chars), NEW n \in 0 .. Len(s),
         \A i \in 1 .. n : s[i] \in Digit,
         n < Len(s) => s[n + 1] \notin Digit
  PROVE  LeadingDigits(s) = n
<1> DEFINE Heads(m) == (\A i \in 1 .. m : s[i] \in Digit) /\ (m < Len(s) => s[m + 1] \notin Digit)
<1>1. Len(s) \in Nat /\ Heads(n)
  OBVIOUS
<1>2. ASSUME NEW m \in 0 .. Len(s), Heads(m) PROVE m = n
  <2>1. CASE m < n
    <3>1. m + 1 \in 1 .. n /\ m < Len(s)
      BY <1>1, <2>1
    <3> QED
      BY <3>1, <1>2
  <2>2. CASE n < m
    <3>1. n + 1 \in 1 .. m /\ n < Len(s)
      BY <1>1, <2>2
    <3> QED
      BY <3>1, <1>1, <1>2
  <2> QED
    BY <2>1, <2>2, <1>1
<1>3. LeadingDigits(s) = CHOOSE m \in 0 .. Len(s) : Heads(m)
  BY DEF LeadingDigits
<1> HIDE DEF Heads
<1> QED
  BY <1>1, <1>2, <1>3

(* The recursive function of SearchLF does what its definition says.       *)
LEMMA Searches ==
  ASSUME NEW s \in Seq(Chars), NEW p \in 1 .. Len(s) + 1
  PROVE  LET CRs == {i \in p .. Len(s) : s[i] = "cr"}
             i   == CHOOSE j \in CRs : \A k \in CRs : j <= k
         IN  SearchLF(s, p) = IF CRs = {} THEN 0
                              ELSE IF i = Len(s) THEN Len(s) + 1
                              ELSE IF s[i + 1] = "lf" THEN i + 1
                              ELSE SearchLF(s, i + 2)
<1> DEFINE L == Len(s)
           CRs(q) == {i \in q .. L : s[i] = "cr"}
           first(q) == CHOOSE j \in CRs(q) : \A k \in CRs(q) : j <= k
           Rhs(g, q) == IF CRs(q) = {} THEN 0
                        ELSE IF first(q) = L THEN L + 1
                        ELSE IF s[first(q) + 1] = "lf" THEN first(q) + 1
                        ELSE g[first(q) + 2]
           Solves(g, n) == g = [q \in n .. L + 2 |-> Rhs(g, q)]
           T == {n \in Nat : n <= L + 1 => \E g : Solves(g, L + 2 - n)}
           search == CHOOSE g : Solves(g, 1)
<1>1. L \in Nat
  OBVIOUS
<1> HIDE DEF L
<1>2. ASSUME NEW q \in Nat, CRs(q) # {}
      PROVE  first(q) \in q .. L
  <2>1. CRs(q) \subseteq Nat
    BY <1>1
  <2> HIDE DEF CRs
  <2>2. PICK j \in CRs(q) : \A k \in CRs(q) : ~ (<<k, j>> \in OpToRel(<, Nat))
    BY <1>2, <2>1, NatLessThanWellFounded, WFMin
  <2>3. ASSUME NEW k \in CRs(q) PROVE j <= k
    <3>1. k \in Nat /\ j \in Nat
      BY <2>1
    <3>2. ~ (k < j)
      BY <2>2, <3>1 DEF OpToRel
    <3> QED
      BY <3>1, <3>2
  <2>4. first(q) \in CRs(q)
    BY <2>3
  <2> QED
    BY <2>4 DEF CRs
<1> HIDE DEF CRs, first
<1>3. 0 \in T
  <2> DEFINE g == [q \in L + 2 .. L + 2 |-> 0]
  <2>1. CRs(L + 2) = {}
    BY <1>1 DEF CRs
  <2>2. \A q \in L + 2 .. L + 2 : Rhs(g, q) = 0
    BY <1>1, <2>1
  <2>3. Solves(g, L + 2 - 0)
    BY <1>1, <2>2
  <2> QED
    BY <2>3
<1>4. ASSUME NEW n \in T PROVE n + 1 \in T
  <2> SUFFICES ASSUME n + 1 <= L + 1 PROVE \E g : Solves(g, L + 2 - (n + 1))
    <3> HIDE DEF Solves
    <3> QED OBVIOUS
  <2> DEFINE m == L + 2 - n
  <2>1. PICK g : Solves(g, m)
    <3> HIDE DEF Solves
    <3> QED BY <1>1
  <2>2. m \in Nat /\ m - 1 \in Nat /\ m - 1 >= 1 /\ m <= L + 2 /\ L + 2 - (n + 1) = m - 1
    BY <1>1
  <2> HIDE DEF m
  <2> DEFINE h == [q \in m - 1 .. L + 2 |-> Rhs(g, q)]
  <2>3. ASSUME NEW q \in m .. L + 2 PROVE h[q] = g[q]
    <3>1. q \in m - 1 .. L + 2
      BY <2>2, <1>1
    <3> HIDE DEF Rhs
    <3> QED
      BY <2>1, <3>1
  <2>4. ASSUME NEW q \in m - 1 .. L + 2 PROVE Rhs(h, q) = Rhs(g, q)
    <3>1. CASE CRs(q) = {} \/ first(q) = L
      BY <3>1
    <3>2. CASE CRs(q) # {} /\ first(q) # L
      <4>1. q \in Nat
        BY <2>2, <1>1
      <4>2. first(q) \in q .. L
        BY <3>2, <4>1, <1>2
      <4>3. first(q) + 2 \in m .. L + 2
        BY <4>2, <4>1, <2>2, <1>1, <3>2
      <4> HIDE DEF h
      <4> QED
        BY <4>3, <2>3
    <3> QED
      BY <3>1, <3>2
  <2>5. Solves(h, m - 1)
    <3> HIDE DEF Rhs
    <3> QED
      BY <2>4
  <2> HIDE DEF h, Solves
  <2> QED
    BY <2>2, <2>5
<1>5. Solves(search, 1)
  <2>1. T = Nat
    <3>1. T \subseteq Nat
      OBVIOUS
    <3> HIDE DEF T
    <3> QED
      BY <1>3, <1>4, <3>1, EveryNat
  <2>2. L + 2 - (L + 1) = 1 /\ L + 1 \in Nat /\ L + 1 <= L + 1
    BY <1>1
  <2> HIDE DEF Solves
  <2>3. \E g : Solves(g, L + 2 - (L + 1))
    BY <2>1, <2>2
  <2>4. \E g : Solves(g, 1)
    BY <2>2, <2>3
  <2> QED
    BY <2>4
<1>6. \A q : SearchLF(s, q) = search[q]
  BY DEF SearchLF, CRs, first, L
<1> HIDE DEF search
<1>7. search[p] = Rhs(search, p)
  <2>1. p \in 1 .. L + 2
    BY <1>1 DEF L
  <2> HIDE DEF Rhs
  <2> QED
    BY <1>5, <2>1
<1> QED
  BY <1>6, <1>7 DEF CRs, first, L

(* What it finds where the first CR is at x and an LF follows it.          *)
LEMMA FindsReturn ==
  ASSUME NEW s \in Seq(Chars), NEW x \in Nat \ {0}, s # <<>>,
         \A i \in 1 .. Len(s) : i < x => s[i] # "cr",
         x <= Len(s) => s[x] = "cr",
         x < Len(s) => s[x + 1] = "lf"
  PROVE  SearchLF(s, 1) = IF Len(s) < x THEN 0 ELSE x + 1
<1> DEFINE CRs == {i \in 1 .. Len(s) : s[i] = "cr"}
           first == CHOOSE j \in CRs : \A k \in CRs : j <= k
<1>1. Len(s) \in Nat /\ 1 \in 1 .. Len(s) + 1
  OBVIOUS
<1>2. SearchLF(s, 1) = IF CRs = {} THEN 0
                       ELSE IF first = Len(s) THEN Len(s) + 1
                       ELSE IF s[first + 1] = "lf" THEN first + 1
                       ELSE SearchLF(s, first + 2)
  BY <1>1, Searches
<1>3. CASE Len(s) < x
  <2>1. CRs = {}
    BY <1>1, <1>3
  <2> HIDE DEF first
  <2> QED
    BY <1>2, <1>3, <2>1
<1>4. CASE x <= Len(s)
  <2>1. x \in CRs /\ CRs \subseteq Nat
    BY <1>1, <1>4
  <2>2. ASSUME NEW k \in CRs PROVE x <= k
    BY <1>1, <1>4
  <2> HIDE DEF CRs
  <2>3. first \in CRs /\ \A k \in CRs : first <= k
    BY <2>1, <2>2
  <2>5. first \in Nat /\ x \in Nat /\ first <= x /\ x <= first
    <3> HIDE DEF first
    <3> QED
      BY <2>1, <2>2, <2>3
  <2>4. first = x
    <3> HIDE DEF first
    <3> QED
      BY <2>5
  <2> HIDE DEF first
  <2> QED
    BY <1>1, <1>2, <1>4, <2>1, <2>4
<1> QED
  BY <1>1, <1>3, <1>4

(* The last length reads as the number zero.                               *)
LEMMA ZeroIsZero == Number(Zero) = 0
<1> DEFINE Worth(d) == CHOOSE v \in 0 .. Len(Digits) - 1 : Digits[v + 1] = d
           Step(v, d) == v * Len(Digits) + Worth(d)
           Op(x, y) == Step(y, x)
           choose(S) == CHOOSE m \in S : \A i \in S : i <= m
           Rhs(g, S) == IF S = {} THEN 0 ELSE LET x == choose(S) IN Op(Zero[x], g[S \ {x}])
           Solves(g) == g = [S \in SUBSET {1} |-> Rhs(g, S)]
           iter == CHOOSE g : Solves(g)
<1>1. Len(Digits) \in Nat \ {0} /\ DOMAIN Digits = 1 .. Len(Digits)
  BY ChunkedAssumption
<1>2. Worth(Digits[1]) = 0
  <2>1. 0 \in 0 .. Len(Digits) - 1 /\ Digits[0 + 1] = Digits[1]
    BY <1>1
  <2>2. ASSUME NEW v \in 0 .. Len(Digits) - 1, Digits[v + 1] = Digits[1] PROVE v = 0
    <3>1. v + 1 \in DOMAIN Digits /\ 1 \in DOMAIN Digits
      BY <1>1
    <3>2. v + 1 = 1
      BY <3>1, <2>2, ChunkedAssumption
    <3> QED
      BY <3>2
  <2> QED
    BY <2>1, <2>2
<1> HIDE DEF Worth
<1>3. Step(0, Digits[1]) = 0
  BY <1>1, <1>2
<1> HIDE DEF Step
<1>4. Zero[1] = Digits[1] /\ DOMAIN Zero = {1}
  BY DEF Zero
<1>5. choose({1}) = 1
  OBVIOUS
<1> HIDE DEF choose
<1>6. SUBSET {1} = {{}, {1}} /\ {1} \ {1} = {} /\ {} # {1}
  OBVIOUS
<1>7. \E g : Solves(g)
  <2> DEFINE g == [S \in SUBSET {1} |-> 0]
  <2>1. ASSUME NEW S \in SUBSET {1} PROVE Rhs(g, S) = 0
    <3>1. CASE S = {}
      BY <3>1
    <3>2. CASE S = {1}
      BY <3>2, <1>3, <1>4, <1>5, <1>6
    <3> QED
      BY <3>1, <3>2, <1>6
  <2> HIDE DEF Rhs
  <2>2. Solves(g)
    BY <2>1
  <2> HIDE DEF g, Solves
  <2> QED
    BY <2>2
<1>8. Solves(iter)
  <2> HIDE DEF Solves
  <2> QED
    BY <1>7
<1> HIDE DEF iter
<1>9. iter[{1}] = 0
  <2>1. iter[{}] = 0
    BY <1>6, <1>8
  <2>2. iter[{1}] = Rhs(iter, {1})
    <3> HIDE DEF Rhs
    <3> QED
      BY <1>6, <1>8
  <2> QED
    BY <2>1, <2>2, <1>3, <1>4, <1>5, <1>6
<1>10. Number(Zero) = iter[{1}]
  BY <1>4 DEF Number, FoldLeft, MapThenFoldSet, iter, Step, Worth, choose, Max
<1> QED
  BY <1>9, <1>10

-----------------------------------------------------------------------------
(* Where the decoder finds what.                                           *)

LEMMA Characters ==
  /\ Digit \subseteq Text /\ Digit \subseteq Chars /\ Text \subseteq Chars
  /\ "cr" \in Chars /\ "lf" \in Chars /\ "cr" \notin Text /\ "lf" \notin Text
  /\ Digits[1] \in Digit
  /\ Zero \in Seq(Digit) /\ Len(Zero) = 1 /\ Zero[1] = Digits[1]
  /\ CRLF \in Seq(Chars) /\ Len(CRLF) = 2 /\ CRLF[1] = "cr" /\ CRLF[2] = "lf"
  /\ MaxDigits \in Nat \ {0}
<1>1. Len(Digits) \in Nat \ {0} /\ DOMAIN Digits = 1 .. Len(Digits)
  BY ChunkedAssumption
<1>2. Digit \subseteq Text /\ Digits[1] \in Digit
  <2>1. \A i \in DOMAIN Digits : Digits[i] \in Text
    BY ChunkedAssumption
  <2> QED
    BY <1>1, <2>1 DEF Digit, ToSet
<1>3. Text \subseteq Chars /\ "cr" \in Chars /\ "lf" \in Chars /\ "cr" \notin Text /\ "lf" \notin Text
  BY ChunkedAssumption DEF Text
<1>4. Zero \in Seq(Digit) /\ Len(Zero) = 1 /\ Zero[1] = Digits[1]
  BY <1>2 DEF Zero
<1>5. CRLF \in Seq(Chars) /\ Len(CRLF) = 2 /\ CRLF[1] = "cr" /\ CRLF[2] = "lf"
  BY <1>3 DEF CRLF
<1>6. MaxDigits \in Nat \ {0}
  BY ChunkedAssumption
<1> QED
  BY <1>2, <1>3, <1>4, <1>5, <1>6

LEMMA Concats ==
  ASSUME NEW a \in Seq(Chars), NEW b \in Seq(Chars)
  PROVE  /\ a \o b \in Seq(Chars) /\ Len(a \o b) = Len(a) + Len(b)
         /\ Len(a) \in Nat /\ Len(b) \in Nat
         /\ \A j \in 1 .. Len(a) : (a \o b)[j] = a[j]
         /\ \A j \in 1 .. Len(b) : (a \o b)[Len(a) + j] = b[j]
OBVIOUS

LEMMA LineEnds ==
  ASSUME NEW a \in Seq(Chars)
  PROVE  /\ a \o CRLF \in Seq(Chars) /\ Len(a \o CRLF) = Len(a) + 2 /\ Len(a) \in Nat
         /\ \A j \in 1 .. Len(a) : (a \o CRLF)[j] = a[j]
         /\ (a \o CRLF)[Len(a) + 1] = "cr" /\ (a \o CRLF)[Len(a) + 2] = "lf"
<1>1. CRLF \in Seq(Chars) /\ Len(CRLF) = 2 /\ CRLF[1] = "cr" /\ CRLF[2] = "lf"
  BY Characters
<1>2. 1 \in 1 .. Len(CRLF) /\ 2 \in 1 .. Len(CRLF)
  BY <1>1
<1> DEFINE ab == a \o CRLF
<1>3. /\ ab \in Seq(Chars) /\ Len(ab) = Len(a) + Len(CRLF) /\ Len(a) \in Nat
      /\ \A j \in 1 .. Len(a) : ab[j] = a[j]
      /\ \A j \in 1 .. Len(CRLF) : ab[Len(a) + j] = CRLF[j]
  BY <1>1, Concats
<1> HIDE DEF ab
<1>4. ab[Len(a) + 1] = "cr" /\ ab[Len(a) + 2] = "lf" /\ Len(ab) = Len(a) + 2
  BY <1>1, <1>2, <1>3
<1> QED
  BY <1>3, <1>4 DEF ab

(* A chunk that the server sends.                                          *)
WellFormed(c) ==
  /\ c.size \in Seq(Digit) /\ c.size \in Seq(Chars) /\ Len(c.size) \in 1 .. MaxDigits
  /\ c.ext \in Seq(Text) /\ c.ext \in Seq(Chars) /\ Len(c.ext) \in Nat
  /\ c.data \in Seq(Chars) /\ Len(c.data) \in Nat \ {0}
  /\ Number(c.size) = Len(c.data)
  /\ c.ext # <<>> => c.ext[1] \notin Digit

LEMMA Server ==
  ASSUME message \in Messages
  PROVE  /\ Len(message) \in Nat /\ DOMAIN message = 1 .. Len(message)
         /\ \A i \in 1 .. Len(message) : WellFormed(message[i])
<1>1. message \in Seq(Pieces)
  BY ChunkedAssumption
<1>2. Len(message) \in Nat /\ DOMAIN message = 1 .. Len(message)
  BY <1>1
<1>3. ASSUME NEW i \in 1 .. Len(message) PROVE WellFormed(message[i])
  <2>1. message[i] \in Pieces
    BY <1>1
  <2>2. PICK c : c = message[i]
    OBVIOUS
  <2>3. c.size \in Seq(Digit) /\ c.ext \in Seq(Text) /\ c.data \in Seq(Chars)
    BY <2>1, <2>2 DEF Pieces
  <2>4. /\ c.size # <<>> /\ Len(c.size) <= MaxDigits
        /\ Number(c.size) = Len(c.data) /\ c.data # <<>>
        /\ c.ext # <<>> => c.ext[1] \notin Digit
    BY <1>2, <2>2, ChunkedAssumption
  <2>5. c.size \in Seq(Chars) /\ c.ext \in Seq(Chars)
    BY <2>3, Characters, SeqMonotonic
  <2>6. Len(c.size) \in 1 .. MaxDigits /\ Len(c.ext) \in Nat /\ Len(c.data) \in Nat \ {0}
    BY <2>3, <2>4, Characters
  <2> QED
    BY <2>2, <2>3, <2>4, <2>5, <2>6 DEF WellFormed
<1> QED
  BY <1>2, <1>3

LEMMA ChunkParts ==
  ASSUME NEW c, WellFormed(c)
  PROVE  LET s == Len(c.size)
             d == s + Len(c.ext) + 2
             e == d + Len(c.data)
         IN
         /\ Chunk(c) \in Seq(Chars) /\ Len(Chunk(c)) = e + 2
         /\ \A j \in 1 .. s : Chunk(c)[j] = c.size[j]
         /\ \A j \in 1 .. Len(c.ext) : Chunk(c)[s + j] = c.ext[j]
         /\ Chunk(c)[d - 1] = "cr" /\ Chunk(c)[d] = "lf"
         /\ \A j \in 1 .. Len(c.data) : Chunk(c)[d + j] = c.data[j]
         /\ Chunk(c)[e + 1] = "cr" /\ Chunk(c)[e + 2] = "lf"
<1> DEFINE a == c.size  b == c.ext  x == c.data
           ab == a \o b  abc == ab \o CRLF  abcd == abc \o x  all == abcd \o CRLF
<1>1. /\ a \in Seq(Chars) /\ b \in Seq(Chars) /\ x \in Seq(Chars)
      /\ Len(a) \in Nat /\ Len(b) \in Nat /\ Len(x) \in Nat
  BY DEF WellFormed
<1>2. Chunk(c) = all
  BY DEF Chunk
<1> HIDE DEF a, b, x
<1>3. /\ ab \in Seq(Chars) /\ Len(ab) = Len(a) + Len(b)
      /\ \A j \in 1 .. Len(a) : ab[j] = a[j]
      /\ \A j \in 1 .. Len(b) : ab[Len(a) + j] = b[j]
  BY <1>1, Concats
<1> HIDE DEF ab
<1>4. /\ abc \in Seq(Chars) /\ Len(abc) = Len(ab) + 2
      /\ \A j \in 1 .. Len(ab) : abc[j] = ab[j]
      /\ abc[Len(ab) + 1] = "cr" /\ abc[Len(ab) + 2] = "lf"
  BY <1>3, LineEnds
<1> HIDE DEF abc
<1>5. /\ abcd \in Seq(Chars) /\ Len(abcd) = Len(abc) + Len(x)
      /\ \A j \in 1 .. Len(abc) : abcd[j] = abc[j]
      /\ \A j \in 1 .. Len(x) : abcd[Len(abc) + j] = x[j]
  BY <1>1, <1>4, Concats
<1> HIDE DEF abcd
<1>6. /\ all \in Seq(Chars) /\ Len(all) = Len(abcd) + 2
      /\ \A j \in 1 .. Len(abcd) : all[j] = abcd[j]
      /\ all[Len(abcd) + 1] = "cr" /\ all[Len(abcd) + 2] = "lf"
  BY <1>5, LineEnds
<1> HIDE DEF all
<1>7. /\ Len(abc) = Len(a) + Len(b) + 2 /\ Len(abcd) = Len(a) + Len(b) + 2 + Len(x)
      /\ Len(all) = Len(a) + Len(b) + 2 + Len(x) + 2
  BY <1>1, <1>3, <1>4, <1>5, <1>6
<1>8. ASSUME NEW j \in 1 .. Len(ab) PROVE all[j] = ab[j]
  BY <1>1, <1>3, <1>4, <1>5, <1>6, <1>7
<1>9. ASSUME NEW j \in 1 .. Len(abc) PROVE all[j] = abc[j]
  BY <1>1, <1>3, <1>4, <1>5, <1>6, <1>7
<1>10. ASSUME NEW j \in 1 .. Len(a) PROVE all[j] = a[j]
  BY <1>1, <1>3, <1>8
<1>11. ASSUME NEW j \in 1 .. Len(b) PROVE all[Len(a) + j] = b[j]
  BY <1>1, <1>3, <1>8
<1>12. all[(Len(a) + Len(b) + 2) - 1] = "cr" /\ all[Len(a) + Len(b) + 2] = "lf"
  <2>1. Len(ab) + 1 \in 1 .. Len(abc) /\ Len(ab) + 2 \in 1 .. Len(abc)
    BY <1>1, <1>3, <1>4
  <2>2. all[Len(ab) + 1] = "cr" /\ all[Len(ab) + 2] = "lf"
    BY <2>1, <1>9, <1>4
  <2>3. (Len(a) + Len(b) + 2) - 1 = Len(ab) + 1 /\ Len(a) + Len(b) + 2 = Len(ab) + 2
    BY <1>1, <1>3
  <2> QED
    BY <2>2, <2>3
<1>13. ASSUME NEW j \in 1 .. Len(x) PROVE all[Len(a) + Len(b) + 2 + j] = x[j]
  BY <1>1, <1>5, <1>6, <1>7
<1>14. all[Len(a) + Len(b) + 2 + Len(x) + 1] = "cr" /\ all[Len(a) + Len(b) + 2 + Len(x) + 2] = "lf"
  BY <1>6, <1>7
<1>15. Len(all) = Len(a) + Len(b) + 2 + Len(x) + 2 /\ all \in Seq(Chars)
  BY <1>6, <1>7
<1>16. /\ \A j \in 1 .. Len(a) : all[j] = a[j]
       /\ \A j \in 1 .. Len(b) : all[Len(a) + j] = b[j]
       /\ \A j \in 1 .. Len(x) : all[Len(a) + Len(b) + 2 + j] = x[j]
  BY <1>10, <1>11, <1>13
<1> DEFINE v == Chunk(c)
<1>17. all = v
  BY <1>2
<1> HIDE DEF v
<1>18. /\ v \in Seq(Chars) /\ Len(v) = Len(a) + Len(b) + 2 + Len(x) + 2
       /\ \A j \in 1 .. Len(a) : v[j] = a[j]
       /\ \A j \in 1 .. Len(b) : v[Len(a) + j] = b[j]
       /\ v[(Len(a) + Len(b) + 2) - 1] = "cr" /\ v[Len(a) + Len(b) + 2] = "lf"
       /\ \A j \in 1 .. Len(x) : v[Len(a) + Len(b) + 2 + j] = x[j]
       /\ v[Len(a) + Len(b) + 2 + Len(x) + 1] = "cr" /\ v[Len(a) + Len(b) + 2 + Len(x) + 2] = "lf"
  BY <1>12, <1>14, <1>15, <1>16, <1>17, Zenon
<1> QED
  BY <1>18, Zenon DEF v, a, b, x

(* The stream as a whole.                                                  *)
LEMMA Wire ==
  ASSUME message \in Messages
  PROVE  /\ Stream \in Seq(Chars) /\ Body \in Seq(Chars)
         /\ Len(Chunks) \in Nat /\ Len(Stream) = Len(Chunks) + 5 /\ Len(Body) \in Nat
         /\ \A k \in 0 .. Len(message) : At(k) \in 0 .. Len(Chunks) /\ BodyAt(k) \in 0 .. Len(Body)
         /\ At(0) = 0 /\ At(Len(message)) = Len(Chunks)
         /\ BodyAt(0) = 0 /\ BodyAt(Len(message)) = Len(Body)
         /\ \A j \in 1 .. Len(Chunks) : Stream[j] = Chunks[j]
         /\ Stream[Len(Chunks) + 1] = Digits[1] /\ Stream[Len(Chunks) + 2] = "cr"
<1> DEFINE chunks == [i \in DOMAIN message |-> Chunk(message[i])]
           data   == [i \in DOMAIN message |-> message[i].data]
<1>1. Len(message) \in Nat /\ DOMAIN message = 1 .. Len(message)
  BY Server
<1>2. ASSUME NEW i \in 1 .. Len(message)
      PROVE  Chunk(message[i]) \in Seq(Chars) /\ message[i].data \in Seq(Chars)
  BY Server, ChunkParts DEF WellFormed
<1>3. chunks \in Seq(Seq(Chars)) /\ Len(chunks) = Len(message)
  BY <1>1, <1>2
<1>4. data \in Seq(Seq(Chars)) /\ Len(data) = Len(message)
  BY <1>1, <1>2
<1>5. /\ Chunks = FlattenSeq(chunks) /\ Body = FlattenSeq(data)
      /\ \A k : At(k) = Offsets(chunks)[k] /\ BodyAt(k) = Offsets(data)[k]
  BY DEF Chunks, Body, At, BodyAt
<1> HIDE DEF chunks, data
<1>6. FlattenSeq(chunks) \in Seq(Chars) /\ LaidOut(chunks)
  BY <1>3, Layout
<1>7. FlattenSeq(data) \in Seq(Chars) /\ LaidOut(data)
  BY <1>4, Layout
<1>8. Chunks \in Seq(Chars) /\ Body \in Seq(Chars) /\ Len(Chunks) \in Nat /\ Len(Body) \in Nat
  BY <1>5, <1>6, <1>7
<1>9. ASSUME NEW k \in 0 .. Len(message)
      PROVE  At(k) \in 0 .. Len(Chunks) /\ BodyAt(k) \in 0 .. Len(Body)
  <2>1. Offsets(chunks)[k] \in Nat /\ Offsets(chunks)[k] <= Len(Chunks)
    BY <1>3, <1>5, <1>6 DEF LaidOut
  <2>2. Offsets(data)[k] \in Nat /\ Offsets(data)[k] <= Len(Body)
    BY <1>4, <1>5, <1>7 DEF LaidOut
  <2>3. At(k) = Offsets(chunks)[k] /\ BodyAt(k) = Offsets(data)[k]
    BY <1>5
  <2> QED
    BY <2>1, <2>2, <2>3, <1>8
<1>10. /\ At(0) = 0 /\ At(Len(message)) = Len(Chunks)
       /\ BodyAt(0) = 0 /\ BodyAt(Len(message)) = Len(Body)
  BY <1>3, <1>4, <1>5, <1>6, <1>7 DEF LaidOut
<1>11. /\ Stream \in Seq(Chars) /\ Len(Stream) = Len(Chunks) + 5
       /\ \A j \in 1 .. Len(Chunks) : Stream[j] = Chunks[j]
       /\ Stream[Len(Chunks) + 1] = Digits[1] /\ Stream[Len(Chunks) + 2] = "cr"
  <2> DEFINE w == Chunks  z == Zero  wz == w \o z  line == wz \o CRLF  all == line \o CRLF
  <2>0. Stream = all /\ w \in Seq(Chars)
    BY <1>8 DEF Stream
  <2>1. z \in Seq(Chars) /\ Len(z) = 1 /\ z[1] = Digits[1]
    BY Characters, SeqMonotonic
  <2> HIDE DEF w, z
  <2>2. /\ wz \in Seq(Chars) /\ Len(wz) = Len(w) + 1 /\ Len(w) \in Nat
        /\ \A j \in 1 .. Len(w) : wz[j] = w[j]
        /\ wz[Len(w) + 1] = Digits[1]
    <3>1. 1 \in 1 .. Len(z)
      BY <2>1
    <3>2. /\ wz \in Seq(Chars) /\ Len(wz) = Len(w) + Len(z) /\ Len(w) \in Nat
          /\ \A j \in 1 .. Len(w) : wz[j] = w[j]
          /\ \A j \in 1 .. Len(z) : wz[Len(w) + j] = z[j]
      BY <2>0, <2>1, Concats
    <3> HIDE DEF wz
    <3> QED
      BY <3>1, <3>2, <2>1
  <2> HIDE DEF wz
  <2>3. /\ line \in Seq(Chars) /\ Len(line) = Len(wz) + 2
        /\ \A j \in 1 .. Len(wz) : line[j] = wz[j]
        /\ line[Len(wz) + 1] = "cr"
    BY <2>2, LineEnds
  <2> HIDE DEF line
  <2>4. /\ all \in Seq(Chars) /\ Len(all) = Len(line) + 2
        /\ \A j \in 1 .. Len(line) : all[j] = line[j]
    BY <2>3, LineEnds
  <2> HIDE DEF all
  <2>5. ASSUME NEW j \in 1 .. Len(w) PROVE all[j] = w[j]
    BY <2>2, <2>3, <2>4
  <2>6. Len(all) = Len(w) + 5 /\ all[Len(w) + 1] = Digits[1] /\ all[Len(w) + 2] = "cr"
    <3>1. /\ Len(w) + 1 \in 1 .. Len(wz) /\ Len(w) + 1 \in 1 .. Len(line)
          /\ Len(w) + 2 = Len(wz) + 1 /\ Len(w) + 2 \in 1 .. Len(line) /\ Len(all) = Len(w) + 5
      BY <2>2, <2>3, <2>4
    <3>2. all[Len(w) + 1] = line[Len(w) + 1] /\ line[Len(w) + 1] = wz[Len(w) + 1]
      BY <3>1, <2>3, <2>4
    <3>3. all[Len(w) + 2] = line[Len(w) + 2]
      BY <3>1, <2>4
    <3> QED
      BY <3>1, <3>2, <3>3, <2>2, <2>3
  <2> QED
    BY <2>0, <2>4, <2>5, <2>6 DEF w
<1> QED
  BY <1>8, <1>9, <1>10, <1>11

(* A chunk that is found at p in a larger sequence.                        *)
Copied(W, v, p, n) == \A j \in 1 .. n : W[p + j] = v[j]

PlacedParts(W, v, p, s, t, u) ==
  /\ \A j \in 1 .. s : W[p + j] = v[j]
  /\ \A j \in 1 .. t : W[p + s + j] = v[s + j]
  /\ W[(p + s + t + 2) - 1] = v[(s + t + 2) - 1] /\ W[p + s + t + 2] = v[s + t + 2]
  /\ \A j \in 1 .. u : W[p + s + t + 2 + j] = v[s + t + 2 + j]
  /\ W[p + s + t + 2 + u + 1] = v[s + t + 2 + u + 1]
  /\ W[p + s + t + 2 + u + 2] = v[s + t + 2 + u + 2]

LEMMA Placed ==
  ASSUME NEW W, NEW v, NEW p \in Nat, NEW s \in Nat, NEW t \in Nat, NEW u \in Nat,
         Copied(W, v, p, s + t + 2 + u + 2)
  PROVE  PlacedParts(W, v, p, s, t, u)
<1>0. \A j \in 1 .. s + t + 2 + u + 2 : W[p + j] = v[j]
  BY DEF Copied
<1>1. ASSUME NEW j \in 1 .. s PROVE W[p + j] = v[j]
  BY <1>0
<1>2. ASSUME NEW j \in 1 .. t PROVE W[p + s + j] = v[s + j]
  <2>1. s + j \in 1 .. s + t + 2 + u + 2 /\ p + (s + j) = p + s + j
    OBVIOUS
  <2> QED
    BY <1>0, <2>1
<1>3. W[(p + s + t + 2) - 1] = v[(s + t + 2) - 1] /\ W[p + s + t + 2] = v[s + t + 2]
  <2>1. /\ (s + t + 2) - 1 \in 1 .. s + t + 2 + u + 2 /\ p + ((s + t + 2) - 1) = (p + s + t + 2) - 1
        /\ s + t + 2 \in 1 .. s + t + 2 + u + 2 /\ p + (s + t + 2) = p + s + t + 2
    OBVIOUS
  <2> QED
    BY <1>0, <2>1
<1>4. ASSUME NEW j \in 1 .. u PROVE W[p + s + t + 2 + j] = v[s + t + 2 + j]
  <2>1. s + t + 2 + j \in 1 .. s + t + 2 + u + 2 /\ p + (s + t + 2 + j) = p + s + t + 2 + j
    OBVIOUS
  <2> QED
    BY <1>0, <2>1
<1>5. /\ W[p + s + t + 2 + u + 1] = v[s + t + 2 + u + 1]
      /\ W[p + s + t + 2 + u + 2] = v[s + t + 2 + u + 2]
  <2>1. /\ s + t + 2 + u + 1 \in 1 .. s + t + 2 + u + 2
        /\ p + (s + t + 2 + u + 1) = p + s + t + 2 + u + 1
        /\ s + t + 2 + u + 2 \in 1 .. s + t + 2 + u + 2
        /\ p + (s + t + 2 + u + 2) = p + s + t + 2 + u + 2
    OBVIOUS
  <2> QED
    BY <1>0, <2>1
<1> QED
  BY <1>1, <1>2, <1>3, <1>4, <1>5 DEF PlacedParts

(* The chunk after the first k.                                            *)
Framed(k) ==
  LET c == message[k + 1]
      s == At(k) + Len(c.size)
      d == s + Len(c.ext) + 2
      e == d + Len(c.data)
  IN
  /\ WellFormed(c)
  /\ At(k + 1) = e + 2 /\ BodyAt(k + 1) = BodyAt(k) + Len(c.data)
  /\ \A j \in 1 .. Len(c.size) : Stream[At(k) + j] = c.size[j]
  /\ \A j \in 1 .. Len(c.ext) : Stream[s + j] = c.ext[j]
  /\ Stream[d - 1] = "cr" /\ Stream[d] = "lf"
  /\ \A j \in 1 .. Len(c.data) : Stream[d + j] = c.data[j] /\ Body[BodyAt(k) + j] = c.data[j]
  /\ Stream[e + 1] = "cr" /\ Stream[e + 2] = "lf"

LEMMA Framing ==
  ASSUME message \in Messages, NEW k \in 0 .. Len(message), k < Len(message)
  PROVE  Framed(k)
<1> DEFINE chunks == [i \in DOMAIN message |-> Chunk(message[i])]
           data   == [i \in DOMAIN message |-> message[i].data]
           c == message[k + 1]
           n == k + 1
<1>1. Len(message) \in Nat /\ DOMAIN message = 1 .. Len(message)
  BY Server
<1>2. ASSUME NEW i \in 1 .. Len(message)
      PROVE  Chunk(message[i]) \in Seq(Chars) /\ message[i].data \in Seq(Chars)
  BY Server, ChunkParts DEF WellFormed
<1>3. chunks \in Seq(Seq(Chars)) /\ Len(chunks) = Len(message)
  BY <1>1, <1>2
<1>4. data \in Seq(Seq(Chars)) /\ Len(data) = Len(message)
  BY <1>1, <1>2
<1>5. /\ Chunks = FlattenSeq(chunks) /\ Body = FlattenSeq(data)
      /\ \A i : At(i) = Offsets(chunks)[i] /\ BodyAt(i) = Offsets(data)[i]
  BY DEF Chunks, Body, At, BodyAt
<1>6. n \in 1 .. Len(message) /\ n - 1 = k /\ chunks[n] = Chunk(c) /\ data[n] = c.data
  BY <1>1
<1>7. WellFormed(c)
  BY <1>6, Server
<1> HIDE DEF chunks, data, c, n
<1>8. LaidOut(chunks) /\ LaidOut(data) /\ FlattenSeq(chunks) \in Seq(Chars)
  BY <1>3, <1>4, Layout
<1>9. /\ At(n) = At(k) + Len(Chunk(c)) /\ BodyAt(n) = BodyAt(k) + Len(c.data)
      /\ \A j \in 1 .. Len(Chunk(c)) : Chunks[At(k) + j] = Chunk(c)[j]
      /\ \A j \in 1 .. Len(c.data) : Body[BodyAt(k) + j] = c.data[j]
  <2>1. /\ Offsets(chunks)[n] = Offsets(chunks)[n - 1] + Len(chunks[n])
        /\ \A j \in 1 .. Len(chunks[n]) : FlattenSeq(chunks)[Offsets(chunks)[n - 1] + j] = chunks[n][j]
    BY <1>3, <1>6, <1>8 DEF LaidOut
  <2>2. /\ Offsets(data)[n] = Offsets(data)[n - 1] + Len(data[n])
        /\ \A j \in 1 .. Len(data[n]) : FlattenSeq(data)[Offsets(data)[n - 1] + j] = data[n][j]
    BY <1>4, <1>6, <1>8 DEF LaidOut
  <2> QED
    BY <2>1, <2>2, <1>5, <1>6
<1>10. At(k) \in Nat /\ At(n) \in 0 .. Len(Chunks) /\ Len(Chunk(c)) \in Nat /\ Len(Chunks) \in Nat
  <2>1. n \in 0 .. Len(message) /\ Len(Chunk(c)) \in Nat
    BY <1>1, <1>6, <1>7, ChunkParts
  <2> QED
    BY <2>1, Wire
<1>11. ASSUME NEW j \in 1 .. Len(Chunk(c)) PROVE Stream[At(k) + j] = Chunk(c)[j]
  <2>1. At(k) + j \in 1 .. Len(Chunks)
    BY <1>9, <1>10
  <2> QED
    BY <2>1, <1>9, Wire
<1> DEFINE p == At(k)  s == Len(c.size)  t == Len(c.ext)  u == Len(c.data)  v == Chunk(c)
<1>19. p \in Nat /\ s \in Nat /\ t \in Nat /\ u \in Nat
  BY <1>7, <1>10, Characters DEF WellFormed
<1>20. Len(v) = s + t + 2 + u + 2
  BY <1>7, ChunkParts
<1>14. /\ \A j \in 1 .. s : v[j] = c.size[j]
       /\ \A j \in 1 .. t : v[s + j] = c.ext[j]
       /\ v[(s + t + 2) - 1] = "cr" /\ v[s + t + 2] = "lf"
       /\ \A j \in 1 .. u : v[s + t + 2 + j] = c.data[j]
       /\ v[s + t + 2 + u + 1] = "cr" /\ v[s + t + 2 + u + 2] = "lf"
  BY <1>7, ChunkParts, Zenon
<1>15. Copied(Stream, v, p, s + t + 2 + u + 2)
  BY <1>11, <1>20 DEF Copied
<1>12. At(n) = p + Len(v) /\ BodyAt(n) = BodyAt(k) + u /\ \A j \in 1 .. u : Body[BodyAt(k) + j] = c.data[j]
  BY <1>9
<1> HIDE DEF p, s, t, u, v
<1>21. PlacedParts(Stream, v, p, s, t, u)
  BY <1>15, <1>19, Placed, Zenon
<1>16. /\ \A j \in 1 .. s : Stream[p + j] = c.size[j]
       /\ \A j \in 1 .. t : Stream[p + s + j] = c.ext[j]
       /\ Stream[(p + s + t + 2) - 1] = "cr" /\ Stream[p + s + t + 2] = "lf"
       /\ \A j \in 1 .. u : Stream[p + s + t + 2 + j] = c.data[j]
       /\ Stream[p + s + t + 2 + u + 1] = "cr" /\ Stream[p + s + t + 2 + u + 2] = "lf"
  BY <1>14, <1>21, Zenon DEF PlacedParts
<1>17. At(n) = p + s + t + 2 + u + 2
  BY <1>12, <1>19, <1>20
<1> QED
  BY <1>7, <1>12, <1>16, <1>17, Zenon DEF Framed, c, n, p, s, t, u

-----------------------------------------------------------------------------
(* Steps.                                                                  *)

LEMMA Appends ==
  ASSUME NEW S, NEW W \in Seq(S), NEW a \in Nat, NEW piece \in Seq(S),
         a + Len(piece) <= Len(W),
         \A j \in 1 .. Len(piece) : piece[j] = W[a + j]
  PROVE  SubSeq(W, 1, a) \o piece = SubSeq(W, 1, a + Len(piece))
<1> DEFINE n == Len(piece)  x == SubSeq(W, 1, a)  z == SubSeq(W, 1, a + n)
<1>1. n \in Nat /\ Len(W) \in Nat /\ \A i \in 1 .. Len(W) : W[i] \in S
  OBVIOUS
<1>2. x \in Seq(S) /\ Len(x) = a /\ \A i \in 1 .. a : x[i] = W[i]
  <2>1. \A i \in 1 .. a : W[i] \in S
    BY <1>1
  <2> QED
    BY <2>1, SubSeqProperties
<1>3. z \in Seq(S) /\ Len(z) = a + n /\ \A i \in 1 .. a + n : z[i] = W[i]
  <2>1. \A i \in 1 .. a + n : W[i] \in S
    BY <1>1
  <2>2. a + n \in Nat
    BY <1>1
  <2>3. Len(z) = IF 1 <= a + n THEN (a + n) - 1 + 1 ELSE 0
    BY <2>1, <2>2, SubSeqProperties
  <2>4. Len(z) = a + n
    BY <2>2, <2>3
  <2>5. z \in Seq(S) /\ \A i \in 1 .. (a + n) - 1 + 1 : z[i] = W[1 + i - 1]
    BY <2>1, <2>2, SubSeqProperties
  <2>6. ASSUME NEW i \in 1 .. a + n PROVE z[i] = W[i]
    <3>1. i \in 1 .. (a + n) - 1 + 1 /\ 1 + i - 1 = i
      BY <2>2
    <3> HIDE DEF z
    <3> QED
      BY <3>1, <2>5
  <2> QED
    BY <2>4, <2>5, <2>6
<1> HIDE DEF x, z
<1>4. /\ x \o piece \in Seq(S) /\ Len(x \o piece) = a + n
      /\ \A i \in 1 .. a + n : (x \o piece)[i] = IF i <= a THEN x[i] ELSE piece[i - a]
  BY <1>1, <1>2, ConcatProperties
<1> HIDE DEF n
<1>5. ASSUME NEW i \in 1 .. a + n PROVE (x \o piece)[i] = z[i]
  <2>0. i \in Nat /\ i <= a + n
    BY <1>1
  <2>1. CASE i <= a
    <3>1. i \in 1 .. a
      BY <2>0, <2>1
    <3>2. (x \o piece)[i] = x[i]
      BY <1>4, <2>1
    <3>3. x[i] = W[i] /\ z[i] = W[i]
      BY <3>1, <1>2, <1>3
    <3> QED
      BY <3>2, <3>3
  <2>2. CASE ~ (i <= a)
    <3>1. i - a \in 1 .. n /\ a + (i - a) = i
      BY <1>1, <2>0, <2>2
    <3>2. piece[i - a] = W[i]
      BY <3>1 DEF n
    <3> QED
      BY <1>1, <1>3, <1>4, <2>2, <3>2
  <2> QED
    BY <2>1, <2>2
<1>6. x \o piece = z
  <2> DEFINE y == x \o piece
  <2>1. y \in Seq(S) /\ z \in Seq(S) /\ Len(y) = Len(z) /\ \A i \in 1 .. Len(y) : y[i] = z[i]
    BY <1>3, <1>4, <1>5
  <2> HIDE DEF y
  <2>2. y = z
    BY <2>1, SeqEqual
  <2> QED
    BY <2>2 DEF y
<1> QED
  BY <1>6 DEF x, z, n

LEMMA Blocks ==
  ASSUME TypeOK
  PROVE  /\ pos \in Nat /\ avail \in Nat /\ pos + avail <= Len(Stream)
         /\ Ahead \in Seq(Chars) /\ Len(Ahead) = avail
         /\ \A j \in 1 .. avail : Ahead[j] = Stream[pos + j]
         /\ \A n \in 0 .. avail :
              /\ SubSeq(Ahead, 1, n) \in Seq(Chars) /\ Len(SubSeq(Ahead, 1, n)) = n
              /\ \A j \in 1 .. n : SubSeq(Ahead, 1, n)[j] = Stream[pos + j]
<1>1. Stream \in Seq(Chars) /\ Len(Stream) \in Nat
  BY Wire DEF TypeOK
<1>2. pos \in Nat /\ avail \in Nat /\ pos + avail <= Len(Stream)
  BY <1>1 DEF TypeOK
<1>3. \A i \in pos + 1 .. pos + avail : Stream[i] \in Chars
  <2>1. \A i \in 1 .. Len(Stream) : Stream[i] \in Chars
    BY <1>1
  <2> QED
    BY <1>1, <1>2, <2>1
<1>4. /\ Ahead \in Seq(Chars) /\ Len(Ahead) = avail
      /\ \A j \in 1 .. avail : Ahead[j] = Stream[pos + j]
  <2>1. pos + 1 \in Int /\ pos + avail \in Int
    BY <1>2
  <2>2. /\ Ahead \in Seq(Chars)
        /\ Len(Ahead) = IF pos + 1 <= pos + avail THEN (pos + avail) - (pos + 1) + 1 ELSE 0
        /\ \A j \in 1 .. (pos + avail) - (pos + 1) + 1 : Ahead[j] = Stream[pos + 1 + j - 1]
    BY <1>3, <2>1, SubSeqProperties DEF Ahead
  <2>3. (pos + avail) - (pos + 1) + 1 = avail
    BY <1>2
  <2>4. Len(Ahead) = avail
    BY <2>2, <2>3, <1>2
  <2>5. ASSUME NEW j \in 1 .. avail PROVE Ahead[j] = Stream[pos + j]
    <3>1. pos + 1 + j - 1 = pos + j
      BY <1>2
    <3> QED
      BY <2>2, <2>3, <3>1
  <2> QED
    BY <2>2, <2>4, <2>5
<1>5. ASSUME NEW n \in 0 .. avail
      PROVE  /\ SubSeq(Ahead, 1, n) \in Seq(Chars) /\ Len(SubSeq(Ahead, 1, n)) = n
             /\ \A j \in 1 .. n : SubSeq(Ahead, 1, n)[j] = Stream[pos + j]
  <2>1. n \in Nat /\ \A i \in 1 .. n : i \in 1 .. avail /\ Ahead[i] \in Chars
    BY <1>2, <1>4
  <2>2. SubSeq(Ahead, 1, n) \in Seq(Chars) /\ Len(SubSeq(Ahead, 1, n)) = n
        /\ \A j \in 1 .. n : SubSeq(Ahead, 1, n)[j] = Ahead[j]
    BY <2>1, SubSeqProperties
  <2> QED
    BY <2>1, <2>2, <1>4
<1> QED
  BY <1>2, <1>4, <1>5

LEMMA Fixed ==
  ASSUME message' = message
  PROVE  /\ Stream' = Stream /\ Body' = Body /\ Chunks' = Chunks
         /\ EndOfBody' = EndOfBody /\ Extended' = Extended
         /\ \A k : At(k)' = At(k) /\ BodyAt(k)' = BodyAt(k)
<1>1. Chunks' = Chunks /\ Body' = Body
  BY DEF Chunks, Body
<1>2. Stream' = Stream /\ EndOfBody' = EndOfBody
  BY <1>1 DEF Stream, EndOfBody
<1>3. Extended' = Extended
  BY DEF Extended
<1>4. \A k : At(k)' = At(k) /\ BodyAt(k)' = BodyAt(k)
  BY DEF At, BodyAt
<1> QED
  BY <1>1, <1>2, <1>3, <1>4

(* Consumption moves the decoder on, and what the client has been given.   *)
LEMMA Moves ==
  ASSUME TypeOK, message' = message, dechunk' = dechunk,
         NEW n \in 0 .. avail, NEW g \in BOOLEAN, Consume(n, g)
  PROVE  /\ pos' = pos + n /\ avail' = avail - n
         /\ pos' \in 0 .. Len(Stream)' /\ avail' \in 0 .. (Len(Stream)' - pos')
         /\ g = ~dechunk => \A b : Given(b) => Given(b)'
         /\ g => \A b \in Nat :
              /\ Given(b) /\ b + n <= Len(Body)
              /\ \A j \in 1 .. n : Body[b + j] = Stream[pos + j]
              => Given(b + n)'
<1>1. /\ pos' = pos + n /\ avail' = avail - n
      /\ out' = IF g THEN out \o SubSeq(Ahead, 1, n) ELSE out
  BY DEF Consume
<1>2. Stream' = Stream /\ Body' = Body
  BY Fixed
<1>3. Stream \in Seq(Chars) /\ Body \in Seq(Chars) /\ Len(Stream) \in Nat /\ dechunk \in BOOLEAN
  BY Wire, ChunkedAssumption DEF TypeOK
<1>4. pos \in Nat /\ avail \in Nat /\ pos + avail <= Len(Stream) /\ n \in Nat /\ pos + n <= Len(Stream)
  BY Blocks
<1>5. pos' \in 0 .. Len(Stream)' /\ avail' \in 0 .. (Len(Stream)' - pos')
  BY <1>1, <1>2, <1>3, <1>4
<1> DEFINE piece == SubSeq(Ahead, 1, n)
<1>6. piece \in Seq(Chars) /\ Len(piece) = n /\ \A j \in 1 .. n : piece[j] = Stream[pos + j]
  BY Blocks
<1> HIDE DEF piece
<1>7. SubSeq(Stream, 1, pos) \o piece = SubSeq(Stream, 1, pos + n)
  <2>1. pos + Len(piece) <= Len(Stream) /\ \A j \in 1 .. Len(piece) : piece[j] = Stream[pos + j]
    BY <1>4, <1>6
  <2>2. SubSeq(Stream, 1, pos) \o piece = SubSeq(Stream, 1, pos + Len(piece))
    BY <1>3, <1>4, <1>6, <2>1, Appends
  <2> QED
    BY <2>2, <1>6
<1>8. ASSUME g = ~dechunk, NEW b, Given(b) PROVE Given(b)'
  <2>1. CASE dechunk
    BY <2>1, <1>1, <1>2, <1>8 DEF Given
  <2>2. CASE ~dechunk
    BY <2>2, <1>1, <1>2, <1>7, <1>8 DEF Given, piece
  <2> QED
    BY <2>1, <2>2
<1>9. ASSUME g, NEW b \in Nat, Given(b), b + n <= Len(Body),
             \A j \in 1 .. n : Body[b + j] = Stream[pos + j]
      PROVE  Given(b + n)'
  <2>1. CASE dechunk
    <3>1. b + Len(piece) <= Len(Body) /\ \A j \in 1 .. Len(piece) : piece[j] = Body[b + j]
      BY <1>6, <1>9
    <3>2. SubSeq(Body, 1, b) \o piece = SubSeq(Body, 1, b + Len(piece))
      BY <1>3, <1>6, <3>1, Appends
    <3>3. SubSeq(Body, 1, b) \o piece = SubSeq(Body, 1, b + n)
      BY <3>2, <1>6
    <3> QED
      BY <2>1, <1>1, <1>2, <1>9, <3>3 DEF Given, piece
  <2>2. CASE ~dechunk
    BY <2>2, <1>1, <1>2, <1>7, <1>9 DEF Given, piece
  <2> QED
    BY <2>1, <2>2
<1> QED
  BY <1>1, <1>5, <1>8, <1>9

LEMMA InitInv == Init => ChunkedInv
<1> SUFFICES ASSUME Init PROVE ChunkedInv
  OBVIOUS
<1>1. message \in Messages /\ dechunk \in Modes /\ dechunk \in BOOLEAN
  BY ChunkedAssumption DEF Init
<1>2. /\ Stream \in Seq(Chars) /\ Len(Stream) \in Nat /\ Len(message) \in Nat
      /\ At(0) = 0 /\ BodyAt(0) = 0
  BY <1>1, Wire, Server
<1>3. TypeOK
  <2>1. frag \in Seq(Digit) /\ Len(frag) = 0 /\ Len(frag) <= MaxDigits
    BY Characters DEF Init
  <2>2. pos \in 0 .. Len(Stream) /\ avail \in 0 .. (Len(Stream) - pos)
    BY <1>2 DEF Init
  <2>3. /\ eos \in BOOLEAN /\ state = "LENGTH" /\ total \in Nat /\ len \in 0 .. total
        /\ cr \in BOOLEAN /\ done \in BOOLEAN /\ verdict = "READY"
    <3>1. 0 \in Nat /\ 0 \in 0 .. 0
      OBVIOUS
    <3> QED
      BY <3>1 DEF Init
  <2> QED
    BY <1>1, <2>1, <2>2, <2>3 DEF TypeOK
<1> DEFINE s == IF 0 < Len(message) THEN message[0 + 1].size ELSE Zero
<1>4. Len(s) \in Nat
  <2>1. CASE 0 < Len(message)
    <3>1. 1 \in 1 .. Len(message)
      BY <1>2, <2>1
    <3> QED
      BY <1>1, <2>1, <3>1, Server DEF WellFormed
  <2>2. CASE ~ (0 < Len(message))
    BY <2>2, Characters
  <2> QED
    BY <2>1, <2>2
<1>5. SubSeq(s, 1, 0) = <<>> /\ SubSeq(Stream, 1, 0) = <<>> /\ SubSeq(Body, 1, 0) = <<>>
  BY SubSeqEmpty
<1>6. InLength(0)
  <2>1. Given(0)
    BY <1>5 DEF Init, Given
  <2> HIDE DEF s
  <2>2. Len(<<>>) = 0 /\ 0 <= Len(s) /\ <<>> = SubSeq(s, 1, 0)
    BY <1>4, <1>5
  <2> QED
    BY <2>1, <2>2, <1>2 DEF Init, InLength, s
<1> QED
  BY <1>2, <1>3, <1>6 DEF Init, ChunkedInv

LEMMA BlockKeeps ==
  ASSUME ChunkedInv, NEW n \in 0 .. Len(Stream) - pos, Block(n)
  PROVE  ChunkedInv'
<1>1. UNCHANGED <<message, dechunk, pos, state, total, len, frag, cr, done, out>>
  BY DEF Block, info
<1>2. avail' = n /\ eos' \in BOOLEAN /\ verdict = "READY" /\ verdict' = "none"
  BY DEF Block
<1>3. /\ Stream' = Stream /\ Body' = Body /\ Extended' = Extended /\ EndOfBody' = EndOfBody
      /\ \A k : At(k)' = At(k) /\ BodyAt(k)' = BodyAt(k)
  BY <1>1, Fixed
<1>4. TypeOK'
  BY <1>1, <1>2, <1>3 DEF ChunkedInv, TypeOK
<1>5. \A b : Given(b) => Given(b)'
  BY <1>1, <1>3 DEF Given
<1>6. ASSUME NEW k PROVE (InLength(k) => InLength(k)') /\ (InChunk(k) => InChunk(k)')
  BY <1>1, <1>3, <1>5 DEF InLength, InChunk
<1>7. Over => Over'
  BY <1>1, <1>3, <1>5 DEF Over
<1>8. ((\E k \in 0 .. Len(message) : InLength(k) \/ InChunk(k)) \/ Over)'
  BY <1>1, <1>6, <1>7 DEF ChunkedInv
<1> QED
  BY <1>2, <1>4, <1>8 DEF ChunkedInv

(* A call ends: the decoder stays where it is.                             *)
LEMMA StopKeeps ==
  ASSUME ChunkedInv, NEW v \in {"READY", "COMPLETE", "ERROR", "crash"}, Stop(v),
         v = "COMPLETE" <=> done, v = "ERROR" => eos, v = "crash" => Extended
  PROVE  ChunkedInv'
<1>1. UNCHANGED <<message, dechunk, pos, avail, eos, state, total, len, frag, cr, done, out>>
  BY DEF Stop, info
<1>2. verdict' = v
  BY DEF Stop
<1>3. /\ Stream' = Stream /\ Body' = Body /\ Extended' = Extended /\ EndOfBody' = EndOfBody
      /\ \A k : At(k)' = At(k) /\ BodyAt(k)' = BodyAt(k)
  BY <1>1, Fixed
<1>4. TypeOK'
  BY <1>1, <1>2, <1>3 DEF ChunkedInv, TypeOK
<1>5. \A b : Given(b) => Given(b)'
  BY <1>1, <1>3 DEF Given
<1>6. ASSUME NEW k PROVE (InLength(k) => InLength(k)') /\ (InChunk(k) => InChunk(k)')
  BY <1>1, <1>3, <1>5 DEF InLength, InChunk
<1>7. Over => Over'
  BY <1>1, <1>3, <1>5 DEF Over
<1>8. ((\E k \in 0 .. Len(message) : InLength(k) \/ InChunk(k)) \/ Over)'
  BY <1>1, <1>6, <1>7 DEF ChunkedInv
<1> QED
  BY <1>1, <1>2, <1>3, <1>4, <1>8 DEF ChunkedInv

LEMMA BlockEndKeeps == ASSUME ChunkedInv, BlockEnd PROVE ChunkedInv'
<1>1. Stop(Verdict) /\ done \in BOOLEAN
  BY DEF BlockEnd, ChunkedInv, TypeOK
<1>2. CASE done
  BY <1>1, <1>2, StopKeeps DEF Verdict
<1>3. CASE ~done /\ eos
  BY <1>1, <1>3, StopKeeps DEF Verdict
<1>4. CASE ~done /\ ~eos
  BY <1>1, <1>4, StopKeeps DEF Verdict
<1> QED
  BY <1>2, <1>3, <1>4

(* Whatever follows the last length is dropped.                            *)
LEMMA DataDoneKeeps == ASSUME ChunkedInv, DataDone PROVE ChunkedInv'
<1>1. /\ verdict = "none" /\ avail > 0 /\ state = "DATA_DONE" /\ done' = TRUE
      /\ UNCHANGED <<message, dechunk, eos, state, total, len, frag, cr, verdict>>
      /\ Consume(avail, ~dechunk)
  BY DEF DataDone, In, Skip
<1>2. TypeOK /\ Over
  BY <1>1 DEF ChunkedInv, InLength, InChunk
<1>3. avail \in 0 .. avail /\ pos \in Nat /\ avail \in Nat /\ Len(Chunks) \in Nat /\ Len(Body) \in Nat
  BY <1>2, Blocks, Wire DEF TypeOK
<1>4. dechunk \in BOOLEAN
  BY <1>2, ChunkedAssumption DEF TypeOK
<1>5. /\ pos' = pos + avail
      /\ pos' \in 0 .. Len(Stream)' /\ avail' \in 0 .. (Len(Stream)' - pos')
      /\ \A b : Given(b) => Given(b)'
  BY <1>1, <1>2, <1>3, <1>4, Moves
<1>6. Body' = Body /\ EndOfBody' = EndOfBody
  BY <1>1, Fixed
<1>7. TypeOK'
  BY <1>1, <1>2, <1>5 DEF TypeOK
<1>8. EndOfBody \in Nat /\ pos >= EndOfBody
  BY <1>2, <1>3 DEF Over, EndOfBody
<1>9. Over'
  BY <1>1, <1>2, <1>3, <1>5, <1>6, <1>8 DEF Over
<1> QED
  BY <1>1, <1>7, <1>9 DEF ChunkedInv

(* The length of a chunk, or the last one.                                 *)
LEMMA WaitLengthKeeps == ASSUME ChunkedInv, WaitLength PROVE ChunkedInv'
<1>1. verdict = "none" /\ avail > 0 /\ state = "LENGTH"
  BY DEF WaitLength, In
<1>0. TypeOK
  BY DEF ChunkedInv
<1>3. PICK k \in 0 .. Len(message) : InLength(k)
  BY <1>1 DEF ChunkedInv, InChunk, Over
<1>2. TypeOK /\ ~done /\ dechunk \in BOOLEAN /\ message \in Messages
  BY <1>0, <1>3, ChunkedAssumption DEF TypeOK, InLength
<1> DEFINE s == IF k < Len(message) THEN message[k + 1].size ELSE Zero
           p == At(k)
           l == Len(frag)
<1>4. /\ s \in Seq(Digit) /\ Len(s) \in 1 .. MaxDigits
      /\ \A j \in 1 .. Len(s) : Stream[p + j] = s[j]
      /\ Stream[p + Len(s) + 1] \notin Digit
  <2>1. CASE k < Len(message)
    <3> DEFINE c == message[k + 1]
    <3>1. /\ WellFormed(c)
          /\ \A j \in 1 .. Len(c.size) : Stream[p + j] = c.size[j]
          /\ \A j \in 1 .. Len(c.ext) : Stream[p + Len(c.size) + j] = c.ext[j]
          /\ Stream[(p + Len(c.size) + Len(c.ext) + 2) - 1] = "cr"
      BY <2>1, <1>2, Framing DEF Framed
    <3>2. p \in Nat
      BY <1>2, Wire
    <3> HIDE DEF c, p
    <3>3. Len(c.size) \in 1 .. MaxDigits /\ Len(c.ext) \in Nat /\ c.ext \in Seq(Text) /\ Len(c.size) \in Nat
      BY <3>1, Characters DEF WellFormed
    <3>4. CASE Len(c.ext) = 0
      <4>1. (p + Len(c.size) + Len(c.ext) + 2) - 1 = p + Len(c.size) + 1
        BY <3>2, <3>3, <3>4
      <4> QED
        BY <4>1, <3>1, <3>3, <2>1, Characters DEF WellFormed, c
    <3>5. CASE Len(c.ext) # 0
      <4>1. 1 \in 1 .. Len(c.ext) /\ c.ext # <<>>
        BY <3>3, <3>5
      <4>2. Stream[p + Len(c.size) + 1] = c.ext[1] /\ c.ext[1] \notin Digit
        BY <3>1, <4>1 DEF WellFormed
      <4> QED
        BY <4>2, <3>1, <3>3, <2>1 DEF WellFormed, c
    <3> QED
      BY <3>4, <3>5
  <2>2. CASE ~ (k < Len(message))
    <3>0. Len(message) \in Nat
      BY <1>2, Server
    <3>1. k = Len(message)
      BY <2>2, <3>0
    <3>2. p = Len(Chunks) /\ Len(Chunks) \in Nat
      BY <3>1, <1>2, Wire
    <3>3. Stream[Len(Chunks) + 1] = Digits[1] /\ Stream[Len(Chunks) + 2] = "cr"
      BY <1>2, Wire
    <3>4. /\ Zero \in Seq(Digit) /\ Len(Zero) = 1 /\ Zero[1] = Digits[1] /\ "cr" \notin Digit
          /\ 1 \in 1 .. MaxDigits
      BY Characters
    <3>5. s = Zero
      BY <2>2
    <3> HIDE DEF s, p
    <3>6. \A j \in 1 .. 1 : Stream[p + j] = s[j]
      BY <3>2, <3>3, <3>4, <3>5
    <3>8. Len(s) = 1
      BY <3>4, <3>5
    <3>7. p + Len(s) + 1 = Len(Chunks) + 2
      BY <3>2, <3>8
    <3> QED
      BY <3>3, <3>4, <3>5, <3>6, <3>7
  <2> QED
    BY <2>1, <2>2
<1>5. /\ l \in Nat /\ l <= Len(s) /\ frag = SubSeq(s, 1, l) /\ pos = p + l
      /\ Given(BodyAt(k)) /\ frag \in Seq(Digit)
  BY <1>2, <1>3 DEF InLength, TypeOK
<1>6. /\ pos \in Nat /\ avail \in Nat /\ p \in Nat
      /\ Ahead \in Seq(Chars) /\ Len(Ahead) = avail
      /\ \A j \in 1 .. avail : Ahead[j] = Stream[pos + j]
  BY <1>2, Blocks, Wire
<1> DEFINE n == IF avail < Len(s) - l THEN avail ELSE Len(s) - l
           f == frag \o SubSeq(Ahead, 1, n)
<1> HIDE DEF s, p, l
<1>7. n \in 0 .. avail /\ l + n \in 0 .. Len(s) /\ n \in Nat /\ (n < avail => l + n = Len(s))
  BY <1>4, <1>5, <1>6
<1> HIDE DEF n
<1>8. \A i \in 1 .. n : Ahead[i] = s[l + i] /\ s[l + i] \in Digit
  <2> SUFFICES ASSUME NEW i \in 1 .. n PROVE Ahead[i] = s[l + i] /\ s[l + i] \in Digit
    OBVIOUS
  <2>5. i \in Nat /\ i >= 1 /\ i <= n /\ n <= avail /\ l + n <= Len(s) /\ Len(s) \in Nat
    BY <1>4, <1>7
  <2>6. pos = p + l /\ p \in Nat /\ l \in Nat /\ avail \in Nat /\ n \in Nat
    BY <1>5, <1>6, <1>7
  <2>7. i \in 1 .. avail /\ pos + i = p + (l + i)
    BY <2>5, <2>6
  <2>8. l + i \in 1 .. Len(s)
    <3> DEFINE e == Len(s)
    <3>1. e \in Nat /\ l + n <= e /\ i \in Nat /\ i >= 1 /\ i <= n /\ l \in Nat /\ n \in Nat
      BY <2>5, <2>6
    <3> HIDE DEF e
    <3>2. l + i \in 1 .. e
      BY <3>1
    <3> QED
      BY <3>2 DEF e
  <2>1. i \in 1 .. avail /\ l + i \in 1 .. Len(s) /\ pos + i = p + (l + i)
    BY <2>7, <2>8
  <2>2. Ahead[i] = Stream[pos + i]
    BY <2>1, <1>6
  <2>3. Stream[p + (l + i)] = s[l + i]
    BY <2>1, <1>4
  <2>4. s[l + i] \in Digit
    BY <2>1, <1>4
  <2> QED
    BY <2>1, <2>2, <2>3, <2>4
<1>9. n < avail => Ahead[n + 1] \notin Digit
  <2> SUFFICES ASSUME n < avail PROVE Ahead[n + 1] \notin Digit
    OBVIOUS
  <2>0. Len(s) \in Nat /\ l + n = Len(s)
    BY <1>4, <1>7, Characters
  <2>3. pos = p + l /\ p \in Nat /\ l \in Nat /\ n \in Nat /\ avail \in Nat
    BY <1>5, <1>6, <1>7
  <2>2. p + l + (n + 1) = p + (l + n) + 1
    BY <2>3
  <2>1. n + 1 \in 1 .. avail /\ pos + (n + 1) = p + Len(s) + 1
    BY <2>0, <2>2, <2>3
  <2> QED
    BY <2>1, <1>4, <1>6
<1>10. LeadingDigits(Ahead) = n
  BY <1>6, <1>7, <1>8, <1>9, Leads
<1>11. f = SubSeq(s, 1, l + n) /\ f \in Seq(Digit) /\ Len(f) = l + n
  <2> DEFINE piece == SubSeq(Ahead, 1, n)
  <2>1. Len(piece) = n /\ \A j \in 1 .. n : piece[j] = Ahead[j]
    <3>1. Len(piece) = n /\ \A j \in 1 .. n : piece[j] = Stream[pos + j]
      BY <1>2, <1>7, Blocks
    <3> HIDE DEF piece
    <3> QED
      BY <3>1, <1>6, <1>7
  <2>2. piece \in Seq(Digit)
    <3>1. 1 \in Int /\ n \in Int /\ \A i \in 1 .. n : Ahead[i] \in Digit
      BY <1>7, <1>8
    <3> QED
      BY <3>1, SubSeqProperties
  <2> HIDE DEF piece
  <2>3. l + Len(piece) <= Len(s) /\ \A j \in 1 .. Len(piece) : piece[j] = s[l + j]
    <3>1. l + n <= Len(s)
      BY <1>4, <1>7, Characters
    <3>2. \A j \in 1 .. n : piece[j] = s[l + j]
      BY <2>1, <1>8
    <3> QED
      BY <2>1, <3>1, <3>2
  <2>4. SubSeq(s, 1, l) \o piece = SubSeq(s, 1, l + Len(piece))
    BY <2>2, <2>3, <1>4, <1>5, Appends
  <2>5. frag \o piece = SubSeq(s, 1, l + n)
    BY <2>1, <2>4, <1>5
  <2>6. frag \o piece \in Seq(Digit) /\ Len(frag \o piece) = l + n
    <3>1. frag \in Seq(Digit) /\ Len(frag) = l
      BY <1>5 DEF l
    <3> QED
      BY <2>1, <2>2, <3>1, ConcatProperties
  <2> QED
    BY <2>5, <2>6 DEF piece
<1> HIDE DEF f
<1>12. Len(f) <= MaxDigits /\ (n < avail => f = s /\ f # <<>>)
  <2>1. SubSeq(s, 1, Len(s)) = s
    BY <1>4, SubSeqFull
  <2>2. Len(s) \in Nat /\ MaxDigits \in Nat /\ Len(s) >= 1 /\ Len(s) <= MaxDigits
    BY <1>4, Characters
  <2>3. Len(f) <= MaxDigits
    BY <2>2, <1>7, <1>11
  <2>4. ASSUME n < avail PROVE f = s /\ f # <<>>
    <3>1. f = s
      BY <2>1, <2>4, <1>7, <1>11
    <3>2. Len(<<>>) = 0
      OBVIOUS
    <3> QED
      BY <3>1, <3>2, <2>2
  <2> QED
    BY <2>3, <2>4
<1>13. /\ Consume(n, ~dechunk) /\ frag' = f
       /\ UNCHANGED <<message, dechunk, eos, done, verdict>>
       /\ n = avail => UNCHANGED <<state, total, len, cr>>
       /\ n # avail =>
            /\ total' = Number(f) /\ len' = 0
            /\ Number(f) = 0 => state' = "DATA_DONE" /\ cr' = cr
            /\ Number(f) # 0 => state' = "RETURN" /\ cr' = FALSE
  <2>1. ~ (Len(f) > MaxDigits \/ (n < avail /\ f = <<>>))
    BY <1>12, <1>11, <1>7, <1>4, Characters
  <2>2. IF Len(f) > MaxDigits \/ (n < avail /\ f = <<>>)
        THEN Stop("ERROR")
        ELSE /\ Skip(n)
             /\ frag' = f
             /\ IF n = avail
                THEN UNCHANGED <<state, total, len, cr>>
                ELSE /\ total' = Number(f)
                     /\ len' = 0
                     /\ IF Number(f) = 0
                        THEN state' = "DATA_DONE" /\ UNCHANGED cr
                        ELSE state' = "RETURN" /\ cr' = FALSE
             /\ UNCHANGED <<message, dechunk, eos, done, verdict>>
    BY <1>10, Zenon DEF WaitLength, f
  <2> QED
    BY <2>1, <2>2 DEF Skip
<1>14. /\ pos' = pos + n
       /\ pos' \in 0 .. Len(Stream)' /\ avail' \in 0 .. (Len(Stream)' - pos')
       /\ \A b : Given(b) => Given(b)'
  BY <1>2, <1>7, <1>13, Moves
<1>15. /\ Body' = Body /\ EndOfBody' = EndOfBody /\ \A i : At(i)' = At(i) /\ BodyAt(i)' = BodyAt(i)
  BY <1>13, Fixed
<1>16. frag' \in Seq(Digit) /\ Len(frag') <= MaxDigits /\ ~done'
  BY <1>2, <1>11, <1>12, <1>13
<1>17. CASE n = avail
  <2>1. TypeOK'
    BY <1>2, <1>13, <1>14, <1>16, <1>17 DEF TypeOK
  <2>2. Len(frag') <= Len(s) /\ frag' = SubSeq(s, 1, Len(frag')) /\ pos' = At(k) + Len(frag')
    <3>1. frag' = SubSeq(s, 1, l + n) /\ Len(frag') = l + n
      BY <1>11, <1>13
    <3>2. l + n <= Len(s) /\ pos' = p + (l + n)
      BY <1>4, <1>5, <1>6, <1>7, <1>14, Characters
    <3> QED
      BY <3>1, <3>2 DEF p
  <2>3. InLength(k)'
    <3>1. Given(BodyAt(k))'
      BY <1>5, <1>14, <1>15 DEF Given
    <3> QED
      BY <2>2, <3>1, <1>1, <1>13, <1>15, <1>16, <1>17 DEF InLength, s
  <2> QED
    BY <2>1, <2>3, <1>1, <1>13, <1>16 DEF ChunkedInv
<1>18. CASE n # avail /\ k < Len(message)
  <2> DEFINE c == message[k + 1]
  <2>1. f = c.size
    BY <1>7, <1>12, <1>18, <1>6 DEF s
  <2>2. Number(c.size) = Len(c.data) /\ Len(c.data) \in Nat \ {0} /\ Len(c.size) \in Nat
    <3>1. WellFormed(c)
      BY <1>2, <1>18, Framing DEF Framed
    <3> HIDE DEF c
    <3> QED
      BY <3>1, Characters DEF WellFormed
  <2>3. /\ total' = Len(c.data) /\ total' \in Nat /\ len' = 0 /\ state' = "RETURN" /\ cr' = FALSE
    BY <1>13, <1>18, <2>1, <2>2
  <2>4. pos' = At(k) + Len(c.size)
    <3>1. Len(f) = l + n
      BY <1>11
    <3>2. pos' = p + (l + n)
      BY <1>5, <1>6, <1>7, <1>14
    <3> QED
      BY <2>1, <3>1, <3>2 DEF p
  <2>5. TypeOK'
    <3>0. \A i \in Nat : 0 \in 0 .. i
      OBVIOUS
    <3>1. len' \in 0 .. total' /\ cr' \in BOOLEAN
      BY <2>3, <3>0
    <3> QED
      BY <1>2, <1>13, <1>14, <1>16, <2>3, <3>1 DEF TypeOK
  <2>6. Given(BodyAt(k))'
    BY <1>5, <1>14, <1>15 DEF Given
  <2>7. InChunk(k)'
    BY <2>3, <2>4, <2>6, <1>13, <1>15, <1>16, <1>18 DEF InChunk
  <2> QED
    BY <2>5, <2>7, <1>1, <1>13, <1>16 DEF ChunkedInv
<1>19. CASE n # avail /\ ~ (k < Len(message))
  <2>0. Len(message) \in Nat /\ n < avail
    BY <1>2, <1>6, <1>7, <1>19, Server
  <2>1. k = Len(message) /\ f = Zero
    BY <2>0, <1>12, <1>19 DEF s
  <2>2. At(k) = Len(Chunks) /\ BodyAt(k) = Len(Body) /\ Len(Chunks) \in Nat
    BY <2>1, <1>2, Wire
  <2>3. total' = 0 /\ len' = 0 /\ state' = "DATA_DONE" /\ cr' = cr
    BY <1>13, <1>19, <2>1, ZeroIsZero
  <2>4. pos' = EndOfBody
    <3>1. l + n = 1
      BY <2>1, <1>11, Characters
    <3>2. pos' = p + (l + n)
      BY <1>5, <1>6, <1>7, <1>14
    <3> QED
      BY <2>2, <3>1, <3>2 DEF EndOfBody, p
  <2>5. TypeOK'
    BY <1>2, <1>13, <1>14, <1>16, <2>3 DEF TypeOK
  <2>6. Given(Len(Body))'
    BY <1>5, <1>14, <1>15, <2>2 DEF Given
  <2>7. Over'
    BY <2>2, <2>3, <2>4, <2>6, <1>15, <1>16 DEF Over, EndOfBody
  <2> QED
    BY <2>5, <2>7, <1>1, <1>13, <1>16 DEF ChunkedInv
<1> QED
  BY <1>17, <1>18, <1>19

(* What chunked_extract_return makes of a line end whose CR is the x-th of *)
(* the characters to come, or was the last one before them.                *)
LineEnd(x) ==
  IF cr THEN Stream[pos + 1] = "lf"
  ELSE /\ \A i \in 1 .. x - 1 : Stream[pos + i] # "cr"
       /\ Stream[pos + x] = "cr" /\ Stream[pos + x + 1] = "lf"

Returned(next, x) ==
  LET r == IF cr THEN 1 ELSE x + 1 IN
  /\ UNCHANGED <<message, dechunk, eos, total, done, verdict>>
  /\ cr' = TRUE
  /\ \/ ~cr /\ avail = x /\ Consume(x, ~dechunk) /\ state' = state
     \/ r <= avail /\ Consume(r, ~dechunk) /\ state' = next

LEMMA Returns ==
  ASSUME TypeOK, avail > 0, NEW next, ExtractReturn(next), NEW x \in Nat \ {0}, LineEnd(x)
  PROVE  (Stop("crash") /\ ~cr /\ avail < x) \/ Returned(next, x)
<1>1. /\ pos \in Nat /\ avail \in Nat /\ Ahead \in Seq(Chars) /\ Len(Ahead) = avail
      /\ \A j \in 1 .. avail : Ahead[j] = Stream[pos + j]
  BY Blocks
<1> DEFINE n == Find(Ahead)
<1>2. /\ n = 0 => Stop("crash")
      /\ n # 0 =>
           /\ Consume(IF n > avail THEN avail ELSE n, ~dechunk)
           /\ cr' = TRUE
           /\ state' = IF n > avail THEN state ELSE next
           /\ UNCHANGED <<message, dechunk, eos, total, done, verdict>>
  BY DEF ExtractReturn, Skip
<1>3. CASE cr
  <2>1. Ahead[1] = "lf"
    BY <1>1, <1>3 DEF LineEnd
  <2>2. n = 1
    BY <1>3, <2>1 DEF Find
  <2> HIDE DEF n
  <2>3. ~ (n > avail) /\ n # 0 /\ 1 <= avail
    BY <1>1, <2>2
  <2> QED
    BY <1>2, <1>3, <2>2, <2>3 DEF Returned
<1>4. CASE ~cr
  <2>1. /\ \A i \in 1 .. x - 1 : Stream[pos + i] # "cr"
        /\ Stream[pos + x] = "cr" /\ Stream[pos + x + 1] = "lf"
    BY <1>4 DEF LineEnd
  <2>2. /\ \A i \in 1 .. Len(Ahead) : i < x => Ahead[i] # "cr"
        /\ x <= Len(Ahead) => Ahead[x] = "cr"
        /\ x < Len(Ahead) => Ahead[x + 1] = "lf"
    <3>1. ASSUME NEW i \in 1 .. avail, i < x PROVE Ahead[i] # "cr"
      <4>1. i \in 1 .. x - 1
        BY <1>1, <3>1
      <4> QED
        BY <4>1, <2>1, <1>1
    <3>2. ASSUME x <= avail PROVE Ahead[x] = "cr"
      <4>1. x \in 1 .. avail
        BY <1>1, <3>2
      <4> QED
        BY <4>1, <2>1, <1>1
    <3>3. ASSUME x < avail PROVE Ahead[x + 1] = "lf"
      <4>1. x + 1 \in 1 .. avail /\ pos + (x + 1) = pos + x + 1
        BY <1>1, <3>3
      <4> QED
        BY <4>1, <2>1, <1>1
    <3> QED
      BY <3>1, <3>2, <3>3, <1>1
  <2>3. Ahead # <<>>
    <3>1. Len(<<>>) = 0
      OBVIOUS
    <3> QED
      BY <3>1, <1>1
  <2>4. SearchLF(Ahead, 1) = IF Len(Ahead) < x THEN 0 ELSE x + 1
    BY <1>1, <2>2, <2>3, FindsReturn
  <2>5. n = IF avail < x THEN 0 ELSE x + 1
    BY <1>1, <1>4, <2>4 DEF Find
  <2> HIDE DEF n
  <2>6. CASE avail < x
    BY <1>2, <1>4, <2>5, <2>6
  <2>7. CASE avail = x
    <3>1. n # 0 /\ n > avail
      BY <1>1, <2>5, <2>7
    <3> QED
      BY <1>2, <1>4, <2>7, <3>1 DEF Returned
  <2>8. CASE x < avail
    <3>1. n # 0 /\ ~ (n > avail) /\ n = x + 1 /\ x + 1 <= avail
      BY <1>1, <2>5, <2>8
    <3> QED
      BY <1>2, <1>4, <3>1 DEF Returned
  <2> QED
    BY <1>1, <2>6, <2>7, <2>8
<1> QED
  BY <1>3, <1>4

(* The line end after a length.                                            *)
LEMMA WaitReturnKeeps == ASSUME ChunkedInv, WaitReturn PROVE ChunkedInv'
<1>1. /\ verdict = "none" /\ avail > 0 /\ state = "RETURN" /\ ExtractReturn("DATA")
      /\ frag' = frag /\ len' = IF state' = "DATA" THEN 0 ELSE len
  BY DEF WaitReturn, In
<1>0. TypeOK
  BY DEF ChunkedInv
<1>2. PICK k \in 0 .. Len(message) : InChunk(k)
  BY <1>1 DEF ChunkedInv, InLength, Over
<1> DEFINE c == message[k + 1]
           s == At(k) + Len(c.size)
           t == Len(c.ext)
<1>3. /\ k < Len(message) /\ ~done /\ total = Len(c.data) /\ Given(BodyAt(k))
      /\ pos = IF cr THEN s + t + 1 ELSE s
  BY <1>1, <1>2 DEF InChunk
<1>4. /\ WellFormed(c)
      /\ \A j \in 1 .. t : Stream[s + j] = c.ext[j]
      /\ Stream[(s + t + 2) - 1] = "cr" /\ Stream[s + t + 2] = "lf"
  BY <1>0, <1>3, Framing DEF Framed, TypeOK
<1>5. /\ At(k) \in Nat /\ Len(c.size) \in Nat /\ t \in Nat /\ c.ext \in Seq(Text)
      /\ Len(c.data) \in Nat
  <2>1. At(k) \in Nat
    BY <1>0, Wire DEF TypeOK
  <2> HIDE DEF c
  <2> QED
    BY <1>4, <2>1, Characters DEF WellFormed
<1>6. /\ cr \in BOOLEAN /\ dechunk \in BOOLEAN /\ pos \in Nat /\ avail \in Nat /\ message \in Messages
  BY <1>0, Blocks, ChunkedAssumption DEF TypeOK
<1>7. s \in Nat
  BY <1>5
<1>8. t >= 1 => Extended
  <2> SUFFICES ASSUME t >= 1 PROVE Extended
    OBVIOUS
  <2>1. c.ext # <<>>
    <3>1. Len(<<>>) = 0
      OBVIOUS
    <3> QED
      BY <3>1
  <2>2. k + 1 \in DOMAIN message
    BY <1>3, <1>6, Server
  <2> QED
    BY <2>1, <2>2 DEF Extended
<1> HIDE DEF s, t
<1>9. LineEnd(t + 1)
  <2>1. CASE cr
    <3>1. pos + 1 = s + t + 2
      BY <1>3, <1>5, <1>7, <2>1
    <3> QED
      BY <1>4, <2>1, <3>1 DEF LineEnd
  <2>2. CASE ~cr
    <3>1. pos = s /\ pos + (t + 1) = (s + t + 2) - 1 /\ pos + (t + 1) + 1 = s + t + 2 /\ (t + 1) - 1 = t
      BY <1>3, <1>5, <1>7, <2>2
    <3>2. ASSUME NEW i \in 1 .. t PROVE Stream[pos + i] # "cr"
      <4>1. Stream[pos + i] = c.ext[i]
        BY <1>4, <3>1
      <4>2. c.ext[i] \in Text
        BY <1>5 DEF t
      <4> QED
        BY <4>1, <4>2, Characters
    <3>3. \A i \in 1 .. (t + 1) - 1 : Stream[pos + i] # "cr"
      BY <3>1, <3>2
    <3> QED
      BY <1>4, <2>2, <3>1, <3>3 DEF LineEnd
  <2> QED
    BY <2>1, <2>2
<1>10. (Stop("crash") /\ ~cr /\ avail < t + 1) \/ Returned("DATA", t + 1)
  <2>1. t + 1 \in Nat \ {0}
    BY <1>5
  <2> QED
    BY <2>1, <1>0, <1>1, <1>9, Returns
<1>11. CASE Stop("crash") /\ avail < t + 1
  <2>1. Extended
    BY <1>1, <1>5, <1>6, <1>8, <1>11
  <2> QED
    BY <1>3, <1>11, <2>1, StopKeeps
<1>12. CASE Returned("DATA", t + 1)
  <2> DEFINE r == IF cr THEN 1 ELSE t + 1 + 1
  <2>1. /\ message' = message /\ dechunk' = dechunk /\ eos' = eos /\ total' = total
        /\ done' = done /\ verdict' = verdict /\ cr' = TRUE
    BY <1>12 DEF Returned
  <2>2. /\ \A i : At(i)' = At(i) /\ BodyAt(i)' = BodyAt(i)
    BY <2>1, Fixed
  <2>3. CASE ~cr /\ avail = t + 1 /\ Consume(t + 1, ~dechunk) /\ state' = state
    <3>1. t + 1 \in 0 .. avail
      BY <1>5, <2>3
    <3>2. /\ pos' = pos + (t + 1)
          /\ pos' \in 0 .. Len(Stream)' /\ avail' \in 0 .. (Len(Stream)' - pos')
          /\ \A b : Given(b) => Given(b)'
      BY <1>0, <1>6, <2>1, <2>3, <3>1, Moves
    <3>3. len' = len /\ state' = "RETURN"
      BY <1>1, <2>3
    <3>4. TypeOK'
      BY <1>0, <1>1, <2>1, <3>2, <3>3 DEF TypeOK
    <3>5. pos' = s + t + 1
      BY <1>3, <1>5, <1>7, <2>3, <3>2
    <3>6. Given(BodyAt(k))'
      BY <1>3, <2>2, <3>2 DEF Given
    <3>7. InChunk(k)'
      BY <1>3, <2>1, <2>2, <3>3, <3>5, <3>6 DEF InChunk, s, t
    <3> QED
      BY <1>1, <1>3, <2>1, <3>4, <3>7 DEF ChunkedInv
  <2>4. CASE r <= avail /\ Consume(r, ~dechunk) /\ state' = "DATA"
    <3>1. r \in 0 .. avail
      BY <1>5, <1>6, <2>4
    <3>2. /\ pos' = pos + r
          /\ pos' \in 0 .. Len(Stream)' /\ avail' \in 0 .. (Len(Stream)' - pos')
          /\ \A b : Given(b) => Given(b)'
      <4> HIDE DEF r
      <4> QED
        BY <1>0, <1>6, <2>1, <2>4, <3>1, Moves
    <3>3. len' = 0
      BY <1>1, <2>4
    <3>0. 0 \in 0 .. total /\ total \in Nat
      BY <1>0 DEF TypeOK
    <3>4. TypeOK'
      BY <1>0, <1>1, <2>1, <2>4, <3>0, <3>2, <3>3 DEF TypeOK
    <3>5. pos' = s + t + 2 + len'
      BY <1>3, <1>5, <1>6, <1>7, <3>2, <3>3
    <3>6. Given(BodyAt(k) + len)'
      <4>1. BodyAt(k) \in Nat
        BY <1>6, Wire
      <4>2. BodyAt(k) + 0 = BodyAt(k)
        BY <4>1
      <4>3. Given(BodyAt(k))'
        BY <1>3, <2>2, <3>2 DEF Given
      <4> QED
        BY <2>2, <3>3, <4>2, <4>3 DEF Given
    <3>7. InChunk(k)'
      BY <1>3, <2>1, <2>2, <2>4, <3>0, <3>3, <3>5, <3>6 DEF InChunk, s, t
    <3> QED
      BY <1>1, <1>3, <2>1, <3>4, <3>7 DEF ChunkedInv
  <2> QED
    BY <1>12, <2>3, <2>4 DEF Returned
<1> QED
  BY <1>10, <1>11, <1>12

(* The line end after a chunk.                                             *)
LEMMA WaitReturnEndKeeps == ASSUME ChunkedInv, WaitReturnEnd PROVE ChunkedInv'
<1>1. /\ verdict = "none" /\ avail > 0 /\ state = "RETURN_END" /\ ExtractReturn("LENGTH")
      /\ frag' = IF state' = "LENGTH" THEN <<>> ELSE frag
      /\ len' = len
  BY DEF WaitReturnEnd, In
<1>0. TypeOK
  BY DEF ChunkedInv
<1>2. PICK k \in 0 .. Len(message) : InChunk(k)
  BY <1>1 DEF ChunkedInv, InLength, Over
<1> DEFINE c == message[k + 1]
           d == At(k) + Len(c.size) + Len(c.ext) + 2
           e == d + Len(c.data)
<1>3. /\ k < Len(message) /\ ~done /\ total = Len(c.data) /\ Given(BodyAt(k + 1))
      /\ pos = d + total + (IF cr THEN 1 ELSE 0)
  BY <1>1, <1>2 DEF InChunk
<1>4. /\ WellFormed(c) /\ At(k + 1) = e + 2
      /\ Stream[e + 1] = "cr" /\ Stream[e + 2] = "lf"
  BY <1>0, <1>3, Framing DEF Framed, TypeOK
<1>5. /\ At(k) \in Nat /\ Len(c.size) \in Nat /\ Len(c.ext) \in Nat /\ Len(c.data) \in Nat
  <2>1. At(k) \in Nat
    BY <1>0, Wire DEF TypeOK
  <2> HIDE DEF c
  <2> QED
    BY <1>4, <2>1, Characters DEF WellFormed
<1>6. /\ cr \in BOOLEAN /\ dechunk \in BOOLEAN /\ pos \in Nat /\ avail \in Nat /\ message \in Messages
  BY <1>0, Blocks, ChunkedAssumption DEF TypeOK
<1>7. e \in Nat /\ pos = e + (IF cr THEN 1 ELSE 0)
  <2>2. total = Len(c.data)
    BY <1>3
  <2>1. e \in Nat /\ d + total = e
    <3> DEFINE a == At(k)  b == Len(c.size)  t == Len(c.ext)  u == Len(c.data)
    <3>1. a \in Nat /\ b \in Nat /\ t \in Nat /\ u \in Nat /\ total = u
      BY <1>5, <2>2
    <3> HIDE DEF a, b, t, u
    <3>2. a + b + t + 2 + u \in Nat /\ a + b + t + 2 + total = a + b + t + 2 + u
      BY <3>1
    <3> QED
      BY <3>2, Zenon DEF a, b, t, u
  <2> HIDE DEF d, e
  <2> QED
    BY <2>1, <1>3
<1> HIDE DEF c, d, e
<1>9. LineEnd(1)
  <2>1. CASE cr
    <3>1. pos + 1 = e + 2
      BY <1>7, <2>1
    <3> QED
      BY <1>4, <2>1, <3>1 DEF LineEnd
  <2>2. CASE ~cr
    <3>1. pos + 1 = e + 1 /\ pos + 1 + 1 = e + 2
      BY <1>7, <2>2
    <3>2. 1 .. 1 - 1 = {}
      OBVIOUS
    <3> QED
      BY <1>4, <2>2, <3>1, <3>2 DEF LineEnd
  <2> QED
    BY <2>1, <2>2
<1>10. Returned("LENGTH", 1)
  <2>1. (Stop("crash") /\ ~cr /\ avail < 1) \/ Returned("LENGTH", 1)
    BY <1>0, <1>1, <1>9, Returns
  <2> QED
    BY <2>1, <1>1, <1>6
<1> DEFINE r == IF cr THEN 1 ELSE 1 + 1
<1>11. /\ message' = message /\ dechunk' = dechunk /\ eos' = eos /\ total' = total
       /\ done' = done /\ verdict' = verdict /\ cr' = TRUE
  BY <1>10 DEF Returned
<1>12. \A i : At(i)' = At(i) /\ BodyAt(i)' = BodyAt(i)
  BY <1>11, Fixed
<1>13. CASE ~cr /\ avail = 1 /\ Consume(1, ~dechunk) /\ state' = state
  <2>1. 1 \in 0 .. avail
    BY <1>13
  <2>2. /\ pos' = pos + 1
        /\ pos' \in 0 .. Len(Stream)' /\ avail' \in 0 .. (Len(Stream)' - pos')
        /\ \A b : Given(b) => Given(b)'
    BY <1>0, <1>6, <1>11, <1>13, <2>1, Moves
  <2>3. frag' = frag /\ state' = "RETURN_END"
    BY <1>1, <1>13
  <2>4. TypeOK'
    BY <1>0, <1>1, <1>11, <2>2, <2>3 DEF TypeOK
  <2>5. pos' = d + total + 1
    BY <1>3, <1>7, <1>13, <2>2 DEF e
  <2>6. Given(BodyAt(k + 1))'
    BY <1>3, <1>12, <2>2 DEF Given
  <2>7. InChunk(k)'
    BY <1>3, <1>11, <1>12, <2>3, <2>5, <2>6 DEF InChunk, d, c
  <2> QED
    BY <1>1, <1>3, <1>11, <2>4, <2>7 DEF ChunkedInv
<1>14. CASE r <= avail /\ Consume(r, ~dechunk) /\ state' = "LENGTH"
  <2>1. r \in 0 .. avail
    BY <1>6, <1>14
  <2>2. /\ pos' = pos + r
        /\ pos' \in 0 .. Len(Stream)' /\ avail' \in 0 .. (Len(Stream)' - pos')
        /\ \A b : Given(b) => Given(b)'
    <3> HIDE DEF r
    <3> QED
      BY <1>0, <1>6, <1>11, <1>14, <2>1, Moves
  <2>3. frag' = <<>> /\ Len(<<>>) = 0 /\ <<>> \in Seq(Digit) /\ 0 <= MaxDigits
    BY <1>1, <1>14, Characters
  <2>4. TypeOK'
    BY <1>0, <1>1, <1>11, <1>14, <2>2, <2>3 DEF TypeOK
  <2>5. pos' = At(k + 1)
    BY <1>4, <1>6, <1>7, <2>2
  <2>6. k + 1 \in 0 .. Len(message) /\ At(k + 1) \in Nat
    <3>1. k + 1 \in 0 .. Len(message)
      BY <1>3, <1>6, Server
    <3> QED
      BY <3>1, <1>6, Wire
  <2>7. Given(BodyAt(k + 1))'
    BY <1>3, <1>12, <2>2 DEF Given
  <2> DEFINE z == IF k + 1 < Len(message) THEN message[k + 1 + 1].size ELSE Zero
  <2>8. Len(z) \in Nat
    <3>1. CASE k + 1 < Len(message)
      <4>1. k + 1 + 1 \in 1 .. Len(message)
        BY <2>6, <3>1
      <4>2. WellFormed(message[k + 1 + 1])
        BY <4>1, <1>6, Server
      <4> QED
        BY <3>1, <4>2, Characters DEF WellFormed
    <3>2. CASE ~ (k + 1 < Len(message))
      BY <3>2, Characters
    <3> QED
      BY <3>1, <3>2
  <2> HIDE DEF z
  <2>9. SubSeq(z, 1, 0) = <<>>
    BY SubSeqEmpty
  <2>10. /\ Len(frag') <= Len(z) /\ frag' = SubSeq(z, 1, Len(frag'))
         /\ pos' = At(k + 1) + Len(frag')
    BY <2>3, <2>5, <2>6, <2>8, <2>9
  <2>11. InLength(k + 1)'
    BY <1>3, <1>11, <1>12, <1>14, <2>7, <2>10 DEF InLength, z
  <2> QED
    BY <1>1, <1>3, <1>11, <2>4, <2>6, <2>11 DEF ChunkedInv
<1> QED
  BY <1>10, <1>13, <1>14 DEF Returned

(* The data of a chunk.                                                    *)
LEMMA WaitDataKeeps == ASSUME ChunkedInv, WaitData PROVE ChunkedInv'
<1>0. TypeOK
  BY DEF ChunkedInv
<1>1. /\ verdict = "none" /\ avail > 0 /\ state = "DATA"
      /\ message' = message /\ dechunk' = dechunk /\ eos' = eos /\ total' = total
      /\ frag' = frag /\ done' = done /\ verdict' = verdict
      /\ \/ /\ len + avail <= total
            /\ Consume(avail, TRUE) /\ len' = len + avail /\ state' = state /\ cr' = cr
         \/ /\ ~ (len + avail <= total)
            /\ Consume(total - len, TRUE) /\ len' = total /\ cr' = FALSE /\ state' = "RETURN_END"
  BY DEF WaitData, In, Deliver
<1>2. PICK k \in 0 .. Len(message) : InChunk(k)
  BY <1>1 DEF ChunkedInv, InLength, Over
<1> DEFINE c == message[k + 1]
           d == At(k) + Len(c.size) + Len(c.ext) + 2
<1>3. /\ k < Len(message) /\ ~done /\ total = Len(c.data)
      /\ len \in 0 .. total /\ pos = d + len /\ Given(BodyAt(k) + len)
  BY <1>1, <1>2 DEF InChunk
<1>4. /\ WellFormed(c) /\ BodyAt(k + 1) = BodyAt(k) + total
      /\ \A j \in 1 .. total : Stream[d + j] = c.data[j] /\ Body[BodyAt(k) + j] = c.data[j]
  BY <1>0, <1>3, Framing DEF Framed, TypeOK
<1>5. /\ BodyAt(k) \in Nat /\ d \in Nat /\ total \in Nat /\ BodyAt(k) + total <= Len(Body)
  <2>1. message \in Messages
    BY <1>0 DEF TypeOK
  <2>2. k + 1 \in 0 .. Len(message)
    BY <1>3, <2>1, Server
  <2>3. At(k) \in Nat /\ BodyAt(k) \in Nat /\ BodyAt(k + 1) <= Len(Body)
    BY <2>1, <2>2, Wire
  <2>4. Len(c.size) \in Nat /\ Len(c.ext) \in Nat
    <3> HIDE DEF c
    <3> QED
      BY <1>4, Characters DEF WellFormed
  <2>5. total \in Nat
    BY <1>0 DEF TypeOK
  <2>6. d \in Nat
    <3> HIDE DEF c
    <3> QED
      BY <2>3, <2>4
  <2>7. BodyAt(k) + total <= Len(Body)
    BY <1>4, <2>3
  <2> HIDE DEF d
  <2> QED
    BY <2>3, <2>5, <2>6, <2>7
<1>6. /\ cr \in BOOLEAN /\ dechunk \in BOOLEAN /\ avail \in Nat /\ TRUE \in BOOLEAN
      /\ Len(Body) \in Nat
  BY <1>0, Blocks, Wire, ChunkedAssumption DEF TypeOK
<1> HIDE DEF d
<1>7. \A i : At(i)' = At(i) /\ BodyAt(i)' = BodyAt(i)
  BY <1>1, Fixed
<1>8. ASSUME NEW n \in Nat, n <= avail, len + n <= total, Consume(n, TRUE)
      PROVE  /\ pos' = d + (len + n)
             /\ pos' \in 0 .. Len(Stream)' /\ avail' \in 0 .. (Len(Stream)' - pos')
             /\ \A b : b = BodyAt(k) + (len + n) => Given(b)'
  <2>1. n \in 0 .. avail /\ BodyAt(k) + len \in Nat
    BY <1>3, <1>5, <1>6, <1>8
  <2>0. PICK a \in Nat : a = BodyAt(k) + len
    BY <2>1
  <2>2. /\ pos' = pos + n
        /\ pos' \in 0 .. Len(Stream)' /\ avail' \in 0 .. (Len(Stream)' - pos')
        /\ \A b \in Nat :
             /\ Given(b) /\ b + n <= Len(Body)
             /\ \A j \in 1 .. n : Body[b + j] = Stream[pos + j]
             => Given(b + n)'
    BY <1>0, <1>1, <1>6, <1>8, <2>1, Moves
  <2>3. BodyAt(k) + len + n <= Len(Body)
    BY <1>3, <1>5, <1>6, <1>8
  <2>4. ASSUME NEW j \in 1 .. n PROVE Body[BodyAt(k) + len + j] = Stream[pos + j]
    <3>1. /\ len + j \in 1 .. total
          /\ BodyAt(k) + len + j = BodyAt(k) + (len + j) /\ pos + j = d + (len + j)
      BY <1>3, <1>5, <1>8
    <3> QED
      BY <3>1, <1>4
  <2>5. Given(a + n)'
    <3>1. Given(a) /\ a + n <= Len(Body) /\ \A j \in 1 .. n : Body[a + j] = Stream[pos + j]
      BY <2>0, <2>3, <2>4, <1>3
    <3> QED
      BY <3>1, <2>2
  <2>6. a + n = BodyAt(k) + (len + n) /\ pos + n = d + (len + n)
    BY <2>0, <1>3, <1>5, <1>8
  <2>7. ASSUME NEW b, b = BodyAt(k) + (len + n) PROVE Given(b)'
    <3>1. b = a + n
      BY <2>6, <2>7
    <3> QED
      BY <3>1, <2>5
  <2> QED
    BY <2>2, <2>6, <2>7
<1>9. CASE /\ len + avail <= total
           /\ Consume(avail, TRUE) /\ len' = len + avail /\ state' = state /\ cr' = cr
  <2>1. /\ pos' = d + (len + avail)
        /\ pos' \in 0 .. Len(Stream)' /\ avail' \in 0 .. (Len(Stream)' - pos')
        /\ \A b : b = BodyAt(k) + (len + avail) => Given(b)'
    <3>1. avail <= avail
      BY <1>6
    <3> QED
      BY <3>1, <1>6, <1>8, <1>9
  <2>2. len' \in 0 .. total'
    BY <1>1, <1>3, <1>5, <1>6, <1>9
  <2>3. TypeOK'
    BY <1>0, <1>1, <1>9, <2>1, <2>2 DEF TypeOK
  <2>4. Given(BodyAt(k) + len)'
    <3>1. PICK b : b = BodyAt(k) + (len + avail)
      OBVIOUS
    <3>2. Given(b)'
      BY <3>1, <2>1
    <3>3. BodyAt(k)' + len' = b
      BY <3>1, <1>7, <1>9
    <3> QED
      BY <3>2, <3>3 DEF Given
  <2>5. InChunk(k)'
    BY <1>1, <1>3, <1>7, <1>9, <2>1, <2>2, <2>4 DEF InChunk, d
  <2> QED
    BY <1>1, <1>3, <2>3, <2>5 DEF ChunkedInv
<1>10. CASE /\ ~ (len + avail <= total)
            /\ Consume(total - len, TRUE) /\ len' = total /\ cr' = FALSE /\ state' = "RETURN_END"
  <2>1. total - len \in Nat /\ total - len <= avail /\ len + (total - len) = total
    BY <1>3, <1>5, <1>6, <1>10
  <2>2. /\ pos' = d + (len + (total - len))
        /\ pos' \in 0 .. Len(Stream)' /\ avail' \in 0 .. (Len(Stream)' - pos')
        /\ \A b : b = BodyAt(k) + (len + (total - len)) => Given(b)'
    <3> DEFINE n == total - len
    <3>0. len + n <= total
      BY <2>1, <1>5
    <3>1. n \in Nat /\ n <= avail /\ len + n <= total /\ Consume(n, TRUE)
      BY <2>1, <3>0, <1>10
    <3> HIDE DEF n
    <3>2. /\ pos' = d + (len + n)
          /\ pos' \in 0 .. Len(Stream)' /\ avail' \in 0 .. (Len(Stream)' - pos')
          /\ \A b : b = BodyAt(k) + (len + n) => Given(b)'
      BY <3>1, <1>8
    <3> QED
      BY <3>2 DEF n
  <2>3. pos' = d + total + 0
    BY <2>1, <2>2, <1>5
  <2>4. Given(BodyAt(k + 1))'
    <3>1. PICK b : b = BodyAt(k) + (len + (total - len))
      OBVIOUS
    <3>2. Given(b)'
      BY <3>1, <2>2
    <3>3. BodyAt(k + 1)' = b
      BY <3>1, <2>1, <1>4, <1>7
    <3> QED
      BY <3>2, <3>3 DEF Given
  <2>5. len' \in 0 .. total'
    BY <1>1, <1>5, <1>10
  <2>6. TypeOK'
    BY <1>0, <1>1, <1>10, <2>2, <2>5 DEF TypeOK
  <2>7. InChunk(k)'
    BY <1>1, <1>3, <1>7, <1>10, <2>3, <2>4 DEF InChunk, d
  <2> QED
    BY <1>1, <1>3, <1>10, <2>6, <2>7 DEF ChunkedInv
<1> QED
  BY <1>1, <1>9, <1>10

LEMMA NextInv == ChunkedInv /\ [Next]_vars => ChunkedInv'
<1> SUFFICES ASSUME ChunkedInv, [Next]_vars PROVE ChunkedInv'
  OBVIOUS
<1>1. CASE WaitLength
  BY <1>1, WaitLengthKeeps
<1>2. CASE WaitReturn
  BY <1>2, WaitReturnKeeps
<1>3. CASE WaitData
  BY <1>3, WaitDataKeeps
<1>4. CASE WaitReturnEnd
  BY <1>4, WaitReturnEndKeeps
<1>5. CASE DataDone
  BY <1>5, DataDoneKeeps
<1>6. CASE BlockEnd
  BY <1>6, BlockEndKeeps
<1>7. ASSUME NEW n \in 0 .. Len(Stream) - pos, Block(n) PROVE ChunkedInv'
  BY <1>7, BlockKeeps
<1>8. CASE UNCHANGED vars
  <2>1. /\ UNCHANGED <<message, dechunk, pos, avail, eos, state, total, len, frag, cr, done, out>>
        /\ verdict' = verdict
    BY <1>8 DEF vars
  <2>2. /\ Stream' = Stream /\ Body' = Body /\ Extended' = Extended /\ EndOfBody' = EndOfBody
        /\ \A k : At(k)' = At(k) /\ BodyAt(k)' = BodyAt(k)
    BY <2>1, Fixed
  <2>3. TypeOK'
    BY <2>1, <2>2 DEF ChunkedInv, TypeOK
  <2>4. \A b : Given(b) => Given(b)'
    BY <2>1, <2>2 DEF Given
  <2>5. ASSUME NEW k PROVE (InLength(k) => InLength(k)') /\ (InChunk(k) => InChunk(k)')
    BY <2>1, <2>2, <2>4 DEF InLength, InChunk
  <2>6. Over => Over'
    BY <2>1, <2>2, <2>4 DEF Over
  <2>7. ((\E k \in 0 .. Len(message) : InLength(k) \/ InChunk(k)) \/ Over)'
    BY <2>1, <2>5, <2>6 DEF ChunkedInv
  <2> QED
    BY <2>1, <2>2, <2>3, <2>7 DEF ChunkedInv
<1> QED
  BY <1>1, <1>2, <1>3, <1>4, <1>5, <1>6, <1>7, <1>8 DEF Next, Decode

(* Until its end the decoder is before the last length or in it.           *)
LEMMA NotOver ==
  ASSUME ChunkedInv, ~done
  PROVE  pos <= EndOfBody
<1>1. /\ TypeOK /\ message \in Messages /\ Len(Chunks) \in Nat /\ EndOfBody = Len(Chunks) + 1
      /\ Len(message) \in Nat /\ \A i \in 0 .. Len(message) : At(i) \in 0 .. Len(Chunks)
      /\ pos \in Nat
  BY Wire, Server, Blocks DEF ChunkedInv, TypeOK, EndOfBody
<1>2. CASE Over
  BY <1>1, <1>2 DEF Over
<1>3. ASSUME NEW k \in 0 .. Len(message), k < Len(message)
      PROVE  LET c == message[k + 1]
                 s == At(k) + Len(c.size)
             IN  /\ s + Len(c.ext) + 2 + Len(c.data) + 2 <= Len(Chunks)
                 /\ At(k) \in Nat /\ Len(c.size) \in Nat /\ Len(c.ext) \in Nat /\ Len(c.data) \in Nat
  <2> DEFINE c == message[k + 1]
  <2>1. WellFormed(c) /\ At(k + 1) = At(k) + Len(c.size) + Len(c.ext) + 2 + Len(c.data) + 2
    BY <1>1, <1>3, Framing DEF Framed
  <2>2. k + 1 \in 0 .. Len(message)
    BY <1>1, <1>3
  <2>3. At(k + 1) <= Len(Chunks) /\ At(k) \in Nat
    BY <2>2, <1>1
  <2> HIDE DEF c
  <2>4. Len(c.size) \in Nat /\ Len(c.ext) \in Nat /\ Len(c.data) \in Nat
    BY <2>1, Characters DEF WellFormed
  <2> QED
    BY <2>1, <2>3, <2>4 DEF c
<1>4. ASSUME NEW k \in 0 .. Len(message), InLength(k) PROVE pos <= EndOfBody
  <2> DEFINE l == Len(frag)
  <2>1. pos = At(k) + l /\ l \in Nat
    BY <1>1, <1>4 DEF InLength, TypeOK
  <2>2. CASE k < Len(message)
    <3> DEFINE c == message[k + 1]
    <3>1. l <= Len(c.size)
      BY <1>4, <2>2 DEF InLength
    <3>2. /\ At(k) + Len(c.size) + Len(c.ext) + 2 + Len(c.data) + 2 <= Len(Chunks)
          /\ At(k) \in Nat /\ Len(c.size) \in Nat /\ Len(c.ext) \in Nat /\ Len(c.data) \in Nat
      BY <1>3, <2>2
    <3> DEFINE a == At(k)  b == Len(c.size)  t == Len(c.ext)  u == Len(c.data)
    <3>3. /\ a + b + t + 2 + u + 2 <= Len(Chunks)
          /\ a \in Nat /\ b \in Nat /\ t \in Nat /\ u \in Nat /\ l <= b /\ pos = a + l
      BY <2>1, <3>1, <3>2, Zenon
    <3> HIDE DEF a, b, t, u, c, l
    <3> QED
      BY <1>1, <2>1, <3>3
  <2>3. CASE ~ (k < Len(message))
    <3>1. l <= 1
      BY <1>4, <2>3, Characters DEF InLength
    <3>2. At(k) \in Nat /\ At(k) <= Len(Chunks) /\ EndOfBody = Len(Chunks) + 1 /\ Len(Chunks) \in Nat
      BY <1>1
    <3> HIDE DEF l
    <3> QED
      BY <2>1, <3>1, <3>2
  <2> QED
    BY <2>2, <2>3
<1>5. ASSUME NEW k \in 0 .. Len(message), InChunk(k) PROVE pos <= EndOfBody
  <2> DEFINE c == message[k + 1]
             s == At(k) + Len(c.size)
             d == s + Len(c.ext) + 2
  <2>1. /\ k < Len(message) /\ total = Len(c.data)
        /\ \/ pos = IF cr THEN s + Len(c.ext) + 1 ELSE s
           \/ len \in 0 .. total /\ pos = d + len
           \/ pos = d + total + (IF cr THEN 1 ELSE 0)
    BY <1>5 DEF InChunk
  <2>2. /\ d + total + 2 <= Len(Chunks)
        /\ At(k) \in Nat /\ Len(c.size) \in Nat /\ Len(c.ext) \in Nat /\ total \in Nat
    BY <1>3, <2>1
  <2>3. s \in Nat /\ d \in Nat /\ d = s + Len(c.ext) + 2
    <3> DEFINE a == At(k)  b == Len(c.size)  t == Len(c.ext)
    <3>1. a \in Nat /\ b \in Nat /\ t \in Nat
      BY <2>2
    <3> HIDE DEF a, b, t
    <3>2. a + b \in Nat /\ a + b + t + 2 \in Nat
      BY <3>1
    <3> QED
      BY <3>2, Zenon DEF a, b, t
  <2> HIDE DEF c, s, d
  <2>4. CASE pos = IF cr THEN s + Len(c.ext) + 1 ELSE s
    BY <1>1, <2>2, <2>3, <2>4
  <2>5. CASE len \in 0 .. total /\ pos = d + len
    BY <1>1, <2>2, <2>3, <2>5
  <2>6. CASE pos = d + total + (IF cr THEN 1 ELSE 0)
    <3>1. CASE cr
      BY <1>1, <2>2, <2>3, <2>6, <3>1
    <3>2. CASE ~cr
      BY <1>1, <2>2, <2>3, <2>6, <3>2
    <3> QED
      BY <3>1, <3>2
  <2> QED
    BY <2>1, <2>4, <2>5, <2>6
<1> QED
  BY <1>2, <1>4, <1>5 DEF ChunkedInv

LEMMA Done ==
  ASSUME ChunkedInv, done
  PROVE  Over /\ pos > EndOfBody
BY DEF ChunkedInv, InLength, InChunk, Over

LEMMA InvOutput == ChunkedInv => OutputRight
<1> SUFFICES ASSUME ChunkedInv PROVE OutputRight
  OBVIOUS
<1>1. /\ TypeOK /\ message \in Messages /\ dechunk \in BOOLEAN
      /\ Body \in Seq(Chars) /\ Len(Body) \in Nat
      /\ \A i \in 0 .. Len(message) : BodyAt(i) \in 0 .. Len(Body)
  BY Wire, ChunkedAssumption DEF ChunkedInv, TypeOK
<1>2. \E n \in 0 .. Len(Body) : Given(n)
  <2>1. CASE Over
    BY <1>1, <2>1 DEF Over
  <2>2. ASSUME NEW k \in 0 .. Len(message), InLength(k) PROVE \E n \in 0 .. Len(Body) : Given(n)
    BY <1>1, <2>2 DEF InLength
  <2>3. ASSUME NEW k \in 0 .. Len(message), InChunk(k) PROVE \E n \in 0 .. Len(Body) : Given(n)
    <3>1. /\ k < Len(message) /\ total = Len(message[k + 1].data)
          /\ \/ Given(BodyAt(k))
             \/ len \in 0 .. total /\ Given(BodyAt(k) + len)
             \/ Given(BodyAt(k + 1))
      BY <2>3 DEF InChunk
    <3>2. k + 1 \in 0 .. Len(message)
      BY <1>1, <3>1, Server
    <3>3. BodyAt(k + 1) = BodyAt(k) + total /\ total \in Nat
      BY <1>1, <3>1, Framing DEF Framed, TypeOK
    <3>4. BodyAt(k) \in 0 .. Len(Body) /\ BodyAt(k + 1) \in 0 .. Len(Body)
      BY <1>1, <3>2
    <3>5. len \in 0 .. total => BodyAt(k) + len \in 0 .. Len(Body)
      BY <1>1, <3>3, <3>4
    <3> QED
      BY <3>1, <3>4, <3>5
  <2> QED
    BY <2>1, <2>2, <2>3 DEF ChunkedInv
<1>3. CASE ~dechunk
  BY <1>2, <1>3 DEF Given, OutputRight
<1>4. CASE dechunk
  <2>1. PICK n \in 0 .. Len(Body) : Given(n)
    BY <1>2
  <2>2. out = SubSeq(Body, 1, n)
    BY <1>4, <2>1 DEF Given
  <2>3. \A i \in 1 .. n : Body[i] \in Chars
    BY <1>1
  <2>4. n \in Nat /\ n <= Len(Body) /\ 1 \in Int
    BY <1>1
  <2>5. Len(out) = n
    BY <2>2, <2>3, <2>4, SubSeqProperties
  <2>6. out \in Seq(Chars)
    BY <2>2, <2>3, <2>4, SubSeqProperties
  <2>7. SubSeq(out, 1, Len(out)) = out
    BY <2>6, SubSeqFull
  <2>8. IsPrefix(out, Body)
    BY <2>2, <2>4, <2>5, <2>7 DEF IsPrefix
  <2>9. verdict = "COMPLETE" => out = Body
    <3> SUFFICES ASSUME verdict = "COMPLETE" PROVE out = Body
      OBVIOUS
    <3>1. Given(Len(Body))
      BY Done DEF ChunkedInv, Over
    <3>2. out = SubSeq(Body, 1, Len(Body))
      BY <3>1, <1>4 DEF Given
    <3> QED
      BY <3>2, <1>1, SubSeqFull
  <2> QED
    BY <1>4, <2>8, <2>9 DEF OutputRight
<1> QED
  BY <1>1, <1>3, <1>4

LEMMA InvVerdict == ChunkedInv => VerdictRight
<1> SUFFICES ASSUME ChunkedInv PROVE VerdictRight
  OBVIOUS
<1>1. pos \in Nat /\ EndOfBody \in Nat
  <2>1. message \in Messages /\ TypeOK
    BY DEF ChunkedInv, TypeOK
  <2>2. Len(Chunks) \in Nat
    BY <2>1, Wire
  <2> QED
    BY <2>1, <2>2, Blocks DEF EndOfBody
<1>2. done <=> pos > EndOfBody
  BY <1>1, NotOver, Done DEF ChunkedInv, TypeOK
<1>3. verdict = "ERROR" => pos <= EndOfBody
  BY <1>1, <1>2 DEF ChunkedInv
<1> QED
  BY <1>2, <1>3 DEF ChunkedInv, VerdictRight

-----------------------------------------------------------------------------
(* The inductive invariant of the chunked decoder: where in the framing of *)
(* which chunk it is, and what it has passed on until there.               *)
THEOREM Inductive == Spec => []ChunkedInv
BY InitInv, NextInv, PTL DEF Spec

(* The types: the digits of a length never exceed frag_buf, and a chunk is *)
(* never read beyond its length.                                           *)
THEOREM TypeCorrect == Spec => []TypeOK
<1>1. ChunkedInv => TypeOK
  BY DEF ChunkedInv
<1> QED
  BY <1>1, Inductive, PTL

(* The client is given what the server meant, however the stream is cut.   *)
THEOREM RightOutput == Spec => []OutputRight
BY InvOutput, Inductive, PTL

(* The verdict depends on how far the stream came, not on the cuts.        *)
THEOREM RightVerdict == Spec => []VerdictRight
BY InvVerdict, Inductive, PTL
=============================================================================
