-------------------------- MODULE SharedDict_proofs --------------------------
(***************************************************************************)
(* Theorems about SharedDict, for every number of VMs, keys, addresses and *)
(* every quota.                                                            *)
(***************************************************************************)
EXTENDS SharedDict, FiniteSetTheorems, TLAPS

USE SharedDictAssumption DEF SharedDictAssumption

LEMMA InitType == Init => TypeOK
  BY DEF Init, TypeOK, Pcs

LEMMA NextType == TypeOK /\ LockHeld /\ [Next]_vars => TypeOK'
<1> SUFFICES ASSUME TypeOK, LockHeld, [Next]_vars PROVE TypeOK'
  OBVIOUS
<1> USE DEF TypeOK, LockHeld, Pcs, Goto
<1>1. CASE UNCHANGED vars
  BY <1>1 DEF vars
<1>2. CASE StartServing
  BY <1>2 DEF StartServing
<1>3. ASSUME NEW t \in Threads, Call(t) PROVE TypeOK'
  <2>1. CASE \E k \in Keys, a \in Addrs, s \in Sizes : SetCheck(t, k, a, s)
    BY <2>1 DEF SetCheck
  <2>2. CASE \E k \in Keys : DelCall(t, k)
    BY <2>2 DEF DelCall
  <2>3. CASE \E k \in Keys : ReadCall(t, k)
    BY <2>3 DEF ReadCall
  <2> QED
    BY <1>3, <2>1, <2>2, <2>3 DEF Call
<1>4. ASSUME NEW t \in Threads, Work(t) PROVE TypeOK'
  <2>1. CASE SetLock(t) \/ DelLock(t)
    BY <2>1 DEF SetLock, DelLock, TakeLock
  <2>2. CASE SetStore(t)
    BY <2>2 DEF SetStore, Bytes
  <2>3. CASE DelRemove(t)
    BY <2>3 DEF DelRemove, Bytes
  <2>4. CASE Unlock(t) \/ Free(t)
    BY <2>4 DEF Unlock, Free
  <2>5. CASE GetLock(t) \/ ListLock(t)
    BY <2>5 DEF GetLock, ListLock, ReadLock
  <2>6. CASE GetFind(t) \/ ReadReturn(t)
    BY <2>6 DEF GetFind, ReadReturn
  <2> QED
    BY <1>4, <2>1, <2>2, <2>3, <2>4, <2>5, <2>6 DEF Work
<1> QED
  BY <1>1, <1>2, <1>3, <1>4 DEF Next

-----------------------------------------------------------------------------
(* The mutex.                                                              *)
LEMMA InitLock == Init => LockHeld
  BY DEF Init, LockHeld, Locked, Writing, Reading

LEMMA NextLock == TypeOK /\ LockHeld /\ [Next]_vars => LockHeld'
<1> SUFFICES ASSUME TypeOK, LockHeld, [Next]_vars PROVE LockHeld'
  OBVIOUS
<1> USE DEF TypeOK, LockHeld, Locked, Writing, Reading, Goto
<1>1. CASE UNCHANGED vars
  BY <1>1 DEF vars
<1>2. CASE StartServing
  BY <1>2 DEF StartServing
<1>3. ASSUME NEW t \in Threads, Call(t) PROVE LockHeld'
  <2>1. CASE \E k \in Keys, a \in Addrs, s \in Sizes : SetCheck(t, k, a, s)
    BY <2>1 DEF SetCheck
  <2>2. CASE \E k \in Keys : DelCall(t, k)
    BY <2>2 DEF DelCall
  <2>3. CASE \E k \in Keys : ReadCall(t, k)
    BY <2>3 DEF ReadCall
  <2> QED
    BY <1>3, <2>1, <2>2, <2>3 DEF Call
<1>4. ASSUME NEW t \in Threads, Work(t) PROVE LockHeld'
  <2>1. CASE SetLock(t) \/ DelLock(t)
    BY <2>1 DEF SetLock, DelLock, TakeLock
  <2>2. CASE SetStore(t)
    BY <2>2 DEF SetStore
  <2>3. CASE DelRemove(t)
    BY <2>3 DEF DelRemove
  <2>4. CASE Unlock(t) \/ Free(t)
    BY <2>4 DEF Unlock, Free
  <2>5. CASE GetLock(t) \/ ListLock(t)
    BY <2>5 DEF GetLock, ListLock, ReadLock
  <2>6. CASE GetFind(t) \/ ReadReturn(t)
    BY <2>6 DEF GetFind, ReadReturn
  <2> QED
    BY <1>4, <2>1, <2>2, <2>3, <2>4, <2>5, <2>6 DEF Work
<1> QED
  BY <1>1, <1>2, <1>3, <1>4 DEF Next

(* TypeOK is an invariant.                                                 *)
THEOREM TypeCorrect == Spec => []TypeOK
  BY InitType, NextType, InitLock, NextLock, PTL DEF Spec

(* Who writes a STATIC dictionary.                                         *)
LEMMA InitEarly == Init => WrittenEarly
  BY DEF Init, WrittenEarly

LEMMA NextEarly == TypeOK /\ WrittenEarly /\ [Next]_vars => WrittenEarly'
<1> SUFFICES ASSUME TypeOK, WrittenEarly, [Next]_vars, LoadOnly, static' PROVE WrittenEarly'
  BY DEF WrittenEarly
<1> USE DEF TypeOK, WrittenEarly, Reading, Goto
<1>1. CASE UNCHANGED vars
  BY <1>1 DEF vars
<1>2. CASE StartServing
  BY <1>2 DEF StartServing
<1>3. ASSUME NEW t \in Threads, Call(t) PROVE WrittenEarly'
  <2>1. CASE \E k \in Keys, a \in Addrs, s \in Sizes : SetCheck(t, k, a, s)
    BY <2>1 DEF SetCheck, MayWrite, MayRead
  <2>2. CASE \E k \in Keys : DelCall(t, k)
    BY <2>2 DEF DelCall, MayWrite, MayRead
  <2>3. CASE \E k \in Keys : ReadCall(t, k)
    BY <2>3 DEF ReadCall, MayRead
  <2> QED
    BY <1>3, <2>1, <2>2, <2>3 DEF Call
<1>4. ASSUME NEW t \in Threads, Work(t) PROVE WrittenEarly'
  <2>1. CASE SetLock(t) \/ DelLock(t)
    BY <2>1 DEF SetLock, DelLock, TakeLock
  <2>2. CASE SetStore(t) \/ DelRemove(t)
    BY <2>2 DEF SetStore, DelRemove
  <2>3. CASE Unlock(t) \/ Free(t)
    BY <2>3 DEF Unlock, Free
  <2>4. CASE GetLock(t) \/ ListLock(t)
    BY <2>4 DEF GetLock, ListLock, ReadLock
  <2>5. CASE GetFind(t) \/ ReadReturn(t)
    BY <2>5 DEF GetFind, ReadReturn
  <2> QED
    BY <1>4, <2>1, <2>2, <2>3, <2>4, <2>5 DEF Work
<1> QED
  BY <1>1, <1>2, <1>3, <1>4 DEF Next

LEMMA Guarded ==
  ASSUME LoadOnly PROVE TypeOK /\ LockHeld /\ WrittenEarly => TableStable
  BY DEF TypeOK, LockHeld, WrittenEarly, TableStable, Locked, Writing, Reading

(* No dictionary is walked while it changes: the mutex keeps writers away  *)
(* from one that is not STATIC, the scripts' discipline from one that is.  *)
THEOREM TableNeverTorn == ASSUME LoadOnly PROVE Spec => []TableStable
<1>1. TypeOK /\ LockHeld /\ WrittenEarly => TableStable
  BY Guarded
<1> QED
  BY InitType, NextType, InitLock, NextLock, InitEarly, NextEarly, <1>1, PTL DEF Spec

-----------------------------------------------------------------------------
(* The quota.  A thread that has passed the check counts for one item of   *)
(* the largest size until it has stored its item.                          *)
LEMMA SizesFit == MaxItem \in Nat /\ \A s \in Sizes : Overhead + s <= MaxItem
  BY DEF MaxItem

LEMMA OwedType == /\ IsFiniteSet(Checked)
                  /\ Cardinality(Checked) \in Nat
                  /\ Slack \in Nat
                  /\ Owed \in Nat
                  /\ Owed <= Slack
<1>1. Checked \subseteq Threads
  BY DEF Checked
<1>2. /\ IsFiniteSet(Checked) /\ Cardinality(Checked) \in Nat
      /\ Cardinality(Threads) \in Nat /\ Cardinality(Checked) <= Cardinality(Threads)
  BY <1>1, FS_Subset, FS_CardinalityType
<1> QED
  BY <1>2, SizesFit DEF Owed, Slack

LEMMA InitQuota == Init => QuotaInv
<1> SUFFICES ASSUME Init PROVE QuotaInv
  OBVIOUS
<1>1. Owed <= Slack /\ Owed \in Nat /\ Slack \in Nat
  BY OwedType
<1> QED
  BY <1>1 DEF Init, QuotaInv

(* A step that neither adds bytes nor passes the check keeps the bound.    *)
LEMMA QuotaKept ==
  ASSUME TypeOK, QuotaInv, TypeOK', used' <= used, Checked' = Checked,
         \A a \in Addrs : size'[a] <= MaxSize
  PROVE  QuotaInv'
<1>1. Owed \in Nat /\ Slack \in Nat
  BY OwedType
<1>2. Owed' = Owed /\ Slack' = Slack
  BY DEF Owed, Slack, MaxItem
<1>3. PICK v \in Int : v = used'
  BY DEF TypeOK
<1>4. used \in Int /\ v <= used
  BY <1>3 DEF TypeOK
<1>5. Quota # 0 => v + Owed <= Quota + Slack
  BY <1>1, <1>4 DEF QuotaInv
<1> QED
  BY <1>2, <1>3, <1>5 DEF QuotaInv

LEMMA NextQuota ==
  TypeOK /\ LockHeld /\ QuotaInv /\ TypeOK' /\ [Next]_vars => QuotaInv'
<1> SUFFICES ASSUME TypeOK, LockHeld, QuotaInv, TypeOK', [Next]_vars PROVE QuotaInv'
  OBVIOUS
<1>n. Owed \in Nat /\ Slack \in Nat /\ used \in Int
  BY OwedType DEF TypeOK
<1>p. Slack' = Slack /\ used' \in Int
  BY DEF Slack, MaxItem, TypeOK
<1>s. \A a \in Addrs : size[a] \in Nat /\ size[a] <= MaxSize
  BY DEF TypeOK, QuotaInv
<1>1. CASE UNCHANGED vars
  BY <1>1, <1>s, QuotaKept DEF vars, Checked, TypeOK
<1>2. CASE StartServing
  BY <1>2, <1>s, QuotaKept DEF StartServing, Checked, TypeOK
<1>3. ASSUME NEW t \in Threads, Call(t) PROVE QuotaInv'
  <2>1. ASSUME NEW k \in Keys, NEW a \in Addrs, NEW s \in Sizes, SetCheck(t, k, a, s)
        PROVE  QuotaInv'
    <3>1. Owed' \in Nat /\ Owed' <= Slack
      <4>1. Checked' \subseteq Threads
        BY DEF Checked
      <4>2. /\ Cardinality(Checked') \in Nat /\ Cardinality(Threads) \in Nat
            /\ Cardinality(Checked') <= Cardinality(Threads)
        BY <4>1, FS_Subset, FS_CardinalityType
      <4>3. Owed' = Cardinality(Checked') * MaxItem
        BY DEF Owed, MaxItem
      <4> QED
        BY <4>2, <4>3, SizesFit DEF Slack
    <3>2. \A b \in Addrs : size'[b] <= MaxSize
      BY <2>1, <1>s DEF SetCheck, TypeOK
    <3>3. Quota # 0 => used' <= Quota
      BY <2>1 DEF SetCheck, HasRoom
    <3>4. PICK v \in Int, o \in Int : v = used' /\ o = Owed'
      BY <3>1, <1>p
    <3>5. o <= Slack /\ (Quota # 0 => v <= Quota)
      BY <3>1, <3>3, <3>4
    <3>6. Quota # 0 => v + o <= Quota + Slack
      BY <3>5, <1>n
    <3> QED
      BY <3>2, <3>4, <3>6, <1>p DEF QuotaInv
  <2>2. ASSUME NEW k \in Keys, DelCall(t, k) \/ ReadCall(t, k) PROVE QuotaInv'
    <3>1. Checked' = Checked
      BY <2>2 DEF DelCall, ReadCall, Checked, TypeOK, Goto
    <3> QED
      BY <2>2, <3>1, <1>s, QuotaKept DEF DelCall, ReadCall, TypeOK
  <2> QED
    BY <1>3, <2>1, <2>2 DEF Call
<1>4. ASSUME NEW t \in Threads, Work(t) PROVE QuotaInv'
  <2>1. CASE SetStore(t)
    <3>1. Checked' = Checked \ {t} /\ t \in Checked
      BY <2>1 DEF SetStore, Checked, TypeOK, Goto
    <3>2. /\ Cardinality(Checked') = Cardinality(Checked) - 1
          /\ Cardinality(Checked) \in Nat
      BY <3>1, OwedType, FS_RemoveElement
    <3>3. Owed' = Owed - MaxItem
      <4>1. Owed' = Cardinality(Checked') * MaxItem
        BY DEF Owed, MaxItem
      <4> QED
        BY <4>1, <3>2, SizesFit DEF Owed
    <3>4. used' <= used + MaxItem
      <4>1. item[t] \in Addrs /\ map[key[t]] \in Addrs \cup {NoItem}
        BY <2>1 DEF LockHeld, SetStore, TypeOK
      <4> QED
        BY <2>1, <4>1, <1>s DEF SetStore, Bytes, MaxItem, TypeOK
    <3>5. \A a \in Addrs : size'[a] <= MaxSize
      BY <2>1, <1>s DEF SetStore
    <3>6. PICK v \in Int, o \in Int : v = used' /\ o = Owed'
      BY <3>3, <1>n, <1>p, SizesFit
    <3>7. o = Owed - MaxItem /\ v <= used + MaxItem
      BY <3>3, <3>4, <3>6
    <3>8. Quota # 0 => v + o <= Quota + Slack
      BY <3>7, <1>n, SizesFit DEF QuotaInv
    <3> QED
      BY <3>5, <3>6, <3>8, <1>p DEF QuotaInv
  <2>2. CASE DelRemove(t)
    <3>1. Checked' = Checked
      BY <2>2 DEF DelRemove, Checked, TypeOK, Goto
    <3>2. map[key[t]] \in Addrs \cup {NoItem}
      BY DEF TypeOK
    <3>3. used' <= used
      BY <2>2, <3>2, <1>s DEF DelRemove, Bytes, TypeOK
    <3> QED
      BY <2>2, <3>1, <3>3, <1>s, QuotaKept DEF DelRemove, TypeOK
  <2>3. CASE SetLock(t) \/ DelLock(t)
    <3>1. Checked' = Checked
      BY <2>3 DEF SetLock, DelLock, TakeLock, Checked, TypeOK, Goto
    <3> QED
      BY <2>3, <3>1, <1>s, QuotaKept DEF SetLock, DelLock, TakeLock, TypeOK
  <2>4. CASE Unlock(t) \/ Free(t)
    <3>1. Checked' = Checked
      BY <2>4 DEF Unlock, Free, Checked, TypeOK, Goto
    <3> QED
      BY <2>4, <3>1, <1>s, QuotaKept DEF Unlock, Free, TypeOK
  <2>5. CASE GetLock(t) \/ ListLock(t)
    <3>1. Checked' = Checked
      BY <2>5 DEF GetLock, ListLock, ReadLock, Checked, TypeOK, Goto
    <3> QED
      BY <2>5, <3>1, <1>s, QuotaKept DEF GetLock, ListLock, ReadLock, TypeOK
  <2>6. CASE GetFind(t) \/ ReadReturn(t)
    <3>1. Checked' = Checked
      BY <2>6 DEF GetFind, ReadReturn, Checked, TypeOK, Goto
    <3> QED
      BY <2>6, <3>1, <1>s, QuotaKept DEF GetFind, ReadReturn, TypeOK
  <2> QED
    BY <1>4, <2>1, <2>2, <2>3, <2>4, <2>5, <2>6 DEF Work
<1> QED
  BY <1>1, <1>2, <1>3, <1>4 DEF Next

(* However the threads race between the check and the store, a dictionary  *)
(* exceeds its quota by at most one item of the largest size for each VM.  *)
THEOREM QuotaBound == Spec => []QuotaOvershoot
<1>1. TypeOK /\ QuotaInv => QuotaOvershoot
  <2> SUFFICES ASSUME TypeOK, QuotaInv PROVE QuotaOvershoot
    OBVIOUS
  <2>1. Owed \in Nat /\ Slack \in Nat /\ used \in Int
    BY OwedType DEF TypeOK
  <2> QED
    BY <2>1 DEF QuotaInv, QuotaOvershoot
<1> QED
  BY InitType, NextType, InitLock, NextLock, InitQuota, NextQuota, <1>1, PTL DEF Spec

-----------------------------------------------------------------------------
(* The items.                                                              *)
LEMMA InitItems == Init => ItemsOwned
  BY DEF Init, ItemsOwned, Tabled, Carried, Carries

(* A step that changes neither the table nor what anyone carries.          *)
LEMMA ItemsKept ==
  ASSUME ItemsOwned, live' = live, map' = map,
         \A u \in Threads : Carries(u)' = Carries(u) /\ (Carries(u) => item'[u] = item[u])
  PROVE  ItemsOwned'
<1>1. \A a \in Addrs : Tabled(a)' = Tabled(a) /\ Carried(a)' = Carried(a)
  BY DEF Tabled, Carried
<1> QED
  BY <1>1 DEF ItemsOwned

LEMMA NextItems == TypeOK /\ LockHeld /\ ItemsOwned /\ [Next]_vars => ItemsOwned'
<1> SUFFICES ASSUME TypeOK, LockHeld, ItemsOwned, [Next]_vars PROVE ItemsOwned'
  OBVIOUS
<1> USE DEF TypeOK, Pcs, Goto
<1>1. CASE UNCHANGED vars
  BY <1>1, ItemsKept DEF vars, Carries
<1>2. CASE StartServing
  BY <1>2, ItemsKept DEF StartServing, Carries
<1>3. ASSUME NEW t \in Threads, Call(t) PROVE ItemsOwned'
  <2>1. ASSUME NEW k \in Keys, NEW a \in Addrs, NEW s \in Sizes, SetCheck(t, k, a, s)
        PROVE  ItemsOwned'
    BY <2>1 DEF SetCheck, ItemsOwned, Tabled, Carried, Carries
  <2>2. ASSUME NEW k \in Keys, DelCall(t, k) \/ ReadCall(t, k) PROVE ItemsOwned'
    BY <2>2, ItemsKept DEF DelCall, ReadCall, Carries
  <2> QED
    BY <1>3, <2>1, <2>2 DEF Call
<1>4. ASSUME NEW t \in Threads, Work(t) PROVE ItemsOwned'
  <2>1. CASE SetLock(t) \/ DelLock(t)
    BY <2>1, ItemsKept DEF SetLock, DelLock, TakeLock, Carries
  <2>2. CASE SetStore(t)
    BY <2>2 DEF SetStore, LockHeld, ItemsOwned, Tabled, Carried, Carries
  <2>3. CASE DelRemove(t)
    BY <2>3 DEF DelRemove, LockHeld, ItemsOwned, Tabled, Carried, Carries
  <2>4. CASE Unlock(t)
    BY <2>4, ItemsKept DEF Unlock, Carries
  <2>5. CASE Free(t)
    BY <2>5 DEF Free, LockHeld, ItemsOwned, Tabled, Carried, Carries
  <2>6. CASE GetLock(t) \/ ListLock(t)
    BY <2>6, ItemsKept DEF GetLock, ListLock, ReadLock, Carries
  <2>7. CASE GetFind(t) \/ ReadReturn(t)
    BY <2>7, ItemsKept DEF GetFind, ReadReturn, Carries
  <2> QED
    BY <1>4, <2>1, <2>2, <2>3, <2>4, <2>5, <2>6, <2>7 DEF Work
<1> QED
  BY <1>1, <1>2, <1>3, <1>4 DEF Next

(* No item leaks, is freed twice or is stored after it was freed.          *)
THEOREM EveryItemOwned == Spec => []ItemsOwned
  BY InitType, NextType, InitLock, NextLock, InitItems, NextItems, PTL DEF Spec

-----------------------------------------------------------------------------
(* Sums over finite sets.  First induction: a set of naturals that holds 0 *)
(* and each successor is all of them; a set that holds a finite set x when *)
(* it holds x without any one of its elements holds every finite set.      *)
LEMMA EveryNat ==
  ASSUME NEW T \in SUBSET Nat, 0 \in T, \A n \in T : n + 1 \in T
  PROVE  T = Nat
<1> SUFFICES ASSUME Nat \ T # {} PROVE FALSE
  OBVIOUS
<1>1. PICK n \in Nat \ T : \A m \in Nat \ T : ~ (<<m, n>> \in OpToRel(<, Nat))
  BY NatLessThanWellFounded, WFMin
<1>2. \A m \in Nat \ T : ~ (m < n)
  BY <1>1 DEF OpToRel
<1>3. n - 1 \in T
  BY <1>2
<1> QED
  BY <1>3

LEMMA EverySubset ==
  ASSUME NEW D, IsFiniteSet(D), NEW T, {} \in T,
         \A x \in SUBSET D : x # {} /\ (\A e \in x : x \ {e} \in T) => x \in T
  PROVE  SUBSET D \subseteq T
<1> DEFINE B == {n \in Nat : \A x \in SUBSET D : Cardinality(x) = n => x \in T}
<1>1. 0 \in B
  BY FS_Subset, FS_EmptySet
<1>2. ASSUME NEW n \in B PROVE n + 1 \in B
  <2> SUFFICES ASSUME NEW x \in SUBSET D, Cardinality(x) = n + 1 PROVE x \in T
    OBVIOUS
  <2>1. IsFiniteSet(x) /\ x # {}
    BY FS_Subset, FS_EmptySet
  <2>2. ASSUME NEW e \in x PROVE x \ {e} \in T
    <3>1. Cardinality(x \ {e}) = Cardinality(x) - 1
      BY <2>1, FS_RemoveElement
    <3>2. Cardinality(x \ {e}) = n
      BY <3>1
    <3> QED
      BY <3>2
  <2> QED
    BY <2>1, <2>2
<1>3. B = Nat
  <2>1. B \subseteq Nat
    OBVIOUS
  <2> HIDE DEF B
  <2> QED
    BY <1>1, <1>2, <2>1, EveryNat
<1> SUFFICES ASSUME NEW x \in SUBSET D PROVE x \in T
  OBVIOUS
<1>4. Cardinality(x) \in Nat
  BY FS_Subset, FS_CardinalityType
<1> QED
  BY <1>3, <1>4

-----------------------------------------------------------------------------
(* The definition of SumFunction by recursion describes a function: what   *)
(* the sum is for a part of the domain.                                    *)
Some(x) == CHOOSE e \in x : TRUE

Adds(g, w, D) ==
  g = [x \in SUBSET D |-> IF x = {} THEN 0 ELSE w[Some(x)] + g[x \ {Some(x)}]]

LEMMA SumsExist ==
  ASSUME NEW D, IsFiniteSet(D), NEW w \in [D -> Int]
  PROVE  \E g : Adds(g, w, D)
<1> DEFINE Upto(n) == {x \in SUBSET D : Cardinality(x) <= n}
           Rhs(g, x) == IF x = {} THEN 0 ELSE w[Some(x)] + g[x \ {Some(x)}]
           Solves(g, n) == g = [x \in Upto(n) |-> Rhs(g, x)]
           B == {n \in Nat : \E g : Solves(g, n)}
<1>1. 0 \in B
  <2>1. Upto(0) = {{}}
    BY FS_Subset, FS_EmptySet, FS_CardinalityType
  <2> DEFINE g == [x \in Upto(0) |-> 0]
  <2>2. \A x \in Upto(0) : Rhs(g, x) = 0
    BY <2>1
  <2>3. Solves(g, 0)
    <3> HIDE DEF Rhs
    <3>1. g = [x \in Upto(0) |-> 0]
      OBVIOUS
    <3> HIDE DEF g, Upto
    <3> QED
      BY <2>2, <3>1
  <2> HIDE DEF g, Solves
  <2> QED
    BY <2>3
<1>2. ASSUME NEW n \in B PROVE n + 1 \in B
  <2>1. PICK g : Solves(g, n)
    OBVIOUS
  <2> DEFINE h == [x \in Upto(n + 1) |-> Rhs(g, x)]
  <2>2. ASSUME NEW x \in Upto(n + 1), x # {}
        PROVE  x \ {Some(x)} \in Upto(n) /\ x \ {Some(x)} \in Upto(n + 1)
    <3>1. IsFiniteSet(x) /\ Some(x) \in x /\ Cardinality(x) <= n + 1
      BY <2>2, FS_Subset DEF Some
    <3>2. Cardinality(x \ {Some(x)}) = Cardinality(x) - 1 /\ Cardinality(x) \in Nat
      BY <3>1, FS_RemoveElement, FS_CardinalityType
    <3> QED
      BY <3>1, <3>2
  <2>3. ASSUME NEW x \in Upto(n), x \in Upto(n + 1) PROVE h[x] = g[x]
    <3> HIDE DEF Rhs
    <3>1. h[x] = Rhs(g, x)
      BY <2>3
    <3>2. g[x] = Rhs(g, x)
      BY <2>1
    <3> QED
      BY <3>1, <3>2
  <2>4. ASSUME NEW x \in Upto(n + 1) PROVE Rhs(h, x) = Rhs(g, x)
    <3>1. CASE x = {}
      BY <3>1
    <3>2. CASE x # {}
      <4>1. h[x \ {Some(x)}] = g[x \ {Some(x)}]
        <5> HIDE DEF Upto, h
        <5> QED
          BY <3>2, <2>2, <2>3
      <4> HIDE DEF h
      <4> QED
        BY <3>2, <4>1
    <3> QED
      BY <3>1, <3>2
  <2>5. Solves(h, n + 1)
    <3> HIDE DEF Rhs, Upto
    <3>1. h = [x \in Upto(n + 1) |-> Rhs(g, x)]
      OBVIOUS
    <3> HIDE DEF h
    <3> QED
      BY <2>4, <3>1
  <2> HIDE DEF h, Solves
  <2> QED
    BY <2>5
<1>3. B = Nat
  <2>1. B \subseteq Nat
    OBVIOUS
  <2> HIDE DEF B
  <2> QED
    BY <1>1, <1>2, <2>1, EveryNat
<1>4. Cardinality(D) \in Nat /\ Upto(Cardinality(D)) = SUBSET D
  BY FS_CardinalityType, FS_Subset
<1>5. PICK g : Solves(g, Cardinality(D))
  <2> HIDE DEF Solves
  <2> QED
    BY <1>3, <1>4
<1>6. g = [x \in SUBSET D |-> Rhs(g, x)]
  <2> HIDE DEF Rhs
  <2> QED
    BY <1>4, <1>5
<1> QED
  BY <1>6 DEF Adds


IsSum(g, w, D) ==
  /\ g \in [SUBSET D -> Int]
  /\ SumFunction(w) = g[D]
  /\ g[{}] = 0
  /\ \A x \in SUBSET D : x # {} => g[x] = w[Some(x)] + g[x \ {Some(x)}]

LEMMA Sums ==
  ASSUME NEW D, IsFiniteSet(D), NEW w \in [D -> Int]
  PROVE  \E g : IsSum(g, w, D)
<1> DEFINE g == CHOOSE f : Adds(f, w, D)
<1>1. SumFunction(w) = g[D]
  BY DEF SumFunction, SumFunctionOnSet, FoldFunctionOnSet, MapThenFoldSet, Some, Adds
<1>2. Adds(g, w, D)
  BY SumsExist
<1> HIDE DEF g
<1>3. g[{}] = 0 /\ \A x \in SUBSET D : x # {} => g[x] = w[Some(x)] + g[x \ {Some(x)}]
  BY <1>2 DEF Adds
<1> DEFINE T == {x \in SUBSET D : g[x] \in Int}
<1>4. {} \in T
  BY <1>3
<1>5. ASSUME NEW x \in SUBSET D, x # {}, \A e \in x : x \ {e} \in T PROVE x \in T
  <2>1. PICK e \in x : e = Some(x)
    BY <1>5 DEF Some
  <2>2. g[x] = w[e] + g[x \ {e}]
    BY <1>3, <1>5, <2>1
  <2>3. w[e] \in Int /\ g[x \ {e}] \in Int
    BY <1>5
  <2>4. g[x] \in Int
    BY <2>2, <2>3
  <2> QED
    BY <2>4
<1>6. SUBSET D \subseteq T
  <2> HIDE DEF T
  <2> QED
    BY <1>4, <1>5, EverySubset
<1>7. g \in [SUBSET D -> Int]
  BY <1>2, <1>6 DEF Adds
<1> QED
  BY <1>1, <1>3, <1>7 DEF IsSum

(* Of a function that is zero, and of one that is changed in one place.    *)
LEMMA SumZero ==
  ASSUME NEW D, IsFiniteSet(D)
  PROVE  SumFunction([d \in D |-> 0]) = 0
<1> DEFINE w == [d \in D |-> 0]
<1>1. PICK g : IsSum(g, w, D)
  <2>1. w \in [D -> Int]
    OBVIOUS
  <2> HIDE DEF w
  <2> QED
    BY <2>1, Sums
<1> DEFINE T == {x \in SUBSET D : g[x] = 0}
<1>2. {} \in T
  BY <1>1 DEF IsSum
<1>3. ASSUME NEW x \in SUBSET D, x # {}, \A e \in x : x \ {e} \in T PROVE x \in T
  <2>1. PICK e \in x : e = Some(x)
    BY <1>3 DEF Some
  <2>2. g[x] = w[e] + g[x \ {e}]
    BY <1>1, <1>3, <2>1 DEF IsSum
  <2>3. g[x \ {e}] = 0 /\ w[e] = 0
    BY <1>3
  <2> QED
    BY <2>2, <2>3
<1>4. SUBSET D \subseteq T
  <2> HIDE DEF T
  <2> QED
    BY <1>2, <1>3, EverySubset
<1>5. g[D] = 0
  BY <1>4
<1> QED
  BY <1>1, <1>5 DEF IsSum

LEMMA SumExcept ==
  ASSUME NEW D, IsFiniteSet(D), NEW w \in [D -> Int], NEW d \in D, NEW v \in Int
  PROVE  SumFunction([w EXCEPT ![d] = v]) = SumFunction(w) + v - w[d]
<1> DEFINE u == [w EXCEPT ![d] = v]
<1>1. PICK g : IsSum(g, w, D)
  BY Sums
<1>2. PICK h : IsSum(h, u, D)
  <2>1. u \in [D -> Int]
    OBVIOUS
  <2> HIDE DEF u
  <2> QED
    BY <2>1, Sums
<1> DEFINE T == {x \in SUBSET D : h[x] = g[x] + (IF d \in x THEN v - w[d] ELSE 0)}
<1>3. {} \in T
  BY <1>1, <1>2 DEF IsSum
<1>4. ASSUME NEW x \in SUBSET D, x # {}, \A e \in x : x \ {e} \in T PROVE x \in T
  <2>1. PICK e \in x : e = Some(x)
    BY <1>4 DEF Some
  <2>2. g[x] = w[e] + g[x \ {e}] /\ g[x \ {e}] \in Int
    BY <1>1, <1>4, <2>1 DEF IsSum
  <2>3. h[x] = u[e] + h[x \ {e}]
    BY <1>2, <1>4, <2>1 DEF IsSum
  <2>4. /\ h[x \ {e}] = g[x \ {e}] + (IF d \in x \ {e} THEN v - w[d] ELSE 0)
        /\ w[e] \in Int /\ w[d] \in Int
    BY <1>4
  <2>5. CASE e = d
    BY <2>2, <2>3, <2>4, <2>5
  <2>6. CASE e # d
    <3>1. u[e] = w[e] /\ (d \in x \ {e} <=> d \in x)
      BY <2>6
    <3> HIDE DEF u
    <3> QED
      BY <2>2, <2>3, <2>4, <3>1
  <2> QED
    BY <2>5, <2>6
<1>5. SUBSET D \subseteq T
  <2> HIDE DEF T
  <2> QED
    BY <1>3, <1>4, EverySubset
<1>6. h[D] = g[D] + (v - w[d])
  BY <1>5
<1>7. g[D] \in Int /\ w[d] \in Int
  BY <1>1 DEF IsSum
<1> QED
  BY <1>1, <1>2, <1>6, <1>7 DEF IsSum

-----------------------------------------------------------------------------
(* The byte count.                                                         *)
LEMMA InitUsed == Init => UsedIsSum
<1> SUFFICES ASSUME Init PROVE UsedIsSum
  OBVIOUS
<1>1. Charged = [k \in Keys |-> 0]
  BY DEF Init, Charged
<1> QED
  BY <1>1, SumZero DEF Init, UsedIsSum

LEMMA ChargedType == TypeOK => Charged \in [Keys -> Int]
  BY DEF TypeOK, Charged, Bytes

LEMMA UsedKept == ASSUME UsedIsSum, used' = used, Charged' = Charged PROVE UsedIsSum'
  BY DEF UsedIsSum

(* A step that puts an item, or none, under one key.                       *)
LEMMA UsedMoves ==
  ASSUME TypeOK, UsedIsSum, NEW k \in Keys, NEW v \in Int,
         Charged' = [Charged EXCEPT ![k] = v], used' = used + v - Charged[k]
  PROVE  UsedIsSum'
<1>1. SumFunction([Charged EXCEPT ![k] = v]) = SumFunction(Charged) + v - Charged[k]
  BY ChargedType, SumExcept
<1>2. used = SumFunction(Charged)
  BY DEF UsedIsSum
<1>3. UsedIsSum' <=> used' = SumFunction(Charged')
  BY DEF UsedIsSum
<1> HIDE DEF SharedDictAssumption
<1> QED
  BY <1>1, <1>2, <1>3

LEMMA NextUsed ==
  TypeOK /\ LockHeld /\ ItemsOwned /\ UsedIsSum /\ [Next]_vars => UsedIsSum'
<1> SUFFICES ASSUME TypeOK, LockHeld, ItemsOwned, UsedIsSum, [Next]_vars PROVE UsedIsSum'
  OBVIOUS
<1>0. ASSUME UNCHANGED <<map, size, used>> PROVE UsedIsSum'
  BY <1>0, UsedKept DEF Charged, Bytes
<1>1. CASE UNCHANGED vars
  BY <1>0, <1>1 DEF vars
<1>2. CASE StartServing
  BY <1>0, <1>2 DEF StartServing
<1>3. ASSUME NEW t \in Threads, Call(t) PROVE UsedIsSum'
  <2>1. ASSUME NEW k \in Keys, NEW a \in Addrs, NEW s \in Sizes, SetCheck(t, k, a, s)
        PROVE  UsedIsSum'
    <3>1. /\ a \notin live /\ size' = [size EXCEPT ![a] = s]
          /\ map' = map /\ used' = used
      BY <2>1 DEF SetCheck
    <3>2. \A j \in Keys : map[j] # a
      BY <3>1 DEF ItemsOwned, Tabled
    <3>3. \A j \in Keys : map[j] # NoItem => Bytes(map[j])' = Bytes(map[j])
      BY <3>1, <3>2 DEF Bytes, TypeOK
    <3>4. Charged' = Charged
      BY <3>1, <3>3 DEF Charged
    <3> QED
      BY <3>1, <3>4, UsedKept
  <2>2. ASSUME NEW k \in Keys, DelCall(t, k) \/ ReadCall(t, k) PROVE UsedIsSum'
    BY <1>0, <2>2 DEF DelCall, ReadCall
  <2> QED
    BY <1>3, <2>1, <2>2 DEF Call
<1>4. ASSUME NEW t \in Threads, Work(t) PROVE UsedIsSum'
  <2> DEFINE k == key[t]
             old == map[k]
  <2>k. k \in Keys /\ old \in Addrs \cup {NoItem} /\ size \in [Addrs -> Nat] /\ used \in Int
    BY DEF TypeOK
  <2>1. CASE SetStore(t)
    <3>1. item[t] \in Addrs
      BY <2>1 DEF SetStore, LockHeld
    <3>2. Bytes(item[t]) \in Int
      BY <3>1, <2>k DEF Bytes
    <3>3. Charged' = [Charged EXCEPT ![k] = Bytes(item[t])]
      BY <2>1, <3>1 DEF SetStore, Charged, Bytes, TypeOK
    <3>4. used' = used + Bytes(item[t]) - Charged[k]
      BY <2>1, <2>k, <3>1 DEF SetStore, Charged, Bytes
    <3> QED
      BY <2>k, <3>2, <3>3, <3>4, UsedMoves
  <2>2. CASE DelRemove(t)
    <3>1. Charged' = [Charged EXCEPT ![k] = 0]
      BY <2>2 DEF DelRemove, Charged, Bytes, TypeOK
    <3>2. used' = used + 0 - Charged[k]
      BY <2>2, <2>k DEF DelRemove, Charged, Bytes
    <3>3. 0 \in Int
      OBVIOUS
    <3> QED
      BY <2>k, <3>1, <3>2, <3>3, UsedMoves
  <2>3. CASE SetLock(t) \/ DelLock(t)
    BY <1>0, <2>3 DEF SetLock, DelLock, TakeLock
  <2>4. CASE Unlock(t) \/ Free(t)
    BY <1>0, <2>4 DEF Unlock, Free
  <2>5. CASE GetLock(t) \/ ListLock(t)
    BY <1>0, <2>5 DEF GetLock, ListLock, ReadLock
  <2>6. CASE GetFind(t) \/ ReadReturn(t)
    BY <1>0, <2>6 DEF GetFind, ReadReturn
  <2> QED
    BY <1>4, <2>1, <2>2, <2>3, <2>4, <2>5, <2>6 DEF Work
<1> QED
  BY <1>1, <1>2, <1>3, <1>4 DEF Next

(* The byte count is what the stored items take, after every interleaving  *)
(* of sets, replacements and deletes: an item is charged when it is put in *)
(* the table and discharged, with the size it was charged for, when it is  *)
(* taken out, because no one gives its address to another item meanwhile.  *)
THEOREM UsedIsCounted == Spec => []UsedIsSum
  BY InitType, NextType, InitLock, NextLock, InitItems, NextItems, InitUsed, NextUsed,
     PTL DEF Spec

-----------------------------------------------------------------------------
(* Readers, while nobody writes.                                           *)
LEMMA InitReads == Init => ReadsStored
  BY DEF Init, ReadsStored

LEMMA NextReads ==
  TypeOK /\ LockHeld /\ ItemsOwned /\ TableStable /\ ReadsStored /\ [Next]_vars => ReadsStored'
<1> SUFFICES ASSUME TypeOK, LockHeld, ItemsOwned, TableStable, ReadsStored, [Next]_vars
             PROVE  ReadsStored'
  OBVIOUS
<1> USE DEF TypeOK, Pcs, Goto, ReadsStored
<1>1. CASE UNCHANGED vars
  BY <1>1 DEF vars
<1>2. CASE StartServing
  BY <1>2 DEF StartServing
<1>3. ASSUME NEW t \in Threads, Call(t) PROVE ReadsStored'
  <2>1. ASSUME NEW k \in Keys, NEW a \in Addrs, NEW s \in Sizes, SetCheck(t, k, a, s)
        PROVE  ReadsStored'
    BY <2>1 DEF SetCheck
  <2>2. ASSUME NEW k \in Keys, DelCall(t, k) \/ ReadCall(t, k) PROVE ReadsStored'
    BY <2>2 DEF DelCall, ReadCall
  <2> QED
    BY <1>3, <2>1, <2>2 DEF Call
<1>4. ASSUME NEW t \in Threads, Work(t) PROVE ReadsStored'
  <2> USE DEF LockHeld, TableStable, Reading, Writing
  <2>1. CASE SetLock(t) \/ DelLock(t)
    BY <2>1 DEF SetLock, DelLock, TakeLock
  <2>2. CASE SetStore(t)
    BY <2>2 DEF SetStore
  <2>3. CASE DelRemove(t)
    BY <2>3 DEF DelRemove
  <2>4. CASE Unlock(t)
    BY <2>4 DEF Unlock
  <2>5. CASE Free(t)
    <3>1. Carried(item[t]) /\ ~Tabled(item[t])
      BY <2>5 DEF Free, ItemsOwned, Carried, Carries
    <3> QED
      BY <2>5, <3>1 DEF Free, Tabled
  <2>6. CASE GetLock(t) \/ ListLock(t)
    BY <2>6 DEF GetLock, ListLock, ReadLock
  <2>7. CASE GetFind(t)
    <3>1. map[key[t]] # NoItem => map[key[t]] \in live
      BY DEF ItemsOwned, Tabled
    <3> QED
      BY <2>7, <3>1 DEF GetFind
  <2>8. CASE ReadReturn(t)
    BY <2>8 DEF ReadReturn
  <2> QED
    BY <1>4, <2>1, <2>2, <2>3, <2>4, <2>5, <2>6, <2>7, <2>8 DEF Work
<1> QED
  BY <1>1, <1>2, <1>3, <1>4 DEF Next

(* get() copies a value that is still stored under its key: never one that *)
(* another VM has replaced or freed in the meantime.                       *)
THEOREM NoReadAfterFree == ASSUME LoadOnly PROVE Spec => []ReadsStored
<1>1. TypeOK /\ LockHeld /\ WrittenEarly => TableStable
  BY Guarded
<1> QED
  BY InitType, NextType, InitLock, NextLock, InitEarly, NextEarly, InitItems, NextItems,
     InitReads, NextReads, <1>1, PTL DEF Spec
=============================================================================
