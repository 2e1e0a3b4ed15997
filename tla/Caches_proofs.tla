---------------------------- MODULE Caches_proofs ----------------------------
(***************************************************************************)
(* Theorems about the two caches: RegexCache, for any number of VMs, calls *)
(* and any capacity, and CacheFile, for every size of the object, every    *)
(* sequence of calls and every way in which the cache delivers it.         *)
(***************************************************************************)
EXTENDS RegexCache, CacheFile, FiniteSetTheorems, SequenceTheorems, TLAPS

-----------------------------------------------------------------------------
(* RegexCache.                                                             *)

LEMMA InitType == Init => TypeOK
<1>1. (CHOOSE r \in Requests : TRUE) \in Requests
  BY RegexCacheAssumption DEF RegexCacheAssumption
<1>2. Init => req \in [VMs -> Requests]
  BY <1>1 DEF Init
<1>3. Init => /\ table \in [Keys -> Regexes \cup {NullRe, NoEntry}]
              /\ re \in [VMs -> Regexes \cup {NullRe}]
              /\ pc \in [VMs -> Pcs] /\ made \in [VMs -> Nat]
  BY DEF Init, Pcs
<1> QED
  BY <1>2, <1>3 DEF Init, TypeOK

LEMMA NobodyApart == NoVM \notin VMs
  BY RegexCacheAssumption DEF RegexCacheAssumption

LEMMA NextType == TypeOK /\ [Next]_vars => TypeOK'
<1> SUFFICES ASSUME TypeOK, [Next]_vars PROVE TypeOK'
  OBVIOUS
<1> USE DEF TypeOK, Goto, Pcs, Keys, Key, Regexes
<1>0. CASE UNCHANGED vars
  BY <1>0 DEF vars
<1>1. CASE \E v \in VMs : Hit(v)
  BY <1>1 DEF Hit
<1>2. CASE \E v \in VMs : Miss(v)
  BY <1>2 DEF Miss
<1>3. CASE \E v \in VMs : CompileFails(v)
  BY <1>3 DEF CompileFails
<1>4. CASE \E v \in VMs : Compile(v)
  BY <1>4 DEF Compile
<1>5. CASE \E v \in VMs : TakeLock(v)
  BY <1>5 DEF TakeLock
<1>6. CASE \E v \in VMs : Insert(v)
  BY <1>6 DEF Insert
<1>7. CASE \E v \in VMs : Found(v)
  BY <1>7 DEF Found
<1>8. CASE \E v \in VMs : Fill(v)
  BY <1>8 DEF Fill
<1>9. CASE \E v \in VMs : Unlock(v)
  BY <1>9 DEF Unlock
<1>10. CASE \E v \in VMs : Exec(v)
  BY <1>10 DEF Exec, Frees
<1>11. CASE \E v \in VMs, r \in Requests : Call(v, r)
  BY <1>11 DEF Call
<1>12. CASE Delete
  BY <1>12 DEF Delete
<1> QED
  BY <1>0, <1>1, <1>2, <1>3, <1>4, <1>5, <1>6, <1>7, <1>8, <1>9, <1>10,
     <1>11, <1>12
  DEF Next, Match

(* TypeOK is an invariant. *)
THEOREM TypeCorrect == Spec => []TypeOK
  BY InitType, NextType, PTL DEF Spec
-----------------------------------------------------------------------------
(* The mutex is held by the VM that inserts, and the locals go with the    *)
(* program counter.                                                        *)
LEMMA InitHolder == Init => HolderInside
  BY NobodyApart DEF Init, HolderInside

LEMMA NextHolder == TypeOK /\ HolderInside /\ [Next]_vars => HolderInside'
<1> SUFFICES ASSUME TypeOK, HolderInside, [Next]_vars PROVE HolderInside'
  OBVIOUS
<1> USE DEF TypeOK, HolderInside, Goto
<1>0. CASE UNCHANGED vars
  BY <1>0 DEF vars
<1>1. CASE \E v \in VMs : Hit(v)
  BY <1>1 DEF Hit
<1>2. CASE \E v \in VMs : Miss(v)
  BY <1>2 DEF Miss
<1>3. CASE \E v \in VMs : CompileFails(v)
  BY <1>3 DEF CompileFails
<1>4. CASE \E v \in VMs : Compile(v)
  BY <1>4 DEF Compile
<1>5. CASE \E v \in VMs : TakeLock(v)
  BY <1>5, NobodyApart DEF TakeLock
<1>6. CASE \E v \in VMs : Insert(v)
  BY <1>6 DEF Insert
<1>7. CASE \E v \in VMs : Found(v)
  BY <1>7 DEF Found
<1>8. CASE \E v \in VMs : Fill(v)
  BY <1>8 DEF Fill
<1>9. CASE \E v \in VMs : Unlock(v)
  BY <1>9, NobodyApart DEF Unlock
<1>10. CASE \E v \in VMs : Exec(v)
  BY <1>10 DEF Exec, Frees
<1>11. CASE \E v \in VMs, r \in Requests : Call(v, r)
  BY <1>11 DEF Call
<1>12. CASE Delete
  BY <1>12 DEF Delete
<1> QED
  BY <1>0, <1>1, <1>2, <1>3, <1>4, <1>5, <1>6, <1>7, <1>8, <1>9, <1>10,
     <1>11, <1>12
  DEF Next, Match

LEMMA InitLocals == Init => Locals
  BY DEF Init, Locals

LEMMA NextLocals == TypeOK /\ Locals /\ [Next]_vars => Locals'
<1> SUFFICES ASSUME TypeOK, Locals, [Next]_vars PROVE Locals'
  OBVIOUS
<1> USE DEF TypeOK, Locals, Goto
<1>0. CASE UNCHANGED vars
  BY <1>0 DEF vars
<1>1. CASE \E v \in VMs : Hit(v)
  BY <1>1 DEF Hit
<1>2. CASE \E v \in VMs : Miss(v)
  BY <1>2 DEF Miss
<1>3. CASE \E v \in VMs : CompileFails(v)
  BY <1>3 DEF CompileFails
<1>4. CASE \E v \in VMs : Compile(v)
  BY <1>4 DEF Compile
<1>5. CASE \E v \in VMs : TakeLock(v)
  BY <1>5 DEF TakeLock
<1>6. CASE \E v \in VMs : Insert(v)
  BY <1>6 DEF Insert
<1>7. CASE \E v \in VMs : Found(v)
  BY <1>7 DEF Found
<1>8. CASE \E v \in VMs : Fill(v)
  BY <1>8 DEF Fill
<1>9. CASE \E v \in VMs : Unlock(v)
  BY <1>9 DEF Unlock
<1>10. CASE \E v \in VMs : Exec(v)
  BY <1>10 DEF Exec, Frees
<1>11. CASE \E v \in VMs, r \in Requests : Call(v, r)
  BY <1>11 DEF Call
<1>12. CASE Delete
  BY <1>12 DEF Delete
<1> QED
  BY <1>0, <1>1, <1>2, <1>3, <1>4, <1>5, <1>6, <1>7, <1>8, <1>9, <1>10,
     <1>11, <1>12
  DEF Next, Match

-----------------------------------------------------------------------------
(* Who holds which regex.                                                  *)
LEMMA Distinct ==
  /\ NoEntry \notin Regexes /\ NullRe \notin Regexes /\ NoEntry # NullRe
  /\ \A v \in VMs, n \in Nat, r \in Requests :
       LET x == [vm |-> v, n |-> n, of |-> r]
       IN  x \in Regexes /\ x.vm = v /\ x.n = n /\ x.of = r
<1>1. \A x \in Regexes : "vm" \in DOMAIN x
  BY DEF Regexes
<1>2. "vm" \notin DOMAIN NoEntry /\ "vm" \notin DOMAIN NullRe
  BY DEF NoEntry, NullRe
<1>3. NoEntry.none # NullRe.none
  BY DEF NoEntry, NullRe
<1> QED
  BY <1>1, <1>2, <1>3 DEF Regexes

LEMMA InitCache == Init => InHand /\ InMap /\ Known
  BY Distinct DEF Init, InHand, InMap, Known

LEMMA NextHand ==
  TypeOK /\ HolderInside /\ Locals /\ InHand /\ InMap /\ Known /\ [Next]_vars => InHand'
<1> SUFFICES ASSUME TypeOK, HolderInside, Locals, InHand, InMap, Known, [Next]_vars PROVE InHand'
  OBVIOUS
<1> USE DEF TypeOK, HolderInside, Locals, Goto, Key, Keys, InHand, InMap, Known
<1>0. CASE UNCHANGED vars
  BY <1>0 DEF vars
<1>1. CASE \E v \in VMs : Hit(v)
  BY <1>1, Distinct DEF Hit
<1>2. CASE \E v \in VMs : Miss(v)
  BY <1>2 DEF Miss
<1>3. CASE \E v \in VMs : CompileFails(v)
  BY <1>3 DEF CompileFails
<1>4. CASE \E v \in VMs : Compile(v)
  <2> PICK v \in VMs : Compile(v)
    BY <1>4
  <2> DEFINE x == [vm |-> v, n |-> made[v], of |-> req[v]]
  <2>1. /\ x \in Regexes /\ x.vm = v /\ x.n = made[v] /\ x.of = req[v]
        /\ x \notin live
    BY Distinct DEF Compile
  <2>2. /\ re' = [re EXCEPT ![v] = x] /\ live' = live \cup {x}
        /\ created' = [created EXCEPT ![v] = TRUE]
        /\ pc[v] = "compile" /\ pc'[v] \in {"lock", "exec"}
        /\ \A u \in VMs : u # v => pc'[u] = pc[u]
        /\ UNCHANGED <<table, req, isNew, made>>
    BY DEF Compile
  <2> HIDE DEF x
  <2> SUFFICES ASSUME NEW u \in VMs PROVE InHand!(u)'
    BY DEF InHand
  <2>3. CASE u = v
    <3>1. \A k \in Keys : table[k] # x
      BY <2>1
    <3> QED
      BY <2>1, <2>2, <2>3, <3>1
  <2>4. CASE u # v
    BY <2>1, <2>2, <2>4
  <2> QED
    BY <2>3, <2>4
<1>5. CASE \E v \in VMs : TakeLock(v)
  BY <1>5 DEF TakeLock
<1>6. CASE \E v \in VMs : Insert(v)
  BY <1>6, Distinct DEF Insert
<1>7. CASE \E v \in VMs : Found(v)
  BY <1>7 DEF Found
<1>8. CASE \E v \in VMs : Fill(v)
  BY <1>8, Distinct DEF Fill
<1>9. CASE \E v \in VMs : Unlock(v)
  BY <1>9 DEF Unlock
<1>10. CASE \E v \in VMs : Exec(v)
  BY <1>10 DEF Exec, Frees
<1>11. CASE \E v \in VMs, r \in Requests : Call(v, r)
  <2> PICK v \in VMs, r \in Requests : Call(v, r)
    BY <1>11
  <2>1. /\ pc[v] = "idle" /\ ~created[v]
        /\ made' = [made EXCEPT ![v] = made[v] + 1]
        /\ \A u \in VMs : made[u] \in Nat /\ made[u] <= made'[u]
    BY DEF Call
  <2>2. /\ \A u \in VMs : u # v => /\ pc'[u] = pc[u] /\ req'[u] = req[u]
                                  /\ created'[u] = created[u] /\ isNew'[u] = isNew[u]
                                  /\ made'[u] = made[u]
        /\ pc'[v] = "lookup" /\ ~created'[v] /\ ~isNew'[v]
        /\ UNCHANGED <<table, lock, live, re>>
    BY DEF Call
  <2> SUFFICES ASSUME NEW u \in VMs PROVE InHand!(u)'
    BY DEF InHand
  <2>3. CASE u = v
    <3>1. \A x \in live : x.vm = v => x.n < made'[v]
      BY <2>1 DEF Regexes
    <3> QED
      BY <2>2, <2>3, <3>1
  <2>4. CASE u # v
    BY <2>2, <2>4
  <2> QED
    BY <2>3, <2>4
<1>12. CASE Delete
  BY <1>12, Distinct DEF Delete
<1> QED
  BY <1>0, <1>1, <1>2, <1>3, <1>4, <1>5, <1>6, <1>7, <1>8, <1>9, <1>10,
     <1>11, <1>12
  DEF Next, Match

LEMMA NextMap ==
  TypeOK /\ HolderInside /\ Locals /\ InHand /\ InMap /\ Known /\ [Next]_vars => InMap'
<1> SUFFICES ASSUME TypeOK, HolderInside, Locals, InHand, InMap, Known, [Next]_vars PROVE InMap'
  OBVIOUS
<1> USE DEF TypeOK, HolderInside, Locals, Goto, Key, Keys, InHand, InMap, Known
<1>0. CASE UNCHANGED vars
  BY <1>0 DEF vars
<1>1. CASE \E v \in VMs : Hit(v)
  BY <1>1, Distinct DEF Hit
<1>2. CASE \E v \in VMs : Miss(v)
  BY <1>2 DEF Miss
<1>3. CASE \E v \in VMs : CompileFails(v)
  BY <1>3 DEF CompileFails
<1>4. CASE \E v \in VMs : Compile(v)
  BY <1>4 DEF Compile
<1>5. CASE \E v \in VMs : TakeLock(v)
  BY <1>5 DEF TakeLock
<1>6. CASE \E v \in VMs : Insert(v)
  BY <1>6, Distinct DEF Insert
<1>7. CASE \E v \in VMs : Found(v)
  BY <1>7 DEF Found
<1>8. CASE \E v \in VMs : Fill(v)
  BY <1>8, Distinct DEF Fill
<1>9. CASE \E v \in VMs : Unlock(v)
  BY <1>9 DEF Unlock
<1>10. CASE \E v \in VMs : Exec(v)
  BY <1>10 DEF Exec, Frees
<1>11. CASE \E v \in VMs, r \in Requests : Call(v, r)
  BY <1>11, Distinct DEF Call
<1>12. CASE Delete
  BY <1>12, Distinct DEF Delete
<1> QED
  BY <1>0, <1>1, <1>2, <1>3, <1>4, <1>5, <1>6, <1>7, <1>8, <1>9, <1>10,
     <1>11, <1>12
  DEF Next, Match

LEMMA NextKnown ==
  TypeOK /\ HolderInside /\ Locals /\ InHand /\ InMap /\ Known /\ [Next]_vars => Known'
<1> SUFFICES ASSUME TypeOK, HolderInside, Locals, InHand, InMap, Known, [Next]_vars PROVE Known'
  OBVIOUS
<1> USE DEF TypeOK, HolderInside, Locals, Goto, Key, Keys, InHand, InMap, Known, Cached, Owns
<1>0. CASE UNCHANGED vars
  BY <1>0 DEF vars
<1>1. CASE \E v \in VMs : Hit(v)
  BY <1>1, Distinct DEF Hit
<1>2. CASE \E v \in VMs : Miss(v)
  BY <1>2 DEF Miss
<1>3. CASE \E v \in VMs : CompileFails(v)
  BY <1>3 DEF CompileFails
<1>4. CASE \E v \in VMs : Compile(v)
  BY <1>4 DEF Compile
<1>5. CASE \E v \in VMs : TakeLock(v)
  BY <1>5 DEF TakeLock
<1>6. CASE \E v \in VMs : Insert(v)
  <2> PICK v \in VMs : Insert(v)
    BY <1>6
  <2>1. /\ pc[v] = "insert" /\ table[Key(v)] = NoEntry
        /\ table' = [table EXCEPT ![Key(v)] = NullRe]
        /\ isNew' = [isNew EXCEPT ![v] = TRUE] /\ pc' = [pc EXCEPT ![v] = "fill"]
        /\ UNCHANGED <<live, re, created, made, req>>
    BY DEF Insert
  <2> SUFFICES ASSUME NEW x \in live' PROVE Known!(x)'
    OBVIOUS
  <2>2. x \in live /\ x.n <= made'[x.vm]
    BY <2>1
  <2>3. CASE Cached(x)
    <3>1. PICK k \in Keys : table[k] = x
      BY <2>3
    <3>2. k # Key(v) /\ Key(v) \in Keys
      BY <2>1, <2>2, <3>1, Distinct
    <3>3. table'[k] = x
      BY <2>1, <3>1, <3>2
    <3> QED
      BY <2>2, <3>3
  <2>4. CASE \E u \in VMs : Owns(u, x)
    BY <2>1, <2>2, <2>4
  <2> QED
    BY <2>2, <2>3, <2>4
<1>7. CASE \E v \in VMs : Found(v)
  BY <1>7 DEF Found
<1>8. CASE \E v \in VMs : Fill(v)
  BY <1>8, Distinct DEF Fill
<1>9. CASE \E v \in VMs : Unlock(v)
  BY <1>9 DEF Unlock
<1>10. CASE \E v \in VMs : Exec(v)
  BY <1>10 DEF Exec, Frees
<1>11. CASE \E v \in VMs, r \in Requests : Call(v, r)
  <2> PICK v \in VMs, r \in Requests : Call(v, r)
    BY <1>11
  <2>1. /\ pc[v] = "idle" /\ ~created[v]
        /\ made' = [made EXCEPT ![v] = made[v] + 1]
        /\ \A u \in VMs : made[u] \in Nat /\ made[u] <= made'[u]
    BY DEF Call
  <2>2. /\ \A u \in VMs : u # v => /\ pc'[u] = pc[u] /\ req'[u] = req[u]
                                  /\ created'[u] = created[u] /\ isNew'[u] = isNew[u]
                                  /\ made'[u] = made[u]
        /\ pc'[v] = "lookup" /\ ~created'[v] /\ ~isNew'[v]
        /\ UNCHANGED <<table, lock, live, re>>
    BY DEF Call
  <2> SUFFICES ASSUME NEW x \in live' PROVE Known!(x)'
    OBVIOUS
  <2>3. x \in live /\ x.vm \in VMs /\ x.n \in Nat
    BY <2>2 DEF Regexes
  <2>4. x.n <= made'[x.vm]
    BY <2>1, <2>3
  <2>5. Cached(x) => Cached(x)'
    BY <2>2
  <2>6. \A u \in VMs : Owns(u, x) => Owns(u, x)'
    BY <2>1, <2>2
  <2> QED
    BY <2>3, <2>4, <2>5, <2>6
<1>12. CASE Delete
  BY <1>12, Distinct DEF Delete
<1> QED
  BY <1>0, <1>1, <1>2, <1>3, <1>4, <1>5, <1>6, <1>7, <1>8, <1>9, <1>10,
     <1>11, <1>12
  DEF Next, Match

LEMMA NextCache == TypeOK /\ CacheInv /\ [Next]_vars => CacheInv'
  BY NextHolder, NextLocals, NextHand, NextMap, NextKnown DEF CacheInv

LEMMA CacheInvariant == Spec => [](TypeOK /\ CacheInv)
<1>1. Init => TypeOK /\ CacheInv
  BY InitType, InitHolder, InitLocals, InitCache DEF CacheInv
<1> QED
  BY <1>1, NextType, NextCache, PTL DEF Spec

(* No match runs a freed regex, and none is leaked or freed twice, however *)
(* many VMs compile the same pattern at a time.                            *)
THEOREM OwnershipKept == Spec => []OwnedOnce
<1>1. TypeOK /\ CacheInv => OwnedOnce
  <2> SUFFICES ASSUME TypeOK, CacheInv PROVE OwnedOnce
    OBVIOUS
  <2> USE DEF TypeOK, CacheInv, Locals, Key, Keys
  <2>1. ASSUME NEW v \in VMs, pc[v] = "exec", re[v] # NullRe PROVE re[v] \in live
    BY <2>1, Distinct DEF InHand, InMap
  <2>2. ASSUME NEW x \in live PROVE Cached(x) \/ \E v \in VMs : Owns(v, x)
    BY DEF Known
  <2>3. ASSUME NEW x \in live, NEW v \in VMs, Owns(v, x) PROVE ~Cached(x)
    BY <2>3 DEF InHand, Owns, Cached
  <2> QED
    BY <2>1, <2>2, <2>3 DEF OwnedOnce
<1> QED
  BY <1>1, CacheInvariant, PTL
-----------------------------------------------------------------------------
(* Cutting a key twice is cutting it once.                                 *)
LEMMA CutTwice ==
  ASSUME NEW s \in Seq(Chars)
  PROVE  Cut(s) \in Seq(Chars) /\ Cut(Cut(s)) = Cut(s)
<1> DEFINE n == IF Len(s) < KeyMax THEN Len(s) ELSE KeyMax
<1>1. n \in 0 .. Len(s) /\ n \in Nat /\ n <= KeyMax /\ KeyMax \in Nat
  BY RegexCacheAssumption DEF RegexCacheAssumption
<1>2. \A i \in 1 .. n : s[i] \in Chars
  BY <1>1
<1>3. Cut(s) = SubSeq(s, 1, n)
  BY DEF Cut
<1> HIDE DEF n
<1>4. Cut(s) \in Seq(Chars) /\ Len(Cut(s)) = n
  BY <1>1, <1>2, <1>3, SubSeqProperties
<1>5. (IF Len(Cut(s)) < KeyMax THEN Len(Cut(s)) ELSE KeyMax) = Len(Cut(s))
  BY <1>1, <1>4
<1>6. Cut(Cut(s)) = SubSeq(Cut(s), 1, Len(Cut(s)))
  BY <1>5 DEF Cut
<1> QED
  BY <1>4, <1>6, SubSeqFull

LEMMA KeyDecides ==
  ASSUME NEW q \in Requests, NEW r \in Requests, KeyOf(q) = KeyOf(r)
  PROVE  Reads(q) = Reads(r)
<1>1. ASSUME NEW p \in Requests PROVE Reads(p) = Cut(KeyOf(p))
  <2>1. p.pat \in Seq(Chars) /\ p.pat \o p.opt \in Seq(Chars)
    BY RegexCacheAssumption, ConcatProperties DEF RegexCacheAssumption
  <2>2. CASE p.n = 3
    <3>1. Reads(p) = Cut(p.pat \o p.opt) /\ KeyOf(p) = Cut(p.pat \o p.opt)
      BY <2>2 DEF Reads, KeyOf
    <3> QED
      BY <3>1, <2>1, CutTwice
  <2>3. CASE p.n # 3
    BY <2>3 DEF Reads, KeyOf
  <2> QED
    BY <2>2, <2>3
<1> QED
  BY <1>1

(* No interleaving serves a match with the regex of another key.           *)
THEOREM ServedRightly == Spec => []RightRegex
<1>1. TypeOK /\ CacheInv => RightRegex
  <2> SUFFICES ASSUME TypeOK, CacheInv PROVE RightRegex
    OBVIOUS
  <2> USE DEF TypeOK, CacheInv, Locals, Key, Keys
  <2>1. ASSUME NEW v \in VMs, pc[v] = "exec", re[v] # NullRe
        PROVE  Reads(re[v].of) = Reads(req[v])
    <3>1. re[v] \in Regexes /\ re[v].of \in Requests
      BY <2>1 DEF Regexes
    <3>2. KeyOf(re[v].of) = KeyOf(req[v])
      BY <2>1, <3>1 DEF InHand, InMap
    <3> QED
      BY <3>1, <3>2, KeyDecides
  <2>2. ASSUME NEW k \in Keys, table[k] = NullRe
        PROVE  \E v \in VMs : lock = v /\ pc[v] = "fill" /\ Key(v) = k
    BY <2>2 DEF InMap, HolderInside
  <2> QED
    BY <2>1, <2>2 DEF RightRegex
<1> QED
  BY <1>1, CacheInvariant, PTL
-----------------------------------------------------------------------------
(* How many VMs can be about to insert.                                    *)
LEMMA PendingFinite ==
  /\ IsFiniteSet(Pending) /\ Cardinality(Pending) \in Nat
  /\ IsFiniteSet(VMs) /\ Cardinality(VMs) \in Nat
  /\ Cardinality(Pending) <= Cardinality(VMs)
<1>1. IsFiniteSet(VMs) /\ Pending \in SUBSET VMs
  BY RegexCacheAssumption DEF RegexCacheAssumption, Pending
<1> QED
  BY <1>1, FS_Subset, FS_CardinalityType

LEMMA FewerPending ==
  ASSUME SizeInv, Entries' \subseteq Entries, Pending' \subseteq Pending
  PROVE  SizeInv'
<1>1. /\ IsFiniteSet(Entries') /\ Cardinality(Entries') <= Cardinality(Entries)
      /\ Cardinality(Entries) \in Nat /\ Cardinality(Entries') \in Nat
  BY FS_Subset, FS_CardinalityType DEF SizeInv
<1>2. /\ Cardinality(Pending') <= Cardinality(Pending)
      /\ Cardinality(Pending) \in Nat /\ Cardinality(Pending') \in Nat
  BY PendingFinite, FS_Subset, FS_CardinalityType
<1>3. Capacity \in Nat /\ Cardinality(VMs) \in Nat
  BY PendingFinite, RegexCacheAssumption DEF RegexCacheAssumption
<1> QED
  BY <1>1, <1>2, <1>3 DEF SizeInv, numEntries

LEMMA InitSize == Init => SizeInv
<1> SUFFICES ASSUME Init PROVE SizeInv
  OBVIOUS
<1>1. Entries = {} /\ Pending = {}
  BY DEF Init, Entries, Pending
<1>2. Capacity \in Nat \ {0} /\ Cardinality(VMs) \in Nat
  BY PendingFinite, RegexCacheAssumption DEF RegexCacheAssumption
<1> QED
  BY <1>1, <1>2, FS_EmptySet DEF SizeInv, numEntries

LEMMA NextSize == TypeOK /\ CacheInv /\ SizeInv /\ [Next]_vars => SizeInv'
<1> SUFFICES ASSUME TypeOK, CacheInv, SizeInv, [Next]_vars PROVE SizeInv'
  OBVIOUS
<1> USE DEF TypeOK, Goto
<1>0. CASE UNCHANGED vars
  BY <1>0, FewerPending DEF vars, Entries, Pending
<1>1. CASE \E v \in VMs : Hit(v)
  BY <1>1, FewerPending DEF Hit, Entries, Pending
<1>2. CASE \E v \in VMs : Miss(v)
  BY <1>2, FewerPending DEF Miss, Entries, Pending
<1>3. CASE \E v \in VMs : CompileFails(v)
  BY <1>3, FewerPending DEF CompileFails, Entries, Pending
<1>4. CASE \E v \in VMs : Compile(v)
  <2> PICK v \in VMs : Compile(v)
    BY <1>4
  <2>1. Entries' = Entries
    BY DEF Compile, Entries
  <2>2. CASE Room
    <3>1. Pending' = Pending \cup {v} /\ v \notin Pending
      BY <2>2 DEF Compile, Pending
    <3>2. Cardinality(Pending') = Cardinality(Pending) + 1
      BY <3>1, PendingFinite, FS_AddElement
    <3>3. Pending' \in SUBSET VMs
      BY DEF Pending
    <3>4. Cardinality(Pending') <= Cardinality(VMs) /\ Cardinality(Pending') \in Nat
      BY <3>3, PendingFinite, FS_Subset, FS_CardinalityType
    <3>5. Cardinality(Entries) \in Nat /\ Cardinality(Entries) < Capacity
      BY <2>2, FS_CardinalityType DEF SizeInv, Room, numEntries
    <3>6. Capacity \in Nat
      BY RegexCacheAssumption DEF RegexCacheAssumption
    <3> QED
      BY <2>1, <3>4, <3>5, <3>6, PendingFinite DEF SizeInv, numEntries
  <2>3. CASE ~Room
    <3>1. Pending' = Pending
      BY <2>3 DEF Compile, Pending
    <3> QED
      BY <2>1, <3>1, FewerPending
  <2> QED
    BY <2>2, <2>3
<1>5. CASE \E v \in VMs : TakeLock(v)
  BY <1>5, FewerPending DEF TakeLock, Entries, Pending
<1>6. CASE \E v \in VMs : Insert(v)
  <2> PICK v \in VMs : Insert(v)
    BY <1>6
  <2>1. Entries' = Entries \cup {Key(v)} /\ Key(v) \notin Entries
    BY DEF Insert, Entries, Key, Keys, NullRe, NoEntry
  <2>2. Pending' = Pending \ {v} /\ v \in Pending
    BY DEF Insert, Pending
  <2>3. IsFiniteSet(Entries') /\ Cardinality(Entries') = Cardinality(Entries) + 1
    BY <2>1, FS_AddElement DEF SizeInv
  <2>4. Cardinality(Pending') = Cardinality(Pending) - 1
    BY <2>2, PendingFinite, FS_RemoveElement
  <2>5. Cardinality(Entries) \in Nat /\ Capacity \in Nat
    BY FS_CardinalityType, RegexCacheAssumption DEF SizeInv, RegexCacheAssumption
  <2> QED
    BY <2>3, <2>4, <2>5, PendingFinite DEF SizeInv, numEntries
<1>7. CASE \E v \in VMs : Found(v)
  BY <1>7, FewerPending DEF Found, Entries, Pending
<1>8. CASE \E v \in VMs : Fill(v)
  <2> PICK v \in VMs : Fill(v)
    BY <1>8
  <2>1. Key(v) \in Entries /\ Entries' \subseteq Entries
    <3>1. Key(v) \in Keys /\ pc[v] = "fill"
      BY DEF Fill, Key, Keys
    <3>2. table[Key(v)] = NullRe
      BY <3>1 DEF CacheInv, InMap
    <3>3. NullRe # NoEntry
      BY Distinct
    <3> QED
      BY <3>1, <3>2, <3>3 DEF Fill, Entries
  <2>2. Pending' \subseteq Pending
    BY DEF Fill, Pending
  <2> QED
    BY <2>1, <2>2, FewerPending
<1>9. CASE \E v \in VMs : Unlock(v)
  BY <1>9, FewerPending DEF Unlock, Entries, Pending
<1>10. CASE \E v \in VMs : Exec(v)
  BY <1>10, FewerPending DEF Exec, Entries, Pending, Frees
<1>11. CASE \E v \in VMs, r \in Requests : Call(v, r)
  BY <1>11, FewerPending DEF Call, Entries, Pending
<1>12. CASE Delete
  BY <1>12, FewerPending DEF Delete, Entries, Pending
<1> QED
  BY <1>0, <1>1, <1>2, <1>3, <1>4, <1>5, <1>6, <1>7, <1>8, <1>9, <1>10,
     <1>11, <1>12
  DEF Next, Match

(* The unlocked reading of the size costs one place per VM at most.        *)
THEOREM SizeBounded == Spec => []CapacityOvershoot
<1>1. SizeInv => CapacityOvershoot
  <2> SUFFICES ASSUME SizeInv PROVE CapacityOvershoot
    OBVIOUS
  <2>1. Cardinality(Entries) \in Nat /\ Capacity \in Nat
    BY FS_CardinalityType, RegexCacheAssumption DEF SizeInv, RegexCacheAssumption
  <2> QED
    BY <2>1, PendingFinite DEF SizeInv, CapacityOvershoot, numEntries
<1> QED
  BY <1>1, InitSize, NextSize, CacheInvariant, PTL DEF Spec

-----------------------------------------------------------------------------
(* CacheFile.                                                              *)

LEMMA FileSizes ==
  /\ Size \in Nat /\ MaxNeed \in Nat /\ All \in Nat /\ Lengths \subseteq Nat \ {0}
  /\ All > Size
<1>1. Size \in Nat /\ MaxNeed \in Nat /\ All \in Nat /\ All > Size + MaxNeed
  BY CacheFileAssumption DEF CacheFileAssumption
<1>2. All > Size
  BY <1>1
<1> QED
  BY <1>1, <1>2, CacheFileAssumption DEF CacheFileAssumption

(* The two halves of TypeOK.                                               *)
FileFlags  == {action, hit, eof, err, wait} \subseteq BOOLEAN
FileCounts == /\ op \in {"none", "read", "write", "remove"}
          /\ co \in {"run", "waiting", "gone"}
          /\ vc \in {"none", "open", "closed"} /\ vio \in {"none", "on", "off"}
          /\ need \in Nat /\ already \in Nat /\ reserved \in Nat
          /\ moved \in Nat /\ asked \in Nat /\ got \in Nat \cup {-1} /\ returned \in Nat

LEMMA FileTypes == (FileTypeOK <=> FileFlags /\ FileCounts) /\ (FileTypeOK' <=> FileFlags' /\ FileCounts')
  BY DEF FileTypeOK, FileFlags, FileCounts

FileRest == /\ FileCounts /\ Fresh /\ Answered /\ Outstanding /\ Closed
        /\ ReadsContiguous /\ CallsExact

LEMMA InitFile == FileInit => FileInv
<1> SUFFICES ASSUME FileInit PROVE FileInv
  OBVIOUS
<1>1. FileFlags
  BY DEF FileInit, FileFlags
<1>2. FileCounts
  BY DEF FileInit, FileCounts
<1>3. Fresh /\ Answered /\ Outstanding /\ Closed /\ ReadsContiguous /\ CallsExact
  BY DEF FileInit, Fresh, Answered, Outstanding, Closed, ReadsContiguous, CallsExact
<1> QED
  BY <1>1, <1>2, <1>3, FileTypes DEF FileInv

LEMMA NextFileFlags == FileTypeOK /\ [FileNext]_fileVars => FileFlags'
<1> SUFFICES ASSUME FileTypeOK, [FileNext]_fileVars PROVE FileFlags'
  OBVIOUS
<1> USE DEF FileTypeOK, FileFlags
<1>0. CASE UNCHANGED fileVars
  BY <1>0 DEF fileVars, infoVars
<1>1. CASE \E o \in {"read", "write"}, outcome \in Outcomes : OpenNow(o, outcome)
  BY <1>1 DEF OpenNow, Opened, Outcomes
<1>2. CASE RemoveNow
  BY <1>2 DEF RemoveNow, infoVars
<1>3. CASE \E o \in {"read", "write", "remove"} : CallCache(o)
  BY <1>3 DEF CallCache, infoVars
<1>4. CASE \E len \in Asks \cup {All} : ReadNow(len)
  BY <1>4 DEF ReadNow, MayCall, NeedAfter, Asks
<1>5. CASE \E len \in Asks \cup {All} : ReadWait(len)
  BY <1>5 DEF ReadWait, MayCall, NeedAfter, Asks
<1>6. CASE \E len \in Asks \cup {0} : Write(len)
  BY <1>6 DEF Write, MayCall, Asks
<1>7. CASE CloseFile
  BY <1>7 DEF CloseFile, Released
<1>8. CASE \E outcome \in Outcomes : OpenDone(outcome)
  BY <1>8 DEF OpenDone, Opened, Outcomes
<1>9. CASE RemoveDone
  BY <1>9 DEF RemoveDone, infoVars
<1>10. CASE \E k \in Progress : ReadReady(k)
  BY <1>10 DEF ReadReady, Calls, Satisfied, ResumeRead, Progress
<1>11. CASE \E k \in Progress : WriteReady(k)
  BY <1>11 DEF WriteReady, Calls, ResumeWrite, Progress
<1>12. CASE ReadEos
  BY <1>12 DEF ReadEos, Calls, ResumeRead
<1>13. CASE ReadError
  BY <1>13 DEF ReadError, Calls, ResumeRead
<1>14. CASE WriteError
  BY <1>14 DEF WriteError, Calls, ResumeWrite
<1>15. CASE Cleanup
  BY <1>15 DEF Cleanup, Released
<1> QED
  BY <1>0, <1>1, <1>2, <1>3, <1>4, <1>5, <1>6, <1>7, <1>8, <1>9, <1>10,
     <1>11, <1>12, <1>13, <1>14, <1>15
  DEF FileNext, Script, Cache

LEMMA NextFileRest == FileInv /\ [FileNext]_fileVars => FileRest'
<1> SUFFICES ASSUME FileInv, [FileNext]_fileVars PROVE FileRest'
  OBVIOUS
<1> USE DEF FileInv, FileTypeOK, FileCounts, FileRest, Fresh, Answered, Outstanding, Closed,
           ReadsContiguous, CallsExact, histVars
<1>0. CASE UNCHANGED fileVars
  BY <1>0 DEF fileVars, infoVars
<1>1. CASE \E o \in {"read", "write"}, outcome \in Outcomes : OpenNow(o, outcome)
  BY <1>1, FileSizes DEF OpenNow, Opened, Outcomes
<1>2. CASE RemoveNow
  BY <1>2, FileSizes DEF RemoveNow, infoVars
<1>3. CASE \E o \in {"read", "write", "remove"} : CallCache(o)
  BY <1>3, FileSizes DEF CallCache, infoVars
<1>4. CASE \E len \in Asks \cup {All} : ReadNow(len)
  BY <1>4, FileSizes DEF ReadNow, MayCall, NeedAfter, Asks
<1>5. CASE \E len \in Asks \cup {All} : ReadWait(len)
  BY <1>5, FileSizes DEF ReadWait, MayCall, NeedAfter, Asks
<1>6. CASE \E len \in Asks \cup {0} : Write(len)
  <2>1. PICK len \in Asks \cup {0} : Write(len)
    BY <1>6
  <2>2. len \in Nat
    BY FileSizes DEF Asks
  <2>3. /\ need' = need + len /\ co' = "waiting" /\ wait' /\ asked' = len /\ got' = -1
        /\ vio' = "on" /\ ~err /\ co = "run" /\ op = "write" /\ vc = "open"
        /\ UNCHANGED <<op, action, vc, hit, eof, err, already, reserved, moved, returned>>
    BY <2>1, Zenon DEF Write, MayCall
  <2>4. ~eof
    BY <2>3
  <2> QED
    BY <2>2, <2>3, <2>4, FileSizes
<1>7. CASE CloseFile
  BY <1>7, FileSizes DEF CloseFile, Released
<1>8. CASE \E outcome \in Outcomes : OpenDone(outcome)
  BY <1>8, FileSizes DEF OpenDone, Opened, Outcomes
<1>9. CASE RemoveDone
  BY <1>9, FileSizes DEF RemoveDone, infoVars
<1>10. CASE \E k \in Progress : ReadReady(k)
  BY <1>10, FileSizes DEF ReadReady, Calls, Satisfied, ResumeRead, Progress
<1>11. CASE \E k \in Progress : WriteReady(k)
  BY <1>11, FileSizes DEF WriteReady, Calls, ResumeWrite, Progress
<1>12. CASE ReadEos
  BY <1>12, FileSizes DEF ReadEos, Calls, ResumeRead
<1>13. CASE ReadError
  BY <1>13, FileSizes DEF ReadError, Calls, ResumeRead
<1>14. CASE WriteError
  BY <1>14, FileSizes DEF WriteError, Calls, ResumeWrite
<1>15. CASE Cleanup
  BY <1>15, FileSizes DEF Cleanup, Released
<1> QED
  BY <1>0, <1>1, <1>2, <1>3, <1>4, <1>5, <1>6, <1>7, <1>8, <1>9, <1>10,
     <1>11, <1>12, <1>13, <1>14, <1>15
  DEF FileNext, Script, Cache

LEMMA NextFile == FileInv /\ [FileNext]_fileVars => FileInv'
  BY NextFileFlags, NextFileRest, FileTypes DEF FileInv, FileRest

-----------------------------------------------------------------------------
(* The inductive invariant.                                                *)
THEOREM FileInductive == FileSpec => []FileInv
  BY InitFile, NextFile, PTL DEF FileSpec

(* TypeOK is an invariant: no count of bytes is ever negative.             *)
THEOREM FileTypeCorrect == FileSpec => []FileTypeOK
<1>1. FileInv => FileTypeOK
  BY DEF FileInv
<1> QED
  BY <1>1, FileInductive, PTL

(* The bytes a script reads are those of the object, in order, without a   *)
(* gap and without repetition.                                             *)
THEOREM ReadInOrder == FileSpec => []ReadsContiguous
<1>1. FileInv => ReadsContiguous
  BY DEF FileInv
<1> QED
  BY <1>1, FileInductive, PTL

(* A call returns as much as it asked for, whatever events came before it. *)
THEOREM AskedIsReturned == FileSpec => []CallsExact
<1>1. FileInv => CallsExact
  BY DEF FileInv
<1> QED
  BY <1>1, FileInductive, PTL

(* No wake-up is lost, but for that of an empty write.                     *)
THEOREM WakeupKept == FileSpec => []WakeupPending
<1>1. FileInv => WakeupPending
  <2> SUFFICES ASSUME FileInv, co = "waiting" PROVE WakeupPending
    BY DEF WakeupPending
  <2>1. CASE vc = "none"
    BY <2>1 DEF FileInv, Fresh, WakeupPending
  <2>2. CASE vc = "open" /\ op = "read"
    BY <2>2 DEF FileInv, Outstanding, WakeupPending
  <2>3. CASE vc = "open" /\ op = "write"
    BY <2>3 DEF FileInv, FileTypeOK, Outstanding, WakeupPending, EmptyWrite
  <2> QED
    BY <2>1, <2>2, <2>3 DEF FileInv, FileTypeOK, Fresh, Closed
<1> QED
  BY <1>1, FileInductive, PTL
=============================================================================
