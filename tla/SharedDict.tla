----------------------------- MODULE SharedDict -----------------------------
(***************************************************************************)
(* ts.shared.DICT: one table shared by the Lua VMs of a plugin instance.   *)
(*                                                                         *)
(* A thread inside VM t calls set, get, del and get_keys.  The table and   *)
(* its byte count are guarded by a mutex, with two exceptions the code     *)
(* makes: the quota is checked before the mutex is taken, and a dictionary *)
(* with the STATIC option is read without it.  Items are allocated and     *)
(* freed outside the mutex, so that an address may be used again while     *)
(* another thread still works with it.                                     *)
(***************************************************************************)
EXTENDS Integers, FiniteSetsExt

CONSTANTS
  Threads,   \* the Lua VMs, each of which runs one thread at a time
  NoThread,  \* the owner of the free mutex
  Loader,    \* the thread that runs the script's main chunk at load time
  Keys,      \* keys of the table
  Addrs,     \* addresses of items
  NoItem,    \* NULL
  Sizes,     \* ksize + vsize of an item
  MaxSize,   \* the largest: a key and a value of 64 KB - 1 each
  Overhead,  \* sizeof(ts_lua_shared_dict_item)
  Quota,     \* dct->quota, 0 for none
  LoadOnly   \* do scripts write STATIC dictionaries only at load time?

ASSUME SharedDictAssumption ==
  /\ IsFiniteSet(Threads)
  /\ NoThread \notin Threads
  /\ Loader \in Threads
  /\ IsFiniteSet(Keys)
  /\ NoItem \notin Addrs
  /\ Sizes \subseteq Nat /\ MaxSize \in Nat /\ \A s \in Sizes : s <= MaxSize
  /\ Overhead \in Nat
  /\ Quota \in Nat
  /\ LoadOnly \in BOOLEAN

VARIABLES
  static, \* TS_LUA_SHDICT_FLAG_STATIC, an option of ts.shared.DICT
  phase,  \* "load" while only the script's main chunk runs, then "serve"
  map,    \* map[k]: the item stored under k, or NoItem
  live,   \* the allocated items
  size,   \* size[a]: ksize + vsize of the item at a
  used,   \* dct->used
  lock,   \* dct->map.mutexp
  pc,     \* pc[t]: where thread t is
  key,    \* key[t]: the key of its call
  item    \* item[t]: the item it has in hand

vars == <<static, phase, map, live, size, used, lock, pc, key, item>>

Pcs == {"idle", "setLock", "setStore", "delLock", "delRemove", "readLock",
        "find", "copy", "list", "unlock", "free"}

(* The program counters between TSMutexLock and TSMutexUnlock ...          *)
Writing == {"setStore", "delRemove"}
Reading == {"find", "copy", "list"}

TypeOK ==
  /\ static \in BOOLEAN
  /\ phase \in {"load", "serve"}
  /\ map \in [Keys -> Addrs \cup {NoItem}]
  /\ live \subseteq Addrs
  /\ size \in [Addrs -> Nat]
  /\ used \in Int
  /\ lock \in Threads \cup {NoThread}
  /\ pc \in [Threads -> Pcs]
  /\ key \in [Threads -> Keys]
  /\ item \in [Threads -> Addrs \cup {NoItem}]

Init ==
  /\ static \in BOOLEAN
  /\ phase = "load"
  /\ map = [k \in Keys |-> NoItem]
  /\ live = {}
  /\ size = [a \in Addrs |-> 0]
  /\ used = 0
  /\ lock = NoThread
  /\ pc = [t \in Threads |-> "idle"]
  /\ key \in [Threads -> Keys]
  /\ item = [t \in Threads |-> NoItem]

Goto(t, l) == pc' = [pc EXCEPT ![t] = l]

Bytes(a) == Overhead + size[a]

(* While the instance is loaded only its loader runs.  Nothing but the     *)
(* scripts keeps a STATIC dictionary from being written when it serves.    *)
MayRead(t)  == phase = "serve" \/ t = Loader
MayWrite(t) == MayRead(t) /\ (LoadOnly /\ static => phase = "load")

(* Mutant: the instance serves before its script has run.                  *)
ServesEarly ==
  /\ phase = "load"
  /\ phase' = "serve"
  /\ UNCHANGED <<static, map, live, size, used, lock, pc, key, item>>

(* TSRemapNewInstance has run the script in every VM, and returns.         *)
StartServing ==
  /\ phase = "load"
  /\ pc[Loader] = "idle"
  /\ phase' = "serve"
  /\ UNCHANGED <<static, map, live, size, used, lock, pc, key, item>>

-----------------------------------------------------------------------------
(* Mutant: no quota.                                                       *)
HasRoomAlways == TRUE

(* set(key, val).  The quota is compared with what is used now, without    *)
(* the mutex and without the size of the new item.                         *)
HasRoom == Quota = 0 \/ used <= Quota

SetCheck(t, k, a, s) ==
  /\ pc[t] = "idle"
  /\ MayWrite(t)
  /\ HasRoom
  /\ a \notin live
  /\ live' = live \cup {a}
  /\ size' = [size EXCEPT ![a] = s]
  /\ key' = [key EXCEPT ![t] = k]
  /\ item' = [item EXCEPT ![t] = a]
  /\ Goto(t, "setLock")
  /\ UNCHANGED <<static, phase, map, used, lock>>

TakeLock(t, from, to) ==
  /\ pc[t] = from
  /\ lock = NoThread
  /\ lock' = t
  /\ Goto(t, to)
  /\ UNCHANGED <<static, phase, map, live, size, used, key, item>>

SetLock(t) == TakeLock(t, "setLock", "setStore")

(* Mutants: a replaced item stays counted ...                              *)
SetStoreAdds(t) == LET old == map[key[t]] IN
  /\ pc[t] = "setStore"
  /\ map' = [map EXCEPT ![key[t]] = item[t]]
  /\ used' = used + Bytes(item[t])
  /\ item' = [item EXCEPT ![t] = old]
  /\ Goto(t, "unlock")
  /\ UNCHANGED <<static, phase, live, size, lock, key>>

(* ... or is forgotten and never freed.                                    *)
SetStoreLeaks(t) == LET old == map[key[t]] IN
  /\ pc[t] = "setStore"
  /\ map' = [map EXCEPT ![key[t]] = item[t]]
  /\ used' = used + (IF old = NoItem THEN Bytes(item[t]) ELSE size[item[t]] - size[old])
  /\ item' = [item EXCEPT ![t] = NoItem]
  /\ Goto(t, "unlock")
  /\ UNCHANGED <<static, phase, live, size, lock, key>>

(* A new entry counts in full, a replaced one by the difference; what it   *)
(* replaced is freed after the mutex is left.                              *)
SetStore(t) == LET old == map[key[t]] IN
  /\ pc[t] = "setStore"
  /\ map' = [map EXCEPT ![key[t]] = item[t]]
  /\ used' = used + (IF old = NoItem THEN Bytes(item[t]) ELSE size[item[t]] - size[old])
  /\ item' = [item EXCEPT ![t] = old]
  /\ Goto(t, "unlock")
  /\ UNCHANGED <<static, phase, live, size, lock, key>>

(* TSMutexUnlock, then TSfree of the item taken out of the table, if any.  *)
Unlock(t) ==
  /\ pc[t] = "unlock"
  /\ lock' = NoThread
  /\ Goto(t, IF item[t] = NoItem THEN "idle" ELSE "free")
  /\ UNCHANGED <<static, phase, map, live, size, used, key, item>>

Free(t) ==
  /\ pc[t] = "free"
  /\ live' = live \ {item[t]}
  /\ item' = [item EXCEPT ![t] = NoItem]
  /\ Goto(t, "idle")
  /\ UNCHANGED <<static, phase, map, size, used, lock, key>>

-----------------------------------------------------------------------------
(* del(key).                                                               *)
DelCall(t, k) ==
  /\ pc[t] = "idle"
  /\ MayWrite(t)
  /\ key' = [key EXCEPT ![t] = k]
  /\ Goto(t, "delLock")
  /\ UNCHANGED <<static, phase, map, live, size, used, lock, item>>

DelLock(t) == TakeLock(t, "delLock", "delRemove")

DelRemove(t) == LET old == map[key[t]] IN
  /\ pc[t] = "delRemove"
  /\ map' = [map EXCEPT ![key[t]] = NoItem]
  /\ used' = used - (IF old = NoItem THEN 0 ELSE Bytes(old))
  /\ item' = [item EXCEPT ![t] = old]
  /\ Goto(t, "unlock")
  /\ UNCHANGED <<static, phase, live, size, lock, key>>

-----------------------------------------------------------------------------
(* get(key) finds the item and copies its value to the Lua stack;          *)
(* get_keys() walks the table.  A STATIC dictionary is read unlocked.      *)
ReadCall(t, k) ==
  /\ pc[t] = "idle"
  /\ MayRead(t)
  /\ key' = [key EXCEPT ![t] = k]
  /\ Goto(t, "readLock")
  /\ UNCHANGED <<static, phase, map, live, size, used, lock, item>>

ReadLock(t, to) ==
  /\ pc[t] = "readLock"
  /\ IF static THEN lock' = lock ELSE lock = NoThread /\ lock' = t
  /\ Goto(t, to)
  /\ UNCHANGED <<static, phase, map, live, size, used, key, item>>

GetLock(t)  == ReadLock(t, "find")
ListLock(t) == ReadLock(t, "list")

(* Mutant: the mutex is left before the value is copied.                   *)
GetFindUnlocks(t) ==
  /\ pc[t] = "find"
  /\ item' = [item EXCEPT ![t] = map[key[t]]]
  /\ lock' = NoThread
  /\ Goto(t, "copy")
  /\ UNCHANGED <<static, phase, map, live, size, used, key>>

GetFind(t) ==
  /\ pc[t] = "find"
  /\ item' = [item EXCEPT ![t] = map[key[t]]]
  /\ Goto(t, "copy")
  /\ UNCHANGED <<static, phase, map, live, size, used, lock, key>>

(* The value is copied, or the keys are: the call unlocks and returns.     *)
ReadReturn(t) ==
  /\ pc[t] \in {"copy", "list"}
  /\ item' = [item EXCEPT ![t] = NoItem]
  /\ lock' = IF static THEN lock ELSE NoThread
  /\ Goto(t, "idle")
  /\ UNCHANGED <<static, phase, map, live, size, used, key>>

-----------------------------------------------------------------------------
Call(t) ==
  \/ \E k \in Keys : \/ \E a \in Addrs, s \in Sizes : SetCheck(t, k, a, s)
                     \/ DelCall(t, k)
                     \/ ReadCall(t, k)

Work(t) ==
  \/ SetLock(t) \/ SetStore(t) \/ DelLock(t) \/ DelRemove(t)
  \/ Unlock(t) \/ Free(t)
  \/ GetLock(t) \/ ListLock(t) \/ GetFind(t) \/ ReadReturn(t)

Next == StartServing \/ \E t \in Threads : Call(t) \/ Work(t)

Spec == Init /\ [][Next]_vars

-----------------------------------------------------------------------------
(* Properties.                                                             *)

(* A thread holds the mutex between its lock and its unlock and nowhere    *)
(* else: no call returns with it, whatever it did on its way.  A set has   *)
(* an item in hand until it has stored it.                                 *)
Locked == Writing \cup {"unlock"} \cup (IF static THEN {} ELSE Reading)
LockHeld == \A t \in Threads :
  /\ pc[t] \in Locked <=> lock = t
  /\ pc[t] \in {"setLock", "setStore", "free"} => item[t] \in Addrs

(* The byte count is the sum over the stored items, whatever the           *)
(* interleaving of sets, replacements and deletes.                         *)
Charged == [k \in Keys |-> IF map[k] = NoItem THEN 0 ELSE Bytes(map[k])]
UsedIsSum == used = SumFunction(Charged)

(* Every allocated item is in the table under one key or in the hand of    *)
(* the one thread that will store or free it: nothing leaks, nothing is    *)
(* freed twice or stored after it was freed.                               *)
Carries(t)  == pc[t] \in {"setLock", "setStore", "unlock", "free"} /\ item[t] # NoItem
Tabled(a)   == \E k \in Keys : map[k] = a
Carried(a)  == \E t \in Threads : Carries(t) /\ item[t] = a
ItemsOwned  ==
  /\ \A a \in Addrs : a \in live <=> Tabled(a) \/ Carried(a)
  /\ \A a \in Addrs : ~(Tabled(a) /\ Carried(a))
  /\ \A k, j \in Keys : map[k] = map[j] /\ map[k] # NoItem => k = j
  /\ \A t, u \in Threads : Carries(t) /\ Carries(u) /\ item[t] = item[u] => t = u

(* The item whose value get() is copying is allocated and still the one    *)
(* stored under the key.                                                   *)
ReadsStored == \A t \in Threads :
  pc[t] = "copy" /\ item[t] # NoItem => item[t] \in live /\ map[key[t]] = item[t]

(* No thread walks the table while another changes it.                     *)
TableStable == \A t, u \in Threads : pc[t] \in Reading => pc[u] \notin Writing

(* The check outside the mutex lets every thread pass it before any of     *)
(* them has stored its item: the quota can be exceeded, but by no more     *)
(* than one item of each VM.                                               *)
MaxItem == Overhead + MaxSize
Slack == Cardinality(Threads) * MaxItem
QuotaOvershoot == Quota # 0 => used <= Quota + Slack

-----------------------------------------------------------------------------
(* Parts of the inductive invariants.                                      *)

(* A STATIC dictionary that is written only at load time is written by the *)
(* loader only, while nobody else runs.                                    *)
WrittenEarly == LoadOnly /\ static =>
  \A t \in Threads : /\ phase = "load" /\ t # Loader => pc[t] = "idle"
                     /\ phase = "serve" => pc[t] \in {"idle", "readLock"} \cup Reading

(* A thread that has passed the check counts for one more item.            *)
Checked == {t \in Threads : pc[t] \in {"setLock", "setStore"}}
Owed == Cardinality(Checked) * MaxItem
QuotaInv ==
  /\ \A a \in Addrs : size[a] <= MaxSize
  /\ Quota # 0 => used + Owed <= Quota + Slack
=============================================================================
