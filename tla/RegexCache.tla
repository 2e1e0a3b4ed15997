----------------------------- MODULE RegexCache -----------------------------
(***************************************************************************)
(* ts.re.match: the regular expressions of an instance, compiled once and  *)
(* shared by all Lua VMs.                                                  *)
(*                                                                         *)
(* Every VM runs one match at a time (its mutex is held), all VMs share    *)
(* the map.  The map is looked up and its size is read without its mutex;  *)
(* only an insertion takes it, and inserts in two steps: the entry, then   *)
(* its value.                                                              *)
(***************************************************************************)
EXTENDS Integers, Sequences, FiniteSets

CONSTANTS
  VMs,         \* the Lua VMs that run the scripts of the instance
  NoVM,        \* the owner of the free mutex
  Chars,       \* the characters of patterns and options
  Requests,    \* the calls: pattern, options, and whether they are given (n = 3)
  Invalid,     \* those that pcre_compile refuses
  KeyMax,      \* what snprintf keeps of pattern and options (1015 bytes)
  Capacity,    \* TS_LUA_MAX_RESIDENT_PCRE
  MaxMatches   \* bound: matches per VM

ASSUME RegexCacheAssumption ==
  /\ NoVM \notin VMs
  /\ IsFiniteSet(VMs)
  /\ Requests # {} /\ Invalid \subseteq Requests
  /\ \A r \in Requests : r.pat \in Seq(Chars) /\ r.opt \in Seq(Chars)
  /\ KeyMax \in Nat
  /\ Capacity \in Nat \ {0}
  /\ MaxMatches \in Nat

Cut(s) == SubSeq(s, 1, IF Len(s) < KeyMax THEN Len(s) ELSE KeyMax)

(* Mutant: the options are left out of the key.                            *)
KeyOfPattern(r) == r.pat

(* With options, the key is the pattern followed by them.                  *)
KeyOf(r) == IF r.n = 3 THEN Cut(r.pat \o r.opt) ELSE r.pat

Keys == {KeyOf(r) : r \in Requests}

(* A compiled regex: who compiled it, as its how manieth, and from what.   *)
Regexes  == [vm : VMs, n : Nat, of : Requests]
NoEntry  == [none |-> "no entry"]
NullRe   == [none |-> "no value"]

VARIABLES
  table,    \* the map: per key a regex, an entry without value, or no entry
  lock,     \* holder of the mutex of the map
  live,     \* the compiled regexes that are not freed
  pc,       \* where the call of a VM is
  req,      \* its arguments
  re,       \* its local re
  created,  \* its local created
  isNew,    \* its local isNew
  made,     \* matches begun (bound, and name of the regex compiled)
  deleted   \* has the instance been deleted?

vars == <<table, lock, live, pc, req, re, created, isNew, made, deleted>>

Pcs == {"idle", "lookup", "compile", "lock", "insert", "fill", "unlock", "exec"}

TypeOK ==
  /\ table \in [Keys -> Regexes \cup {NullRe, NoEntry}]
  /\ lock \in VMs \cup {NoVM}
  /\ live \subseteq Regexes
  /\ pc \in [VMs -> Pcs]
  /\ req \in [VMs -> Requests]
  /\ re \in [VMs -> Regexes \cup {NullRe}]
  /\ created \in [VMs -> BOOLEAN]
  /\ isNew \in [VMs -> BOOLEAN]
  /\ made \in [VMs -> Nat]
  /\ deleted \in BOOLEAN

(* TSRemapNewInstance leaves an empty map.                                 *)
Init ==
  /\ table = [k \in Keys |-> NoEntry]
  /\ lock = NoVM
  /\ live = {}
  /\ pc = [v \in VMs |-> "idle"]
  /\ req = [v \in VMs |-> CHOOSE r \in Requests : TRUE]
  /\ re = [v \in VMs |-> NullRe]
  /\ created = [v \in VMs |-> FALSE]
  /\ isNew = [v \in VMs |-> FALSE]
  /\ made = [v \in VMs |-> 0]
  /\ deleted = FALSE

Goto(v, l)   == pc' = [pc EXCEPT ![v] = l]
Key(v)       == KeyOf(req[v])
Entries      == {k \in Keys : table[k] # NoEntry}
numEntries   == Cardinality(Entries)

-----------------------------------------------------------------------------
(* A script calls ts.re.match.                                             *)
Call(v, r) ==
  /\ pc[v] = "idle" /\ ~deleted
  /\ made[v] < MaxMatches
  /\ made' = [made EXCEPT ![v] = @ + 1]
  /\ req' = [req EXCEPT ![v] = r]
  /\ created' = [created EXCEPT ![v] = FALSE]
  /\ isNew' = [isNew EXCEPT ![v] = FALSE]
  /\ Goto(v, "lookup")
  /\ UNCHANGED <<table, lock, live, re, deleted>>

(* The lookup, which takes no lock, finds an entry, filled or not.         *)
Hit(v) ==
  /\ pc[v] = "lookup"
  /\ table[Key(v)] # NoEntry
  /\ re' = [re EXCEPT ![v] = table[Key(v)]]
  /\ Goto(v, "exec")
  /\ UNCHANGED <<table, lock, live, req, created, isNew, made, deleted>>

(* It finds none.  While another VM is in Tcl_CreateHashEntry, which may   *)
(* move all entries to a larger table, it may also miss one that is there. *)
Miss(v) ==
  /\ pc[v] = "lookup"
  /\ table[Key(v)] = NoEntry \/ \E u \in VMs : pc[u] = "insert"
  /\ Goto(v, "compile")
  /\ UNCHANGED <<table, lock, live, req, re, created, isNew, made, deleted>>

(* pcre_compile fails: luaL_error leaves the function.                     *)
CompileFails(v) ==
  /\ pc[v] = "compile"
  /\ req[v] \in Invalid
  /\ Goto(v, "idle")
  /\ UNCHANGED <<table, lock, live, req, re, created, isNew, made, deleted>>

(* Mutant: no limit to the number of resident regexes.                     *)
RoomAlways == TRUE

Room == numEntries < Capacity

(* It succeeds, and the size of the map, read without the mutex, decides   *)
(* whether the regex is to be resident.                                    *)
Compile(v) ==
  /\ pc[v] = "compile"
  /\ req[v] \notin Invalid
  /\ LET x == [vm |-> v, n |-> made[v], of |-> req[v]]
     IN  /\ re' = [re EXCEPT ![v] = x]
         /\ live' = live \cup {x}
  /\ created' = [created EXCEPT ![v] = TRUE]
  /\ Goto(v, IF Room THEN "lock" ELSE "exec")
  /\ UNCHANGED <<table, lock, req, isNew, made, deleted>>

TakeLock(v) ==
  /\ pc[v] = "lock"
  /\ lock = NoVM
  /\ lock' = v
  /\ Goto(v, "insert")
  /\ UNCHANGED <<table, live, req, re, created, isNew, made, deleted>>

(* Tcl_CreateHashEntry makes an entry, still without a value ...           *)
Insert(v) ==
  /\ pc[v] = "insert"
  /\ table[Key(v)] = NoEntry
  /\ table' = [table EXCEPT ![Key(v)] = NullRe]
  /\ isNew' = [isNew EXCEPT ![v] = TRUE]
  /\ Goto(v, "fill")
  /\ UNCHANGED <<lock, live, req, re, created, made, deleted>>

(* ... or finds the one that another VM has made since the lookup.         *)
Found(v) ==
  /\ pc[v] = "insert"
  /\ table[Key(v)] # NoEntry
  /\ Goto(v, "unlock")
  /\ UNCHANGED <<table, lock, live, req, re, created, isNew, made, deleted>>

(* Tcl_SetHashValue.                                                       *)
Fill(v) ==
  /\ pc[v] = "fill"
  /\ table' = [table EXCEPT ![Key(v)] = re[v]]
  /\ Goto(v, "unlock")
  /\ UNCHANGED <<lock, live, req, re, created, isNew, made, deleted>>

Unlock(v) ==
  /\ pc[v] = "unlock"
  /\ lock' = NoVM
  /\ Goto(v, "exec")
  /\ UNCHANGED <<table, live, req, re, created, isNew, made, deleted>>

(* Mutant: whoever compiled a regex frees it.                              *)
FreesCreated(v) == created[v]

Frees(v) == created[v] /\ ~isNew[v]

(* pcre_exec, after which a regex that is not resident is freed.           *)
Exec(v) ==
  /\ pc[v] = "exec"
  /\ live' = IF Frees(v) THEN live \ {re[v]} ELSE live
  /\ re' = [re EXCEPT ![v] = NullRe]
  /\ created' = [created EXCEPT ![v] = FALSE]
  /\ isNew' = [isNew EXCEPT ![v] = FALSE]
  /\ Goto(v, "idle")
  /\ UNCHANGED <<table, lock, req, made, deleted>>

(* TSRemapDeleteInstance, once no transaction uses the instance: the       *)
(* resident regexes are freed, then the map.                               *)
Delete ==
  /\ ~deleted
  /\ \A v \in VMs : pc[v] = "idle"
  /\ live' = live \ {table[k] : k \in Keys}
  /\ table' = [k \in Keys |-> NoEntry]
  /\ deleted' = TRUE
  /\ UNCHANGED <<lock, pc, req, re, created, isNew, made>>

Match(v) ==
  \/ Hit(v) \/ Miss(v) \/ CompileFails(v) \/ Compile(v)
  \/ TakeLock(v) \/ Insert(v) \/ Found(v) \/ Fill(v) \/ Unlock(v) \/ Exec(v)

Next ==
  \/ \E v \in VMs : Match(v) \/ \E r \in Requests : Call(v, r)
  \/ Delete

Spec == Init /\ [][Next]_vars

-----------------------------------------------------------------------------
(* Properties.                                                             *)

Cached(x)  == \E k \in Keys : table[k] = x
Owns(v, x) == created[v] /\ re[v] = x /\ (isNew[v] => pc[v] = "fill")

(* A regex that is run is not freed, and every regex that is not freed has *)
(* one that will free it: the map, or the one VM that compiled it.  Two    *)
(* VMs that compile the same pattern neither free nor keep both.           *)
OwnedOnce ==
  /\ \A v \in VMs : pc[v] = "exec" /\ re[v] # NullRe => re[v] \in live
  /\ \A x \in live : Cached(x) \/ \E v \in VMs : Owns(v, x)
  /\ \A x \in live, v \in VMs : Owns(v, x) => ~Cached(x)

(* The regex a match runs was compiled from arguments that read the same,  *)
(* pattern and options in a row, and never from those of another VM's call *)
(* that was under way.  pcre_exec fails on an entry without value, and the *)
(* match answers nil: there is one only while its maker holds the mutex.   *)
Reads(r) == Cut(IF r.n = 3 THEN r.pat \o r.opt ELSE r.pat)
RightRegex ==
  /\ \A v \in VMs :
       pc[v] = "exec" /\ re[v] # NullRe => Reads(re[v].of) = Reads(req[v])
  /\ \A k \in Keys : table[k] = NullRe =>
       \E v \in VMs : lock = v /\ pc[v] = "fill" /\ Key(v) = k

(* The map exceeds its capacity by at most one entry for each VM that read *)
(* its size before the last free place was taken, itself included.         *)
CapacityOvershoot == numEntries <= Capacity + Cardinality(VMs) - 1

(* The inductive invariant behind the first two.                           *)
HolderInside == \A v \in VMs :
  lock = v <=> pc[v] \in {"insert", "fill", "unlock"}

Locals == \A v \in VMs :
  /\ pc[v] \in {"idle", "lookup", "compile"} => ~created[v]
  /\ pc[v] \in {"lock", "insert", "fill", "unlock"} => created[v]
  /\ pc[v] = "fill" => isNew[v]
  /\ pc[v] \in {"lock", "insert"} \/ ~created[v] => ~isNew[v]

(* A regex in hand is the VM's own or the one of the entry found, and the  *)
(* name of the next one is new.                                            *)
InHand == \A v \in VMs :
  /\ created[v] => /\ re[v] \in live
                   /\ re[v].vm = v /\ re[v].n = made[v] /\ re[v].of = req[v]
  /\ created[v] /\ isNew[v] /\ pc[v] # "fill" => table[Key(v)] = re[v]
  /\ created[v] /\ (isNew[v] => pc[v] = "fill") => \A k \in Keys : table[k] # re[v]
  /\ pc[v] = "exec" /\ ~created[v] => re[v] = NullRe \/ table[Key(v)] = re[v]
  /\ pc[v] \in {"lookup", "compile"} => \A x \in live : x.vm = v => x.n < made[v]

InMap == \A k \in Keys :
  /\ table[k] \in Regexes => table[k] \in live /\ KeyOf(table[k].of) = k
  /\ table[k] = NullRe <=> \E v \in VMs : pc[v] = "fill" /\ Key(v) = k

Known == \A x \in live :
  /\ x.n <= made[x.vm]
  /\ Cached(x) \/ \E v \in VMs : Owns(v, x)

CacheInv == HolderInside /\ Locals /\ InHand /\ InMap /\ Known

(* And the one behind the third: every VM between its reading of the size  *)
(* and its insertion is one entry in advance.                              *)
Pending == {v \in VMs : pc[v] \in {"lock", "insert"}}
SizeInv == /\ IsFiniteSet(Entries)
           /\ numEntries + Cardinality(Pending) <= Capacity + Cardinality(VMs) - 1

=============================================================================
