------------------------------ MODULE Loading ------------------------------
(***************************************************************************)
(* Instances of the plugin: TSRemapNewInstance runs a script in every Lua  *)
(* VM, one after the other, TSRemapDeleteInstance forgets it in all of     *)
(* them.                                                                   *)
(*                                                                         *)
(* While it is loaded a script extends the search paths of the VM, which   *)
(* belong to the VM, with the help of one list for all VMs (g_path) that   *)
(* is extended in the last VM only; and it creates shared dictionaries,    *)
(* which belong to the instance.  It may do the same in its __clean__,     *)
(* which is called in each VM when the instance is deleted.  Traffic       *)
(* Server loads or deletes one instance at a time.                         *)
(*                                                                         *)
(* A script makes the same calls in every VM.  Any of them may fail, and   *)
(* the script may catch the error of a call and go on with the next.  An   *)
(* entry of a path counts as one; what a path holds from the start is left *)
(* out.  All these calls look the instance up in the globals of the        *)
(* running thread, where it is while a script is loaded and in __clean__:  *)
(* a hook that extends a path raises an error, one that asks for a         *)
(* dictionary stops the process, and neither is modelled.                  *)
(***************************************************************************)
EXTENDS Integers, FiniteSets, SequencesExt

CONSTANTS
  N,         \* TS_LUA_MAX_STATE_COUNT
  Confs,     \* addresses of instances
  NoConf,
  Entries,   \* entries of package.path and package.cpath
  Names,     \* names of dictionaries
  Scripts,   \* [main, init, clean: calls, the last two of __init__ and __clean__,
             \*  remap: has it do_remap?]
  NoScript,
  MaxNum,    \* TS_LUA_MAX_PACKAGE_NUM
  MaxPath,   \* entries that fit in new_path
  Copied,    \* entries that snprintf copies there, at most
  Garbage,   \* what is there instead of the others, from a NUL on
  MaxDicts   \* TS_LUA_MAX_SHARED_DICT_COUNT

VMs   == 1 .. N
Kinds == {"path", "cpath"}

ASSUME LoadingAssumption ==
  /\ N \in Nat \ {0} /\ MaxNum \in Nat /\ MaxDicts \in Nat
  /\ MaxPath \in Nat /\ Copied \in 0 .. MaxPath /\ Garbage \notin Entries
  /\ NoConf \notin Confs /\ NoScript \notin Scripts
  /\ IsFiniteSet(Confs)
  /\ \A s \in Scripts :
       /\ s.remap \in BOOLEAN
       /\ s.main \in Seq(ToSet(s.main)) /\ s.init \in Seq(ToSet(s.init))
       /\ s.clean \in Seq(ToSet(s.clean))
       /\ \A call \in ToSet(s.main) \cup ToSet(s.init) \cup ToSet(s.clean) :
            \/ call.op \in Kinds /\ call.entries \in Seq(Entries)
            \/ call.op \in {"DICT", "dictInit"} /\ call.name \in Names

VARIABLES
  status,      \* of an instance: "free", "loading", "served", "deleting", "failed"
  script,      \* its script
  dicts,       \* conf->shdict: the names, in order of creation
  initialized, \* names whose dictionary is initialized
  runs,        \* how often the function given to init has succeeded
  handle,      \* handle[c][v][n]: the dictionary that VM v knows by the name n, or 0
  registered,  \* the instances in the registry of a VM
  path,        \* package.path and package.cpath of a VM
  known,       \* g_path and g_cpath
  overfull,    \* history: <<v, k>> where a path was too long, and not extended or cut
  uneven,      \* history: entries recorded by a __clean__, or skipped by a script
  depth,       \* how often the loading thread holds the lock of a VM
  pc, cur, vm, \* what the thread does: for which instance, in which VM
  todo         \* the calls that the script has still to make

confVars == <<status, script, dicts, initialized, runs, handle>>
pathVars == <<path, known, overfull, uneven>>
here     == <<pc, cur, vm, todo>>
vars     == <<confVars, registered, pathVars, depth, here>>

ScriptCalls == UNION {ToSet(s.main) \cup ToSet(s.init) \cup ToSet(s.clean) : s \in Scripts}

LoadTypes ==
  /\ status \in [Confs -> {"free", "loading", "served", "deleting", "failed"}]
  /\ script \in [Confs -> Scripts \cup {NoScript}]
  /\ dicts \in [Confs -> Seq(Names)]
  /\ \A c \in Confs : Len(dicts[c]) <= MaxDicts
  /\ initialized \in [Confs -> SUBSET Names]
  /\ runs \in [Confs -> [Names -> Nat]]
  /\ handle \in [Confs -> [VMs -> [Names -> 0 .. MaxDicts]]]
  /\ registered \in [VMs -> SUBSET Confs]
  /\ depth \in [VMs -> Nat]
  /\ pc \in {"idle", "lock", "main", "init", "delete", "clean"}
  /\ cur \in Confs \cup {NoConf} /\ vm \in VMs
  /\ todo \in Seq(ScriptCalls)

PathTypes ==
  /\ path \in [VMs -> [Kinds -> Seq(Entries \cup {Garbage})]]
  /\ \A v \in VMs, k \in Kinds : \A i \in DOMAIN path[v][k] :
       i <= Copied => path[v][k][i] # Garbage
  /\ known \in [Kinds -> Seq(Entries)]
  /\ \A k \in Kinds : Len(known[k]) <= MaxNum
  /\ overfull \subseteq VMs \X Kinds
  /\ uneven \in [Kinds -> SUBSET Entries]

TypeOK == LoadTypes /\ PathTypes

Unused(c) ==
  /\ script[c] = NoScript /\ dicts[c] = <<>> /\ initialized[c] = {}
  /\ runs[c] = [n \in Names |-> 0]
  /\ handle[c] = [v \in VMs |-> [n \in Names |-> 0]]

(* After TSRemapInit.                                                      *)
Init ==
  /\ status = [c \in Confs |-> "free"]
  /\ script = [c \in Confs |-> NoScript]
  /\ dicts = [c \in Confs |-> <<>>]
  /\ initialized = [c \in Confs |-> {}]
  /\ runs = [c \in Confs |-> [n \in Names |-> 0]]
  /\ handle = [c \in Confs |-> [v \in VMs |-> [n \in Names |-> 0]]]
  /\ registered = [v \in VMs |-> {}]
  /\ path = [v \in VMs |-> [k \in Kinds |-> <<>>]]
  /\ known = [k \in Kinds |-> <<>>]
  /\ overfull = {} /\ uneven = [k \in Kinds |-> {}]
  /\ depth = [v \in VMs |-> 0]
  /\ pc = "idle" /\ cur = NoConf /\ vm = 1 /\ todo = <<>>

Idle == pc' = "idle" /\ cur' = NoConf /\ vm' = 1 /\ todo' = <<>>

-----------------------------------------------------------------------------
(* TSRemapNewInstance.                                                     *)
NewInstance(c, s) ==
  /\ pc = "idle" /\ status[c] = "free"
  /\ status' = [status EXCEPT ![c] = "loading"]
  /\ script' = [script EXCEPT ![c] = s]
  /\ pc' = "lock" /\ cur' = c /\ vm' = 1
  /\ UNCHANGED <<dicts, initialized, runs, handle, registered, pathVars, depth, todo>>

(* One round of the loop of ts_lua_add_module begins.                      *)
LockVM ==
  /\ pc = "lock"
  /\ depth' = [depth EXCEPT ![vm] = @ + 1]
  /\ pc' = "main"
  /\ todo' = script[cur].main
  /\ UNCHANGED <<confVars, registered, pathVars, cur, vm>>

Unlock == depth' = [depth EXCEPT ![vm] = @ - 1]

(* An instance that fails to load is not freed.                            *)
GiveUp ==
  /\ status' = [status EXCEPT ![cur] = "failed"]
  /\ Idle
  /\ UNCHANGED <<script, dicts, initialized, runs, handle, registered, pathVars>>

(* An error that the script does not catch ends the load.  One in          *)
(* __clean__ ends the function, and is logged.                             *)
Fails ==
  \/ /\ pc \in {"main", "init"}
     /\ GiveUp
     /\ Unlock
  \/ /\ pc = "clean" /\ todo' = <<>>
     /\ UNCHANGED <<confVars, registered, pathVars, depth, pc, cur, vm>>

(* Mutant: the lock is kept when __init__ fails.                           *)
RaiseLocked ==
  /\ pc \in {"main", "init"}
  /\ GiveUp
  /\ IF pc = "main" THEN Unlock ELSE UNCHANGED depth

(* The script cannot be loaded, raises an error, or its __init__ returns   *)
(* something else than zero.                                               *)
Raise == Fails

(* Without do_remap the lock of the VM is kept.                            *)
MainEnds ==
  /\ pc = "main" /\ todo = <<>>
  /\ IF script[cur].remap
     THEN /\ pc' = "init"
          /\ todo' = script[cur].init
          /\ UNCHANGED <<confVars, registered, pathVars, cur, vm>>
     ELSE GiveUp
  /\ UNCHANGED depth

Register ==
  /\ pc = "init" /\ todo = <<>>
  /\ registered' = [registered EXCEPT ![vm] = @ \cup {cur}]
  /\ Unlock
  /\ IF vm = N
     THEN status' = [status EXCEPT ![cur] = "served"] /\ Idle
     ELSE /\ pc' = "lock" /\ vm' = vm + 1
          /\ UNCHANGED <<status, cur, todo>>
  /\ UNCHANGED <<script, dicts, initialized, runs, handle, pathVars>>

-----------------------------------------------------------------------------
(* What the script calls.                                                  *)
Locked     == pc \in {"main", "init", "clean"}
Calls(ops) == Locked /\ todo # <<>> /\ Head(todo).op \in ops
Goes       == todo' = Tail(todo) /\ UNCHANGED <<pc, cur, vm>>

(* The script catches the error of a call that has changed nothing.        *)
Caught == Goes /\ UNCHANGED <<confVars, registered, pathVars, depth>>

(* Mutant: new entries are recorded in the first VM.                       *)
RecordsFirst == vm = 1

(* conf->_last, which keeps the value of the last round of the load.       *)
Records == vm = N \/ pc = "clean"

(* Those of the entries that are not in the list.                          *)
Unknown(entries, list) ==
  FlattenSeq([i \in DOMAIN entries |->
                IF entries[i] \in ToSet(list) THEN <<>> ELSE <<entries[i]>>])

(* The old path as snprintf prints it: at most Copied entries and a NUL,   *)
(* but the length counts all of them, and the bytes behind the NUL are     *)
(* taken for the others.  A path with such a NUL is read up to it.         *)
Printed(p) ==
  IF Garbage \in ToSet(p)
  THEN SubSeq(p, 1, Copied)
  ELSE [i \in DOMAIN p |-> IF i <= Copied THEN p[i] ELSE Garbage]

(* The new entries are added to the path of the VM, unless it gets too     *)
(* long, which is only logged.                                             *)
Extend(k, new) ==
  LET old   == Printed(path[vm][k])
      long  == Len(old) + Len(new) > MaxPath
  IN
  IF new = <<>>
  THEN UNCHANGED <<path, overfull>>
  ELSE /\ path' = IF long THEN path ELSE [path EXCEPT ![vm][k] = old \o new]
       /\ overfull' = IF long \/ old # path[vm][k] THEN overfull \cup {<<vm, k>>} ELSE overfull

Note(k, new) == uneven' = [uneven EXCEPT ![k] = @ \cup ToSet(new)]

(* ts.add_package_path and ts.add_package_cpath.                           *)
AddPath == Calls(Kinds) /\
  LET k   == Head(todo).op
      new == Unknown(Head(todo).entries, known[k])
  IN
  IF Len(known[k]) + Len(new) > MaxNum
  THEN \/ Fails
       \/ Goes /\ Note(k, new) /\ UNCHANGED <<confVars, registered, path, known, overfull, depth>>
  ELSE /\ Extend(k, new)
       /\ known' = IF Records THEN [known EXCEPT ![k] = @ \o new] ELSE known
       /\ IF pc = "clean" THEN Note(k, new) ELSE UNCHANGED uneven
       /\ Goes
       /\ UNCHANGED <<confVars, registered, depth>>

(* ts.shared.DICT finds a dictionary by its name or creates it.            *)
Dict == Calls({"DICT"}) /\
  LET n     == Head(todo).name
      found == {i \in DOMAIN dicts[cur] : dicts[cur][i] = n}
      more  == Append(dicts[cur], n)
      Know(i) == handle' = [handle EXCEPT ![cur][vm][n] = i]
  IN
  IF found = {} /\ Len(dicts[cur]) >= MaxDicts
  THEN Fails \/ Caught
  ELSE /\ IF found = {}
          THEN dicts' = [dicts EXCEPT ![cur] = more] /\ Know(Len(more))
          ELSE (\E i \in found : (\A j \in found : i <= j) /\ Know(i)) /\ UNCHANGED dicts
       /\ Goes
       /\ UNCHANGED <<status, script, initialized, runs, registered, pathVars, depth>>

(* Mutant: that a dictionary is initialized is not remembered.             *)
Forgotten(n) == initialized[cur]

Remembered(n) == initialized[cur] \cup {n}

(* init(func) of a dictionary runs the function, unless one has succeeded. *)
DictInit == Calls({"dictInit"}) /\
  LET n == Head(todo).name IN
  /\ handle[cur][vm][n] # 0
  /\ IF n \in initialized[cur]
     THEN UNCHANGED <<initialized, runs>>
     ELSE /\ initialized' = [initialized EXCEPT ![cur] = Remembered(n)]
          /\ runs' = [runs EXCEPT ![cur][n] = @ + 1]
  /\ Goes
  /\ UNCHANGED <<status, script, dicts, handle, registered, pathVars, depth>>

(* It fails where the function fails, or DICT has failed; a script that    *)
(* does not catch this fails itself.                                       *)
DictInitFails == Calls({"dictInit"}) /\
  LET n == Head(todo).name IN
  /\ handle[cur][vm][n] = 0 \/ n \notin initialized[cur]
  /\ Fails \/ Caught

-----------------------------------------------------------------------------
(* TSRemapDeleteInstance.                                                  *)
Delete(c) ==
  /\ pc = "idle" /\ status[c] = "served"
  /\ status' = [status EXCEPT ![c] = "deleting"]
  /\ pc' = "delete" /\ cur' = c /\ vm' = 1
  /\ UNCHANGED <<script, dicts, initialized, runs, handle, registered, pathVars, depth, todo>>

(* Mutant: the registry still has the instance.                            *)
LeftIn(v) == registered[v]

RemovedFrom(v) == registered[v] \ {cur}

(* One round of ts_lua_del_module begins.                                  *)
CleanVM ==
  /\ pc = "delete"
  /\ depth' = [depth EXCEPT ![vm] = @ + 1]
  /\ pc' = "clean"
  /\ todo' = script[cur].clean
  /\ UNCHANGED <<confVars, registered, pathVars, cur, vm>>

(* __clean__ is over.  After the last round, ts_lua_del_instance.          *)
Unregister ==
  /\ pc = "clean" /\ todo = <<>>
  /\ registered' = [registered EXCEPT ![vm] = RemovedFrom(vm)]
  /\ Unlock
  /\ IF vm < N
     THEN vm' = vm + 1 /\ pc' = "delete" /\ UNCHANGED <<confVars, cur, todo>>
     ELSE /\ status' = [status EXCEPT ![cur] = "free"]
          /\ script' = [script EXCEPT ![cur] = NoScript]
          /\ dicts' = [dicts EXCEPT ![cur] = <<>>]
          /\ initialized' = [initialized EXCEPT ![cur] = {}]
          /\ runs' = [runs EXCEPT ![cur] = [n \in Names |-> 0]]
          /\ handle' = [handle EXCEPT ![cur] = [v \in VMs |-> [n \in Names |-> 0]]]
          /\ Idle
  /\ UNCHANGED pathVars

-----------------------------------------------------------------------------
Load   == LockVM \/ Raise \/ MainEnds \/ Register
Called == AddPath \/ Dict \/ DictInit \/ DictInitFails

Next ==
  \/ Load \/ Called \/ CleanVM \/ Unregister
  \/ \E c \in Confs : Delete(c) \/ \E s \in Scripts : NewInstance(c, s)

Spec == Init /\ [][Next]_vars

-----------------------------------------------------------------------------
(* Properties.                                                             *)

(* A script that finds an entry in the list for all VMs does not add it:   *)
(* it must be in the path of every VM, whatever was loaded, failed half    *)
(* way and was deleted before.  That is not so where a path was too long,  *)
(* of an entry that a __clean__ has recorded (the first VM alone has it),  *)
(* and of one that a script has skipped, going on after an error.          *)
KnownEverywhere == \A k \in Kinds, v \in VMs :
  <<v, k>> \notin overfull => ToSet(known[k]) \ uneven[k] \subseteq ToSet(path[v][k])

(* An instance is served when it is in the registry of every VM, and its   *)
(* address is used again when it is in none.                               *)
AllOrNothing == \A c \in Confs, v \in VMs :
  /\ status[c] = "served" => c \in registered[v]
  /\ status[c] = "free" => c \notin registered[v]

(* The VMs of an instance share one dictionary for each name, and its init *)
(* function succeeds in one of them only.                                  *)
DictsShared == \A c \in Confs :
  /\ IsInjective(dicts[c])
  /\ \A v \in VMs, n \in Names :
       /\ handle[c][v][n] # 0 => dicts[c][handle[c][v][n]] = n
       /\ status[c] = "served" => handle[c][v][n] = handle[c][1][n]
  /\ \A n \in Names : runs[c][n] = (IF n \in initialized[c] THEN 1 ELSE 0)

(* The instances whose loading may have left a lock taken.                 *)
Locking == {c \in Confs : status[c] = "failed" /\ ~script[c].remap}

(* Between loads the locks are free, but for that of the first VM after a  *)
(* script without do_remap: it is held for ever.                           *)
LocksLeft ==
  pc = "idle" =>
    /\ \A v \in VMs \ {1} : depth[v] = 0
    /\ depth[1] <= Cardinality(Locking)

(* The inductive invariant behind AllOrNothing, LocksLeft and DictsShared: *)
(* where the thread is, ...                                                *)
Loading == pc \in {"lock", "main", "init"}
Inside  == pc \in {"main", "init"}

Deleting == pc \in {"delete", "clean"}

Stages ==
  /\ Loading => cur \in Confs /\ status[cur] = "loading"
  /\ Deleting => cur \in Confs /\ status[cur] = "deleting"
  /\ pc = "idle" => vm = 1 /\ cur = NoConf
  /\ \A c \in Confs : status[c] \in {"loading", "deleting"} => c = cur
  /\ \A c \in Confs : status[c] # "free" => script[c] \in Scripts
  /\ Loading /\ (pc = "init" \/ vm > 1) => script[cur].remap

(* ... which VMs know the instance, ...                                    *)
InRegistry == \A c \in Confs, v \in VMs :
  /\ status[c] = "served" => c \in registered[v]
  /\ status[c] = "free" => c \notin registered[v]
  /\ status[c] = "loading" => (c \in registered[v] <=> v < vm)
  /\ status[c] = "deleting" /\ v < vm => c \notin registered[v]

(* ... which lock it holds, ...                                            *)
Holds(v) == IF Locked /\ vm = v THEN 1 ELSE 0
LocksHeld ==
  /\ \A v \in VMs \ {1} : depth[v] = Holds(v)
  /\ depth[1] <= Cardinality(Locking) + Holds(1)
  /\ Locked => depth[vm] > 0

(* ... and which dictionaries a VM has asked for and has still to ask for, *)
(* or will not get as there are too many.                                  *)
DictsIn(s)    == {s[i].name : i \in {j \in DOMAIN s : s[j].op = "DICT"}}
DictsOf(c)    == DictsIn(script[c].main) \cup DictsIn(script[c].init)
ToAsk         == DictsIn(todo) \cup (IF pc = "main" THEN DictsIn(script[cur].init) ELSE {})
Got(c, v, n)  == handle[c][v][n] # 0
Refused(c, n) == Len(dicts[c]) >= MaxDicts /\ n \notin ToSet(dicts[c])
Gets(c, n)    == n \in DictsOf(c) /\ ~Refused(c, n)

Asked == \A c \in Confs, v \in VMs, n \in Names :
  /\ status[c] = "free" => ~Got(c, v, n)
  /\ status[c] = "served" => (Got(c, v, n) <=> Gets(c, n))
  /\ status[c] = "loading" /\ v < vm => (Got(c, v, n) <=> Gets(c, n))
  /\ status[c] = "loading" /\ (v > vm \/ (v = vm /\ pc = "lock")) => ~Got(c, v, n)
  /\ c = cur /\ v = vm /\ Inside =>
       /\ Got(c, v, n) => n \in DictsOf(c)
       /\ n \in DictsOf(c) => Got(c, v, n) \/ n \in ToAsk \/ Refused(c, n)

ToAskOf == Inside => ToAsk \subseteq DictsOf(cur)

Handles == \A c \in Confs :
  /\ IsInjective(dicts[c])
  /\ \A v \in VMs, n \in Names : Got(c, v, n) =>
       handle[c][v][n] \in DOMAIN dicts[c] /\ dicts[c][handle[c][v][n]] = n
  /\ \A n \in Names : runs[c][n] = (IF n \in initialized[c] THEN 1 ELSE 0)
  /\ status[c] = "free" => dicts[c] = <<>>

(* The inductive invariant behind KnownEverywhere: a VM that the load has  *)
(* left has all entries of the script, the one it is in has those that are *)
(* not still to be added.  (Of the entries that are uneven it says nothing,*)
(* nor of a path that is overfull.)                                        *)
EntriesIn(s, k)  == UNION {ToSet(s[i].entries) : i \in {j \in DOMAIN s : s[j].op = k}}
EntriesOf(c, k)  == EntriesIn(script[c].main, k) \cup EntriesIn(script[c].init, k)
ToAdd(k)         ==
  EntriesIn(todo, k) \cup (IF pc = "main" THEN EntriesIn(script[cur].init, k) ELSE {})
PathHas(v, k, E) == E \ uneven[k] \subseteq ToSet(path[v][k])

PathsGrow == \A k \in Kinds :
  /\ Inside => ToAdd(k) \subseteq EntriesOf(cur, k)
  /\ \A v \in VMs : <<v, k>> \notin overfull =>
       /\ PathHas(v, k, ToSet(known[k]))
       /\ Loading /\ v < vm => PathHas(v, k, EntriesOf(cur, k))
       /\ Inside /\ v = vm => PathHas(v, k, EntriesOf(cur, k) \ ToAdd(k))

LoadInv == LoadTypes /\ Stages /\ InRegistry /\ LocksHeld /\ Asked /\ ToAskOf /\ Handles
=============================================================================
