-------------------------- MODULE Loading_proofs --------------------------
(***************************************************************************)
(* Theorems about Loading, for every number of VMs, instances and scripts: *)
(* what the VMs know of an instance, which locks a load leaves taken, that *)
(* the VMs share its dictionaries, and what the list of all entries of the *)
(* search paths says of the path of each VM.                               *)
(***************************************************************************)
EXTENDS Loading, FiniteSetTheorems, SequenceTheorems, TLAPS

LEMMA ScriptsTyped ==
  /\ N \in Nat \ {0} /\ MaxDicts \in Nat /\ NoConf \notin Confs /\ NoScript \notin Scripts
  /\ \A s \in Scripts : s.remap \in BOOLEAN
  /\ \A s \in Scripts : /\ s.main \in Seq(ScriptCalls) /\ s.init \in Seq(ScriptCalls)
                        /\ s.clean \in Seq(ScriptCalls)
<1>1. ASSUME NEW s \in Scripts
      PROVE  /\ s.main \in Seq(ScriptCalls) /\ s.init \in Seq(ScriptCalls)
             /\ s.clean \in Seq(ScriptCalls)
  <2>1. /\ ToSet(s.main) \subseteq ScriptCalls /\ ToSet(s.init) \subseteq ScriptCalls
        /\ ToSet(s.clean) \subseteq ScriptCalls
    BY DEF ScriptCalls
  <2>2. /\ s.main \in Seq(ToSet(s.main)) /\ s.init \in Seq(ToSet(s.init))
        /\ s.clean \in Seq(ToSet(s.clean))
    BY LoadingAssumption DEF LoadingAssumption
  <2> QED
    BY <2>1, <2>2
<1> QED
  BY <1>1, LoadingAssumption DEF LoadingAssumption

LEMMA CallsTyped == \A call \in ScriptCalls :
  \/ call.op \in Kinds /\ call.entries \in Seq(Entries)
  \/ call.op \in {"DICT", "dictInit"} /\ call.name \in Names
  BY LoadingAssumption DEF LoadingAssumption, ScriptCalls

LEMMA Places == 1 \in VMs /\ \A v \in VMs : v \in Nat /\ 1 <= v /\ v <= N /\ (v # N => v + 1 \in VMs)
  BY ScriptsTyped DEF VMs

(* The call at the head of what is to do, and the rest.                    *)
LEMMA ToDo ==
  ASSUME LoadTypes, todo # <<>>
  PROVE  Head(todo) \in ScriptCalls /\ Tail(todo) \in Seq(ScriptCalls)
  BY HeadTailProperties DEF LoadTypes

-----------------------------------------------------------------------------
(* How a call of the script ends: the load is given up, __clean__ breaks   *)
(* off, the script goes on with nothing but a path changed (after a DICT,  *)
(* because there are too many dictionaries), ...                           *)
Quits  == Inside /\ GiveUp /\ Unlock
Broken ==
  /\ pc = "clean" /\ todo' = <<>>
  /\ UNCHANGED <<confVars, registered, pathVars, depth, pc, cur, vm>>
GoesOn ==
  /\ Locked /\ todo # <<>> /\ Goes
  /\ UNCHANGED <<confVars, registered, depth>>
  /\ IF Head(todo).op \in Kinds THEN AddPath ELSE UNCHANGED pathVars
  /\ Head(todo).op = "DICT" => Refused(cur, Head(todo).name)

(* ... or it knows a dictionary, new or not.                               *)
Finds(n, i) ==
  /\ Locked /\ cur \in Confs /\ todo # <<>> /\ i # 0
  /\ Head(todo).op = "DICT" /\ Head(todo).name = n /\ Goes
  /\ UNCHANGED <<status, script, initialized, runs, registered, pathVars, depth>>
  /\ handle' = [handle EXCEPT ![cur][vm][n] = i]
  /\ \/ UNCHANGED dicts /\ i \in DOMAIN dicts[cur] /\ dicts[cur][i] = n
     \/ /\ dicts' = [dicts EXCEPT ![cur] = Append(@, n)]
        /\ i = Len(dicts[cur]) + 1
        /\ \A k \in DOMAIN dicts[cur] : dicts[cur][k] # n

LEMMA FailsHow == Fails => Quits \/ Broken
  BY DEF Fails, Quits, Broken, Inside

LEMMA AddPathEnds == AddPath => Quits \/ Broken \/ GoesOn
<1> SUFFICES ASSUME AddPath, ~Fails PROVE GoesOn
  BY FailsHow
<1>1. Locked /\ todo # <<>> /\ Head(todo).op \in Kinds
  BY DEF AddPath, Calls
<1>2. Goes /\ UNCHANGED <<confVars, registered, depth>>
  BY DEF AddPath
<1>3. Head(todo).op # "DICT"
  BY <1>1 DEF Kinds
<1> QED
  BY <1>1, <1>2, <1>3 DEF GoesOn

LEMMA DictEnds ==
  ASSUME LoadTypes, Stages, Dict
  PROVE  Quits \/ Broken \/ GoesOn \/ \E n \in Names, i \in 1 .. MaxDicts : Finds(n, i)
<1> DEFINE n == Head(todo).name
           more == Append(dicts[cur], n)
           found == {i \in DOMAIN dicts[cur] : dicts[cur][i] = n}
           Know(i) == handle' = [handle EXCEPT ![cur][vm][n] = i]
<1>1. /\ Locked /\ cur \in Confs /\ todo # <<>> /\ Head(todo).op = "DICT"
      /\ Head(todo) \in ScriptCalls
  BY ToDo DEF Dict, Calls, Locked, Stages, Loading, Deleting
<1>2. n \in Names
  BY <1>1, CallsTyped DEF Kinds
<1>3. /\ dicts[cur] \in Seq(Names) /\ Len(dicts[cur]) \in Nat /\ Len(dicts[cur]) <= MaxDicts
      /\ MaxDicts \in Nat /\ DOMAIN dicts[cur] = 1 .. Len(dicts[cur])
  BY <1>1, ScriptsTyped DEF LoadTypes
<1>4. CASE found = {} /\ Len(dicts[cur]) >= MaxDicts
  <2>1. Fails \/ Caught
    BY <1>4 DEF Dict
  <2>2. Refused(cur, n)
    <3>1. n \notin ToSet(dicts[cur])
      BY <1>4 DEF ToSet
    <3> QED
      BY <1>4, <3>1 DEF Refused
  <2>3. CASE Caught
    BY <1>1, <2>2, <2>3 DEF Caught, GoesOn, Kinds
  <2> QED
    BY <2>1, <2>3, FailsHow
<1>5. CASE ~(found = {} /\ Len(dicts[cur]) >= MaxDicts)
  <2>1. Goes /\ UNCHANGED <<status, script, initialized, runs, registered, pathVars, depth>>
    BY <1>5 DEF Dict
  <2>2. CASE found = {}
    <3>1. dicts' = [dicts EXCEPT ![cur] = more] /\ Know(Len(more))
      BY <1>5, <2>2 DEF Dict
    <3>2. Len(more) = Len(dicts[cur]) + 1 /\ Len(more) \in 1 .. MaxDicts /\ Len(more) # 0
      BY <1>2, <1>3, <1>5, <2>2
    <3>3. \A k \in DOMAIN dicts[cur] : dicts[cur][k] # n
      BY <2>2
    <3>4. Finds(n, Len(more))
      BY <1>1, <2>1, <3>1, <3>2, <3>3 DEF Finds
    <3> HIDE DEF more
    <3> QED
      BY <1>2, <3>2, <3>4
  <2>3. CASE found # {}
    <3>1. UNCHANGED dicts /\ \E i \in found : Know(i)
      BY <1>5, <2>3 DEF Dict
    <3>2. PICK i \in found : Know(i)
      BY <3>1
    <3>3. i \in 1 .. MaxDicts /\ i # 0
      BY <1>3
    <3>4. Finds(n, i)
      BY <1>1, <2>1, <3>1, <3>2, <3>3 DEF Finds
    <3> QED
      BY <1>2, <3>3, <3>4
  <2> QED
    BY <2>2, <2>3
<1> QED
  BY <1>4, <1>5

LEMMA DictInitFailsEnds == DictInitFails => Quits \/ Broken \/ GoesOn
  BY FailsHow DEF DictInitFails, Calls, Caught, GoesOn, Kinds

LEMMA Steps ==
  ASSUME LoadTypes, Stages, Next
  PROVE  \/ \E c \in Confs, s \in Scripts : NewInstance(c, s)
         \/ \E c \in Confs : Delete(c)
         \/ LockVM \/ MainEnds \/ Register \/ DictInit \/ CleanVM \/ Unregister
         \/ Quits \/ Broken \/ GoesOn \/ \E n \in Names, i \in 1 .. MaxDicts : Finds(n, i)
<1>1. Raise => Quits \/ Broken
  BY FailsHow DEF Raise
<1> QED
  BY <1>1, AddPathEnds, DictEnds, DictInitFailsEnds DEF Next, Load, Called

-----------------------------------------------------------------------------
LEMMA InitType == Init => LoadTypes
  BY ScriptsTyped, Places DEF Init, LoadTypes

(* Whoever leaves the loop leaves the lock, except after MainEnds.         *)
LEMMA GivesUp ==
  ASSUME LoadTypes, cur \in Confs, GiveUp
  PROVE  /\ status' \in [Confs -> {"free", "loading", "served", "deleting", "failed"}]
         /\ UNCHANGED <<script, dicts, initialized, runs, handle, registered>>
         /\ pc' = "idle" /\ cur' = NoConf /\ vm' = 1 /\ todo' = <<>>
         /\ vm' \in VMs /\ todo' \in Seq(ScriptCalls)
  BY Places DEF LoadTypes, GiveUp, Idle, pathVars

LEMMA Unlocks ==
  ASSUME LoadTypes, depth[vm] > 0, Unlock
  PROVE  depth' \in [VMs -> Nat]
<1>1. depth[vm] - 1 \in Nat
  BY DEF LoadTypes
<1> QED
  BY <1>1 DEF LoadTypes, Unlock

LEMMA NextType == LoadTypes /\ Stages /\ LocksHeld /\ [Next]_vars => LoadTypes'
<1> SUFFICES ASSUME LoadTypes, Stages, LocksHeld, [Next]_vars PROVE LoadTypes'
  OBVIOUS
<1> USE DEF LoadTypes, Stages, Loading, Deleting
<1>0. CASE UNCHANGED vars
  BY <1>0 DEF vars, here, confVars, pathVars
<1>1. CASE \E c \in Confs, s \in Scripts : NewInstance(c, s)
  BY <1>1, ScriptsTyped, Places DEF NewInstance, confVars, pathVars
<1>2. CASE LockVM
  BY <1>2, ScriptsTyped, Places DEF LockVM, confVars, pathVars
<1>3. CASE Quits
  <2>1. cur \in Confs /\ depth[vm] > 0
    BY <1>3 DEF Quits, Inside, Locked, LocksHeld
  <2> QED
    BY <1>3, <2>1, GivesUp, Unlocks DEF Quits
<1>4. CASE MainEnds
  <2>1. cur \in Confs /\ script[cur] \in Scripts
    BY <1>4 DEF MainEnds
  <2>2. CASE script[cur].remap
    BY <1>4, <2>1, <2>2, ScriptsTyped DEF MainEnds, confVars, pathVars
  <2>3. CASE ~script[cur].remap
    BY <1>4, <2>1, <2>3, GivesUp DEF MainEnds
  <2> QED
    BY <2>2, <2>3
<1>5. CASE Register
  <2>1. cur \in Confs /\ depth[vm] > 0
    BY <1>5 DEF Register, Locked, LocksHeld
  <2>2. depth' \in [VMs -> Nat]
    BY <1>5, <2>1, Unlocks DEF Register
  <2>3. registered' \in [VMs -> SUBSET Confs]
    BY <1>5, <2>1 DEF Register
  <2>4. CASE vm = N
    BY <1>5, <2>1, <2>2, <2>3, <2>4, Places DEF Register, Idle, pathVars
  <2>5. CASE vm # N
    BY <1>5, <2>1, <2>2, <2>3, <2>5, Places DEF Register, pathVars
  <2> QED
    BY <2>4, <2>5
<1>6. CASE Broken
  BY <1>6 DEF Broken, confVars
<1>7. CASE GoesOn
  BY <1>7, ToDo DEF GoesOn, Goes, confVars
<1>8. CASE \E n \in Names, i \in 1 .. MaxDicts : Finds(n, i)
  <2> PICK n \in Names, i \in 1 .. MaxDicts : Finds(n, i)
    BY <1>8
  <2>1. /\ cur \in Confs /\ Tail(todo) \in Seq(ScriptCalls)
        /\ Goes /\ UNCHANGED <<status, script, initialized, runs, registered, depth>>
    BY ToDo DEF Finds
  <2>2. handle' \in [Confs -> [VMs -> [Names -> 0 .. MaxDicts]]]
    <3>1. handle' = [handle EXCEPT ![cur][vm][n] = i] /\ i \in 0 .. MaxDicts
      BY ScriptsTyped DEF Finds
    <3> QED
      BY <2>1, <3>1
  <2>3. dicts' \in [Confs -> Seq(Names)] /\ \A c \in Confs : Len(dicts'[c]) <= MaxDicts
    <3>1. CASE UNCHANGED dicts
      BY <3>1
    <3>2. CASE dicts' = [dicts EXCEPT ![cur] = Append(@, n)] /\ i = Len(dicts[cur]) + 1
      <4> DEFINE more == Append(dicts[cur], n)
      <4>1. more \in Seq(Names) /\ Len(more) <= MaxDicts
        BY <2>1, <3>2, ScriptsTyped
      <4>2. dicts' = [dicts EXCEPT ![cur] = more]
        BY <3>2
      <4> HIDE DEF more
      <4> QED
        BY <2>1, <4>1, <4>2
    <3> QED
      BY <3>1, <3>2 DEF Finds
  <2> QED
    BY <2>1, <2>2, <2>3 DEF Goes
<1>9. CASE DictInit
  <2> DEFINE n == Head(todo).name
  <2>1. /\ pc \in {"main", "init", "clean"} /\ Tail(todo) \in Seq(ScriptCalls)
        /\ Head(todo) \in ScriptCalls /\ Head(todo).op = "dictInit" /\ cur \in Confs
    BY <1>9, ToDo DEF DictInit, Calls, Locked
  <2>2. n \in Names
    BY <2>1, CallsTyped DEF Kinds
  <2>3. /\ initialized' \in [Confs -> SUBSET Names]
        /\ runs' \in [Confs -> [Names -> Nat]]
    <3>1. initialized[cur] \cup {n} \in SUBSET Names /\ runs[cur][n] + 1 \in Nat
      BY <2>1, <2>2
    <3>2. CASE n \in initialized[cur]
      BY <1>9, <3>2 DEF DictInit
    <3>3. CASE n \notin initialized[cur]
      <4>1. /\ initialized' = [initialized EXCEPT ![cur] = initialized[cur] \cup {n}]
            /\ runs' = [runs EXCEPT ![cur][n] = runs[cur][n] + 1]
        BY <1>9, <3>3 DEF DictInit, Remembered
      <4> QED
        BY <4>1, <3>1, <2>1, <2>2
    <3> QED
      BY <3>2, <3>3
  <2> QED
    BY <1>9, <2>1, <2>3 DEF DictInit, Goes, pathVars
<1>10. CASE \E c \in Confs : Delete(c)
  BY <1>10, ScriptsTyped, Places DEF Delete, confVars, pathVars
<1>11. CASE CleanVM
  BY <1>11, ScriptsTyped, Places DEF CleanVM, confVars, pathVars
<1>12. CASE Unregister
  <2>1. cur \in Confs /\ depth[vm] > 0
    BY <1>12 DEF Unregister, Locked, LocksHeld
  <2>2. registered' \in [VMs -> SUBSET Confs] /\ depth' \in [VMs -> Nat]
    BY <1>12, <2>1, Unlocks DEF Unregister, RemovedFrom
  <2>3. CASE vm < N
    BY <1>12, <2>2, <2>3, Places DEF Unregister, confVars, pathVars
  <2>4. CASE ~(vm < N)
    <3>1. /\ [n \in Names |-> 0] \in [Names -> Nat]
          /\ [v \in VMs |-> [n \in Names |-> 0]] \in [VMs -> [Names -> 0 .. MaxDicts]]
          /\ <<>> \in Seq(Names) /\ Len(<<>>) = 0
      BY ScriptsTyped
    <3>e. /\ status' = [status EXCEPT ![cur] = "free"]
          /\ script' = [script EXCEPT ![cur] = NoScript]
          /\ dicts' = [dicts EXCEPT ![cur] = <<>>]
          /\ initialized' = [initialized EXCEPT ![cur] = {}]
      BY <1>12, <2>4 DEF Unregister
    <3>f. /\ runs' = [runs EXCEPT ![cur] = [n \in Names |-> 0]]
          /\ handle' = [handle EXCEPT ![cur] = [v \in VMs |-> [n \in Names |-> 0]]]
      BY <1>12, <2>4 DEF Unregister
    <3>2. /\ status' \in [Confs -> {"free", "loading", "served", "deleting", "failed"}]
          /\ script' \in [Confs -> Scripts \cup {NoScript}]
          /\ initialized' \in [Confs -> SUBSET Names]
      BY <3>e, <2>1
    <3>4. dicts' \in [Confs -> Seq(Names)] /\ \A c \in Confs : Len(dicts'[c]) <= MaxDicts
      BY <3>e, <3>1, <2>1, ScriptsTyped
    <3>5. runs' \in [Confs -> [Names -> Nat]]
      BY <3>f, <3>1, <2>1
    <3>3. runs' \in [Confs -> [Names -> Nat]] /\ handle' \in [Confs -> [VMs -> [Names -> 0 .. MaxDicts]]]
      BY <3>f, <3>1, <3>5, <2>1
    <3> QED
      BY <1>12, <2>2, <2>4, <3>2, <3>3, <3>4, Places DEF Unregister, Idle
  <2> QED
    BY <2>3, <2>4
<1> QED
  BY <1>0, <1>1, <1>2, <1>3, <1>4, <1>5, <1>6, <1>7, <1>8, <1>9, <1>10, <1>11, <1>12, Steps

-----------------------------------------------------------------------------
(* Where the thread is.                                                    *)
LEMMA InitStages == Init => Stages
  BY DEF Init, Stages, Loading, Deleting

LEMMA NextStages == LoadTypes /\ Stages /\ [Next]_vars => Stages'
<1> SUFFICES ASSUME LoadTypes, Stages, [Next]_vars PROVE Stages'
  OBVIOUS
<1> USE DEF LoadTypes, Stages, Loading, Deleting
<1>0. CASE UNCHANGED vars
  BY <1>0 DEF vars, here, confVars, pathVars
<1>1. CASE \E c \in Confs, s \in Scripts : NewInstance(c, s)
  BY <1>1, ScriptsTyped, Places DEF NewInstance, confVars, pathVars
<1>2. CASE LockVM
  BY <1>2, ScriptsTyped, Places DEF LockVM, confVars, pathVars
<1>3. CASE Quits
  BY <1>3, ScriptsTyped, Places DEF Quits, GiveUp, Idle, Inside
<1>4. CASE MainEnds
  BY <1>4, ScriptsTyped, Places DEF MainEnds, GiveUp, Idle, confVars, pathVars
<1>5. CASE Register
  BY <1>5, ScriptsTyped, Places DEF Register, Unlock, Idle, confVars, pathVars
<1>6. CASE Broken
  BY <1>6 DEF Broken, confVars
<1>7. CASE GoesOn
  BY <1>7 DEF GoesOn, Goes, confVars
<1>8. CASE \E n \in Names, i \in 1 .. MaxDicts : Finds(n, i)
  BY <1>8 DEF Finds, Goes
<1>9. CASE DictInit
  BY <1>9 DEF DictInit, Goes
<1>10. CASE \E c \in Confs : Delete(c)
  BY <1>10, ScriptsTyped, Places DEF Delete, confVars, pathVars
<1>11. CASE CleanVM
  BY <1>11 DEF CleanVM, confVars
<1>12. CASE Unregister
  BY <1>12, ScriptsTyped, Places DEF Unregister, Idle, RemovedFrom, confVars, pathVars
<1> QED
  BY <1>0, <1>1, <1>2, <1>3, <1>4, <1>5, <1>6, <1>7, <1>8, <1>9, <1>10, <1>11, <1>12, Steps

(* Which VMs know the instance.                                            *)
LEMMA InitRegistry == Init => InRegistry
  BY DEF Init, InRegistry

LEMMA NextRegistry ==
  LoadTypes /\ Stages /\ InRegistry /\ [Next]_vars => InRegistry'
<1> SUFFICES ASSUME LoadTypes, Stages, InRegistry, [Next]_vars PROVE InRegistry'
  OBVIOUS
<1> USE DEF LoadTypes, Stages, Loading, Deleting, InRegistry
<1>0. CASE UNCHANGED vars
  BY <1>0 DEF vars, here, confVars, pathVars
<1>1. CASE \E c \in Confs, s \in Scripts : NewInstance(c, s)
  <2> PICK c \in Confs, s \in Scripts : NewInstance(c, s)
    BY <1>1
  <2>1. /\ status[c] = "free" /\ status' = [status EXCEPT ![c] = "loading"]
        /\ registered' = registered /\ vm' = 1 /\ pc = "idle"
    BY DEF NewInstance
  <2>2. SUFFICES ASSUME NEW d \in Confs, NEW v \in VMs PROVE InRegistry!(d, v)'
    BY DEF InRegistry
  <2>3. ~(v < 1)
    <3>1. v \in Nat /\ 1 <= v
      BY Places
    <3> QED
      BY <3>1
  <2>4. CASE d = c
    BY <2>1, <2>3, <2>4
  <2>5. CASE d # c
    <3>1. status'[d] = status[d] /\ status[d] \notin {"loading", "deleting"}
      BY <2>1, <2>5, ScriptsTyped
    <3> QED
      BY <3>1, <2>1
  <2> QED
    BY <2>4, <2>5
<1>2. CASE LockVM
  BY <1>2, ScriptsTyped, Places DEF LockVM, confVars, pathVars
<1>3. CASE Quits
  BY <1>3, Places DEF Quits, Inside, GiveUp, Idle
<1>4. CASE MainEnds
  BY <1>4, ScriptsTyped, Places DEF MainEnds, GiveUp, Idle, confVars, pathVars
<1>5. CASE Register
  <2>1. /\ pc = "init" /\ cur \in Confs /\ status[cur] = "loading"
        /\ registered' = [registered EXCEPT ![vm] = @ \cup {cur}]
    BY <1>5 DEF Register
  <2>2. SUFFICES ASSUME NEW d \in Confs, NEW v \in VMs PROVE InRegistry!(d, v)'
    BY DEF InRegistry
  <2>3. /\ d # cur => (d \in registered'[v] <=> d \in registered[v])
        /\ v # vm => registered'[v] = registered[v]
        /\ v = vm => cur \in registered'[v]
    BY <2>1
  <2>4. vm \in Nat /\ v \in Nat /\ v <= N
    BY Places
  <2>5. CASE vm = N
    <3>1. status' = [status EXCEPT ![cur] = "served"]
      BY <1>5, <2>5 DEF Register
    <3>2. CASE d = cur
      <4>1. v < vm \/ v = vm
        BY <2>4, <2>5
      <4> QED
        BY <4>1, <3>1, <3>2, <2>1, <2>3
    <3>3. CASE d # cur
      BY <3>1, <3>3, <2>3
    <3> QED
      BY <3>2, <3>3
  <2>6. CASE vm # N
    <3>1. status' = status /\ vm' = vm + 1
      BY <1>5, <2>6 DEF Register
    <3>2. CASE d = cur
      <4>1. v < vm + 1 <=> v < vm \/ v = vm
        BY <2>4
      <4>2. v = vm \/ v # vm
        OBVIOUS
      <4> QED
        BY <4>1, <4>2, <3>1, <3>2, <2>1, <2>3
    <3>3. CASE d # cur
      BY <3>1, <3>3, <2>1, <2>3
    <3> QED
      BY <3>2, <3>3
  <2> QED
    BY <2>5, <2>6
<1>6. CASE Broken
  BY <1>6 DEF Broken, confVars
<1>7. CASE GoesOn
  BY <1>7 DEF GoesOn, Goes, confVars
<1>8. CASE \E n \in Names, i \in 1 .. MaxDicts : Finds(n, i)
  BY <1>8 DEF Finds, Goes
<1>9. CASE DictInit
  BY <1>9 DEF DictInit, Goes
<1>10. CASE \E c \in Confs : Delete(c)
  <2> PICK c \in Confs : Delete(c)
    BY <1>10
  <2>1. /\ status[c] = "served" /\ status' = [status EXCEPT ![c] = "deleting"]
        /\ registered' = registered /\ vm' = 1 /\ pc = "idle"
    BY DEF Delete
  <2>2. SUFFICES ASSUME NEW d \in Confs, NEW v \in VMs PROVE InRegistry!(d, v)'
    BY DEF InRegistry
  <2>3. ~(v < 1)
    <3>1. v \in Nat /\ 1 <= v
      BY Places
    <3> QED
      BY <3>1
  <2>4. CASE d = c
    BY <2>1, <2>3, <2>4
  <2>5. CASE d # c
    <3>1. status'[d] = status[d] /\ status[d] \notin {"loading", "deleting"}
      BY <2>1, <2>5, ScriptsTyped
    <3> QED
      BY <3>1, <2>1
  <2> QED
    BY <2>4, <2>5
<1>11. CASE CleanVM
  BY <1>11 DEF CleanVM, confVars
<1>12. CASE Unregister
  <2>1. /\ pc = "clean" /\ cur \in Confs /\ status[cur] = "deleting"
        /\ registered' = [registered EXCEPT ![vm] = @ \ {cur}]
    BY <1>12 DEF Unregister, RemovedFrom
  <2>2. SUFFICES ASSUME NEW d \in Confs, NEW v \in VMs PROVE InRegistry!(d, v)'
    BY DEF InRegistry
  <2>3. /\ d # cur => (d \in registered'[v] <=> d \in registered[v])
        /\ v # vm => registered'[v] = registered[v]
        /\ v = vm => cur \notin registered'[v]
    BY <2>1
  <2>4. vm \in Nat /\ v \in Nat /\ v <= N /\ vm <= N /\ N \in Nat
    BY Places, ScriptsTyped
  <2>5. CASE vm < N
    <3>1. status' = status /\ vm' = vm + 1
      BY <1>12, <2>5 DEF Unregister, confVars
    <3>2. CASE d = cur
      <4>1. v < vm + 1 <=> v < vm \/ v = vm
        BY <2>4
      <4> QED
        BY <4>1, <3>1, <3>2, <2>1, <2>3
    <3>3. CASE d # cur
      BY <3>1, <3>3, <2>1, <2>3
    <3> QED
      BY <3>2, <3>3
  <2>6. CASE ~(vm < N)
    <3>1. status' = [status EXCEPT ![cur] = "free"]
      BY <1>12, <2>6 DEF Unregister
    <3>2. CASE d = cur
      <4>1. v < vm \/ v = vm
        BY <2>4, <2>6
      <4> QED
        BY <4>1, <3>1, <3>2, <2>1, <2>3
    <3>3. CASE d # cur
      BY <3>1, <3>3, <2>1, <2>3
    <3> QED
      BY <3>2, <3>3
  <2> QED
    BY <2>5, <2>6
<1> QED
  BY <1>0, <1>1, <1>2, <1>3, <1>4, <1>5, <1>6, <1>7, <1>8, <1>9, <1>10, <1>11, <1>12, Steps

(* Which lock is held.  Only the way out of a script without do_remap      *)
(* keeps it, and that in the first VM.                                     *)
LEMMA Lockings ==
  /\ IsFiniteSet(Locking) /\ Cardinality(Locking) \in Nat
  /\ \A S : Locking \subseteq S /\ S \subseteq Confs =>
       IsFiniteSet(S) /\ Cardinality(S) \in Nat /\ Cardinality(Locking) <= Cardinality(S)
<1>1. IsFiniteSet(Confs) /\ Locking \subseteq Confs
  BY LoadingAssumption DEF LoadingAssumption, Locking
<1> QED
  BY <1>1, FS_Subset, FS_CardinalityType

(* Who is in a loop without the lock, or waits for it, changes nothing.    *)
LEMMA LocksKept ==
  ASSUME LoadTypes, LocksHeld, Locking \subseteq Locking', Locking' \subseteq Confs,
         depth' = depth, \A v \in VMs : Holds(v)' = Holds(v), Locked' => Locked /\ vm' = vm
  PROVE  LocksHeld'
<1>1. /\ Cardinality(Locking) \in Nat /\ Cardinality(Locking') \in Nat
      /\ Cardinality(Locking) <= Cardinality(Locking')
  BY Lockings
<1>2. depth[1] \in Nat /\ Holds(1) \in Nat /\ Holds(1)' = Holds(1)
  BY Places DEF LoadTypes, Holds
<1>3. depth'[1] <= Cardinality(Locking') + Holds(1)'
  BY <1>1, <1>2 DEF LocksHeld
<1> QED
  BY <1>3 DEF LocksHeld

(* An unlocking that ends a round.                                         *)
LEMMA LocksFreed ==
  ASSUME LoadTypes, LocksHeld, Locking \subseteq Locking', Locking' \subseteq Confs,
         Locked, Unlock, ~Locked'
  PROVE  LocksHeld'
<1>1. /\ Cardinality(Locking) \in Nat /\ Cardinality(Locking') \in Nat
      /\ Cardinality(Locking) <= Cardinality(Locking')
  BY Lockings
<1>2. /\ vm \in VMs /\ depth' = [depth EXCEPT ![vm] = depth[vm] - 1]
      /\ depth \in [VMs -> Nat] /\ depth[1] \in Nat
  BY Places DEF LoadTypes, Unlock
<1>3. \A v \in VMs : Holds(v)' = 0 /\ Holds(v) = (IF v = vm THEN 1 ELSE 0)
  BY DEF Holds
<1>4. ASSUME NEW v \in VMs \ {1} PROVE depth'[v] = Holds(v)'
  <2>1. depth[v] = Holds(v)
    BY DEF LocksHeld
  <2> QED
    BY <2>1, <1>2, <1>3
<1>5. depth'[1] <= Cardinality(Locking') + Holds(1)'
  <2>1. depth[1] <= Cardinality(Locking) + Holds(1)
    BY DEF LocksHeld
  <2>2. CASE vm = 1
    <3>1. depth'[1] = depth[1] - 1 /\ Holds(1) = 1 /\ Holds(1)' = 0
      BY <2>2, <1>2, <1>3, Places
    <3> QED
      BY <3>1, <2>1, <1>1, <1>2
  <2>3. CASE vm # 1
    <3>1. depth'[1] = depth[1] /\ Holds(1) = 0 /\ Holds(1)' = 0
      BY <2>3, <1>2, <1>3, Places
    <3> QED
      BY <3>1, <2>1, <1>1, <1>2
  <2> QED
    BY <2>2, <2>3
<1> QED
  BY <1>4, <1>5 DEF LocksHeld

LEMMA InitLocks == Init => LocksHeld
<1> SUFFICES ASSUME Init PROVE LocksHeld
  OBVIOUS
<1>1. Cardinality(Locking) \in Nat
  BY Lockings
<1>2. depth[1] = 0 /\ Holds(1) = 0 /\ \A v \in VMs : depth[v] = 0 /\ Holds(v) = 0
  BY Places DEF Init, Holds, Locked
<1> QED
  BY <1>1, <1>2 DEF Init, LocksHeld, Locked

LEMMA NextLocks == LoadTypes /\ Stages /\ LocksHeld /\ [Next]_vars => LocksHeld'
<1> SUFFICES ASSUME LoadTypes, Stages, LocksHeld, [Next]_vars PROVE LocksHeld'
  OBVIOUS
<1> USE DEF LoadTypes, Stages, Loading, Deleting
<1>0. CASE UNCHANGED vars
  <2>1. UNCHANGED <<status, script, registered, depth, pc, cur, vm>>
    BY <1>0 DEF vars, here, confVars, pathVars
  <2>2. Locking \subseteq Locking' /\ Locking' \subseteq Confs
    BY <2>1 DEF Locking
  <2>3. (Locked' => Locked /\ vm' = vm) /\ \A v \in VMs : Holds(v)' = Holds(v)
    BY <2>1 DEF Holds, Locked
  <2> QED
    BY <2>1, <2>2, <2>3, LocksKept
<1>1. CASE \E c \in Confs, s \in Scripts : NewInstance(c, s)
  <2>1. Locking \subseteq Locking' /\ Locking' \subseteq Confs
    BY <1>1 DEF NewInstance, confVars, pathVars, Locking
  <2>2. /\ depth' = depth /\ (Locked' => Locked /\ vm' = vm)
        /\ \A v \in VMs : Holds(v)' = Holds(v)
    BY <1>1 DEF NewInstance, confVars, pathVars, Holds, Locked
  <2> QED
    BY <2>1, <2>2, LocksKept
<1>2. CASE LockVM
  <2>1. Locking' = Locking /\ Cardinality(Locking) \in Nat
    BY <1>2, Lockings DEF LockVM, confVars, Locking
  <2>2. /\ vm \in VMs /\ vm' = vm /\ pc = "lock" /\ pc' = "main"
        /\ depth' = [depth EXCEPT ![vm] = depth[vm] + 1]
    BY <1>2 DEF LockVM
  <2>3. \A v \in VMs : Holds(v) = 0 /\ Holds(v)' = (IF v = vm THEN 1 ELSE 0)
    BY <2>2 DEF Holds, Locked
  <2>4. ASSUME NEW v \in VMs \ {1} PROVE depth'[v] = Holds(v)'
    <3>1. depth[v] = Holds(v)
      BY DEF LocksHeld
    <3> QED
      BY <3>1, <2>2, <2>3
  <2>5. depth'[1] <= Cardinality(Locking') + Holds(1)'
    <3>1. depth[1] <= Cardinality(Locking) + Holds(1) /\ depth[1] \in Nat
      BY Places DEF LocksHeld
    <3>2. CASE vm = 1
      <4>1. depth'[1] = depth[1] + 1 /\ Holds(1) = 0 /\ Holds(1)' = 1
        BY <3>2, <2>2, <2>3, Places
      <4> QED
        BY <4>1, <3>1, <2>1
    <3>3. CASE vm # 1
      <4>1. depth'[1] = depth[1] /\ Holds(1) = 0 /\ Holds(1)' = 0
        BY <3>3, <2>2, <2>3, Places
      <4> QED
        BY <4>1, <3>1, <2>1
    <3> QED
      BY <3>2, <3>3
  <2>6. depth'[vm'] > 0
    BY <2>2
  <2> QED
    BY <2>4, <2>5, <2>6 DEF LocksHeld
<1>3. CASE Quits
  <2>1. Locking \subseteq Locking' /\ Locking' \subseteq Confs
    BY <1>3 DEF Quits, Inside, GiveUp, Locking
  <2>2. Locked /\ Unlock /\ ~Locked'
    BY <1>3 DEF Quits, GiveUp, Idle, Inside, Locked
  <2> QED
    BY <2>1, <2>2, LocksFreed
<1>4. CASE MainEnds
  <2>1. cur \in Confs /\ status[cur] = "loading" /\ pc = "main" /\ depth' = depth
    BY <1>4 DEF MainEnds
  <2>2. CASE script[cur].remap
    <3>1. /\ pc' = "init" /\ vm' = vm /\ UNCHANGED <<status, script>>
      BY <1>4, <2>2 DEF MainEnds, confVars
    <3>2. Locking \subseteq Locking' /\ Locking' \subseteq Confs
      BY <3>1 DEF Locking
    <3>3. Locked /\ \A v \in VMs : Holds(v)' = Holds(v)
      BY <3>1, <2>1 DEF Holds, Locked
    <3> QED
      BY <3>1, <3>2, <3>3, <2>1, LocksKept
  <2>3. CASE ~script[cur].remap
    <3>1. /\ GiveUp /\ vm = 1 /\ script' = script
          /\ status' = [status EXCEPT ![cur] = "failed"] /\ pc' = "idle"
      <4>1. ~(vm > 1) /\ vm \in Nat /\ 1 <= vm
        BY <2>1, <2>3, Places
      <4>2. vm = 1
        BY <4>1
      <4> QED
        BY <1>4, <4>2, <2>3 DEF MainEnds, GiveUp, Idle
    <3>2. Locking' = Locking \cup {cur} /\ cur \notin Locking
      BY <3>1, <2>1, <2>3 DEF Locking
    <3>3. Cardinality(Locking') = Cardinality(Locking) + 1 /\ Cardinality(Locking) \in Nat
      BY <3>2, Lockings, FS_AddElement
    <3>4. \A v \in VMs : Holds(v)' = 0 /\ Holds(v) = (IF v = 1 THEN 1 ELSE 0)
      BY <3>1, <2>1 DEF Holds, Locked
    <3>5. \A v \in VMs \ {1} : depth'[v] = Holds(v)'
      BY <3>4, <2>1 DEF LocksHeld
    <3>6. depth'[1] <= Cardinality(Locking') + Holds(1)'
      <4>1. depth[1] <= Cardinality(Locking) + Holds(1) /\ depth[1] \in Nat
        BY Places DEF LocksHeld
      <4>2. Holds(1) = 1 /\ Holds(1)' = 0 /\ depth'[1] = depth[1]
        BY <3>4, <2>1, Places
      <4> QED
        BY <4>1, <4>2, <3>3
    <3>7. ~Locked'
      BY <3>1 DEF Locked
    <3> QED
      BY <3>5, <3>6, <3>7 DEF LocksHeld
  <2> QED
    BY <2>2, <2>3
<1>5. CASE Register
  <2>1. Locking \subseteq Locking' /\ Locking' \subseteq Confs
    BY <1>5 DEF Register, Unlock, Idle, confVars, pathVars, Locking
  <2>2. Locked /\ Unlock /\ ~Locked'
    BY <1>5 DEF Register, Idle, Locked
  <2> QED
    BY <2>1, <2>2, LocksFreed
<1>6. CASE Broken
  <2>1. UNCHANGED <<status, script, depth, pc, vm>>
    BY <1>6 DEF Broken, confVars
  <2>2. Locking \subseteq Locking' /\ Locking' \subseteq Confs
    BY <2>1 DEF Locking
  <2>3. (Locked' => Locked /\ vm' = vm) /\ \A v \in VMs : Holds(v)' = Holds(v)
    BY <2>1 DEF Holds, Locked
  <2> QED
    BY <2>1, <2>2, <2>3, LocksKept
<1>7. CASE GoesOn
  <2>1. UNCHANGED <<status, script, depth, pc, vm>>
    BY <1>7 DEF GoesOn, Goes, confVars
  <2>2. Locking \subseteq Locking' /\ Locking' \subseteq Confs
    BY <2>1 DEF Locking
  <2>3. (Locked' => Locked /\ vm' = vm) /\ \A v \in VMs : Holds(v)' = Holds(v)
    BY <2>1 DEF Holds, Locked
  <2> QED
    BY <2>1, <2>2, <2>3, LocksKept
<1>8. CASE \E n \in Names, i \in 1 .. MaxDicts : Finds(n, i)
  <2>1. UNCHANGED <<status, script, depth, pc, vm>>
    BY <1>8 DEF Finds, Goes
  <2>2. Locking \subseteq Locking' /\ Locking' \subseteq Confs
    BY <2>1 DEF Locking
  <2>3. (Locked' => Locked /\ vm' = vm) /\ \A v \in VMs : Holds(v)' = Holds(v)
    BY <2>1 DEF Holds, Locked
  <2> QED
    BY <2>1, <2>2, <2>3, LocksKept
<1>9. CASE DictInit
  <2>1. UNCHANGED <<status, script, depth, pc, vm>>
    BY <1>9 DEF DictInit, Goes
  <2>2. Locking \subseteq Locking' /\ Locking' \subseteq Confs
    BY <2>1 DEF Locking
  <2>3. (Locked' => Locked /\ vm' = vm) /\ \A v \in VMs : Holds(v)' = Holds(v)
    BY <2>1 DEF Holds, Locked
  <2> QED
    BY <2>1, <2>2, <2>3, LocksKept
<1>10. CASE \E c \in Confs : Delete(c)
  <2>1. Locking \subseteq Locking' /\ Locking' \subseteq Confs
    BY <1>10 DEF Delete, confVars, pathVars, Locking
  <2>2. /\ depth' = depth /\ (Locked' => Locked /\ vm' = vm)
        /\ \A v \in VMs : Holds(v)' = Holds(v)
    BY <1>10 DEF Delete, confVars, pathVars, Holds, Locked
  <2> QED
    BY <2>1, <2>2, LocksKept
<1>11. CASE CleanVM
  <2>1. Locking' = Locking /\ Cardinality(Locking) \in Nat
    BY <1>11, Lockings DEF CleanVM, confVars, Locking
  <2>2. /\ vm \in VMs /\ vm' = vm /\ pc = "delete" /\ pc' = "clean"
        /\ depth' = [depth EXCEPT ![vm] = depth[vm] + 1]
    BY <1>11 DEF CleanVM
  <2>3. \A v \in VMs : Holds(v) = 0 /\ Holds(v)' = (IF v = vm THEN 1 ELSE 0)
    BY <2>2 DEF Holds, Locked
  <2>4. ASSUME NEW v \in VMs \ {1} PROVE depth'[v] = Holds(v)'
    <3>1. depth[v] = Holds(v)
      BY DEF LocksHeld
    <3> QED
      BY <3>1, <2>2, <2>3
  <2>5. depth'[1] <= Cardinality(Locking') + Holds(1)'
    <3>1. depth[1] <= Cardinality(Locking) + Holds(1) /\ depth[1] \in Nat
      BY Places DEF LocksHeld
    <3>2. CASE vm = 1
      <4>1. depth'[1] = depth[1] + 1 /\ Holds(1) = 0 /\ Holds(1)' = 1
        BY <3>2, <2>2, <2>3, Places
      <4> QED
        BY <4>1, <3>1, <2>1
    <3>3. CASE vm # 1
      <4>1. depth'[1] = depth[1] /\ Holds(1) = 0 /\ Holds(1)' = 0
        BY <3>3, <2>2, <2>3, Places
      <4> QED
        BY <4>1, <3>1, <2>1
    <3> QED
      BY <3>2, <3>3
  <2>6. depth'[vm'] > 0
    BY <2>2
  <2> QED
    BY <2>4, <2>5, <2>6 DEF LocksHeld
<1>12. CASE Unregister
  <2>1. Locking \subseteq Locking' /\ Locking' \subseteq Confs
    BY <1>12 DEF Unregister, Idle, confVars, Locking
  <2>2. Locked /\ Unlock /\ ~Locked'
    BY <1>12 DEF Unregister, Idle, Locked
  <2> QED
    BY <2>1, <2>2, LocksFreed
<1> QED
  BY <1>0, <1>1, <1>2, <1>3, <1>4, <1>5, <1>6, <1>7, <1>8, <1>9, <1>10, <1>11, <1>12, Steps

-----------------------------------------------------------------------------
(* The dictionaries of an instance, and what a VM knows of them.           *)
LEMMA InitHandles == Init => Handles
  BY DEF Init, Handles, Got, IsInjective

LEMMA NextHandles == LoadTypes /\ Stages /\ Handles /\ [Next]_vars => Handles'
<1> SUFFICES ASSUME LoadTypes, Stages, Handles, [Next]_vars PROVE Handles'
  OBVIOUS
<1> USE DEF LoadTypes, Stages, Loading, Deleting, Handles
<1>0. CASE UNCHANGED vars
  BY <1>0 DEF vars, here, confVars, pathVars, Got
<1>1. CASE \E c \in Confs, s \in Scripts : NewInstance(c, s)
  <2>1. UNCHANGED <<dicts, handle, runs, initialized>>
    BY <1>1 DEF NewInstance
  <2>2. \A c \in Confs : status'[c] = "free" => status[c] = "free"
    BY <1>1 DEF NewInstance
  <2> QED
    BY <2>1, <2>2 DEF Got
<1>2. CASE LockVM
  <2>1. UNCHANGED <<dicts, handle, runs, initialized>>
    BY <1>2 DEF LockVM, confVars
  <2>2. \A c \in Confs : status'[c] = "free" => status[c] = "free"
    BY <1>2 DEF LockVM, confVars
  <2> QED
    BY <2>1, <2>2 DEF Got
<1>3. CASE Quits
  <2>1. UNCHANGED <<dicts, handle, runs, initialized>>
    BY <1>3 DEF Quits, GiveUp
  <2>2. \A c \in Confs : status'[c] = "free" => status[c] = "free"
    BY <1>3 DEF Quits, GiveUp
  <2> QED
    BY <2>1, <2>2 DEF Got
<1>4. CASE MainEnds
  <2>1. UNCHANGED <<dicts, handle, runs, initialized>>
    BY <1>4 DEF MainEnds, GiveUp, confVars
  <2>2. \A c \in Confs : status'[c] = "free" => status[c] = "free"
    BY <1>4 DEF MainEnds, GiveUp, confVars
  <2> QED
    BY <2>1, <2>2 DEF Got
<1>5. CASE Register
  <2>1. UNCHANGED <<dicts, handle, runs, initialized>>
    BY <1>5 DEF Register
  <2>2. \A c \in Confs : status'[c] = "free" => status[c] = "free"
    BY <1>5 DEF Register
  <2> QED
    BY <2>1, <2>2 DEF Got
<1>6. CASE Broken
  BY <1>6 DEF Broken, confVars, Got
<1>7. CASE GoesOn
  BY <1>7 DEF GoesOn, Goes, confVars, Got
<1>8. CASE \E n \in Names, i \in 1 .. MaxDicts : Finds(n, i)
  <2> PICK n \in Names, i \in 1 .. MaxDicts : Finds(n, i)
    BY <1>8
  <2>1. Locked /\ cur \in Confs /\ UNCHANGED <<status, initialized, runs>>
    BY DEF Finds
  <2>2. /\ handle' = [handle EXCEPT ![cur][vm][n] = i] /\ i # 0
        /\ \/ UNCHANGED dicts /\ i \in DOMAIN dicts[cur] /\ dicts[cur][i] = n
           \/ /\ dicts' = [dicts EXCEPT ![cur] = Append(@, n)]
              /\ i = Len(dicts[cur]) + 1
              /\ \A k \in DOMAIN dicts[cur] : dicts[cur][k] # n
    BY DEF Finds
  <2>3. /\ dicts[cur] \in Seq(Names) /\ Len(dicts[cur]) \in Nat
        /\ DOMAIN dicts[cur] = 1 .. Len(dicts[cur])
    BY <2>1
  <2>4. \A c \in Confs : c # cur => dicts'[c] = dicts[c] /\ handle'[c] = handle[c]
    BY <2>1, <2>2
  <2>5. status[cur] # "free"
    BY <2>1 DEF Locked
  <2>6. /\ IsInjective(dicts'[cur]) /\ i \in DOMAIN dicts'[cur] /\ dicts'[cur][i] = n
        /\ \A k \in DOMAIN dicts[cur] : k \in DOMAIN dicts'[cur] /\ dicts'[cur][k] = dicts[cur][k]
    <3>1. IsInjective(dicts[cur])
      BY <2>1
    <3>2. CASE UNCHANGED dicts /\ i \in DOMAIN dicts[cur] /\ dicts[cur][i] = n
      BY <3>1, <3>2
    <3>3. CASE /\ dicts' = [dicts EXCEPT ![cur] = Append(@, n)]
               /\ i = Len(dicts[cur]) + 1
               /\ \A k \in DOMAIN dicts[cur] : dicts[cur][k] # n
      <4>1. dicts'[cur] = Append(dicts[cur], n)
        BY <3>3, <2>1
      <4>2. /\ DOMAIN Append(dicts[cur], n) = 1 .. Len(dicts[cur]) + 1
            /\ Append(dicts[cur], n)[Len(dicts[cur]) + 1] = n
            /\ \A k \in 1 .. Len(dicts[cur]) : Append(dicts[cur], n)[k] = dicts[cur][k]
        BY <2>1, <2>3, AppendProperties
      <4>3. \A k \in DOMAIN dicts'[cur] : k \in DOMAIN dicts[cur] \/ k = i
        BY <4>1, <4>2, <2>3, <3>3
      <4>4. /\ i \in DOMAIN dicts'[cur] /\ dicts'[cur][i] = n
            /\ \A k \in DOMAIN dicts[cur] : k \in DOMAIN dicts'[cur] /\ dicts'[cur][k] = dicts[cur][k]
        BY <4>1, <4>2, <2>3, <3>3
      <4>5. IsInjective(dicts'[cur])
        BY <3>1, <3>3, <4>3, <4>4 DEF IsInjective
      <4> QED
        BY <4>4, <4>5
    <3> QED
      BY <2>2, <3>2, <3>3
  <2>7. ASSUME NEW v \in VMs, NEW m \in Names, handle'[cur][v][m] # 0
        PROVE  handle'[cur][v][m] \in DOMAIN dicts'[cur] /\ dicts'[cur][handle'[cur][v][m]] = m
    <3>1. CASE v = vm /\ m = n
      BY <3>1, <2>1, <2>2, <2>6
    <3>2. CASE ~(v = vm /\ m = n)
      <4>1. handle'[cur][v][m] = handle[cur][v][m]
        BY <3>2, <2>1, <2>2
      <4> QED
        BY <4>1, <2>1, <2>6, <2>7 DEF Got
    <3> QED
      BY <3>1, <3>2
  <2> SUFFICES ASSUME NEW c \in Confs PROVE Handles!(c)'
    BY DEF Handles
  <2>8. CASE c = cur
    BY <2>8, <2>1, <2>5, <2>6, <2>7 DEF Got
  <2>9. CASE c # cur
    <3>1. /\ dicts'[c] = dicts[c] /\ handle'[c] = handle[c]
          /\ UNCHANGED <<status, initialized, runs>>
      BY <2>9, <2>1, <2>4
    <3>2. Handles!(c)
      OBVIOUS
    <3> QED
      BY <3>1, <3>2 DEF Got
  <2> QED
    BY <2>8, <2>9
<1>9. CASE DictInit
  <2> DEFINE n == Head(todo).name
  <2>1. /\ cur \in Confs /\ n \in Names /\ UNCHANGED <<status, dicts, handle>>
    BY <1>9, ToDo, CallsTyped DEF DictInit, Calls, Locked, Kinds
  <2>2. CASE n \in initialized[cur]
    <3>1. UNCHANGED <<initialized, runs, status, dicts, handle>>
      BY <1>9, <2>1, <2>2 DEF DictInit
    <3> QED
      BY <3>1 DEF Got
  <2>3. CASE n \notin initialized[cur]
    <3>1. /\ initialized' = [initialized EXCEPT ![cur] = initialized[cur] \cup {n}]
          /\ runs' = [runs EXCEPT ![cur][n] = runs[cur][n] + 1]
      BY <1>9, <2>3 DEF DictInit, Remembered
    <3>2. runs[cur][n] = 0
      BY <2>1, <2>3
    <3>3. ASSUME NEW c \in Confs, NEW m \in Names
          PROVE  runs'[c][m] = (IF m \in initialized'[c] THEN 1 ELSE 0)
      <4>1. CASE c = cur /\ m = n
        BY <4>1, <3>1, <3>2, <2>1
      <4>2. CASE ~(c = cur /\ m = n)
        <5>1. runs'[c][m] = runs[c][m] /\ (m \in initialized'[c] <=> m \in initialized[c])
          BY <4>2, <3>1, <2>1
        <5> QED
          BY <5>1
      <4> QED
        BY <4>1, <4>2
    <3> QED
      BY <3>3, <2>1 DEF Got
  <2> QED
    BY <2>2, <2>3
<1>10. CASE \E c \in Confs : Delete(c)
  <2>1. UNCHANGED <<dicts, handle, runs, initialized>>
    BY <1>10 DEF Delete
  <2>2. \A c \in Confs : status'[c] = "free" => status[c] = "free"
    BY <1>10 DEF Delete
  <2> QED
    BY <2>1, <2>2 DEF Got
<1>11. CASE CleanVM
  BY <1>11 DEF CleanVM, confVars, Got
<1>12. CASE Unregister
  <2>1. cur \in Confs /\ status[cur] = "deleting"
    BY <1>12 DEF Unregister
  <2>2. CASE vm < N
    BY <1>12, <2>2 DEF Unregister, confVars, Got
  <2>3. CASE ~(vm < N)
    <3>1. /\ status' = [status EXCEPT ![cur] = "free"]
          /\ dicts' = [dicts EXCEPT ![cur] = <<>>]
          /\ initialized' = [initialized EXCEPT ![cur] = {}]
          /\ runs' = [runs EXCEPT ![cur] = [n \in Names |-> 0]]
          /\ handle' = [handle EXCEPT ![cur] = [v \in VMs |-> [n \in Names |-> 0]]]
      BY <1>12, <2>3 DEF Unregister
    <3> SUFFICES ASSUME NEW c \in Confs PROVE Handles!(c)'
      BY DEF Handles
    <3>2. CASE c = cur
      BY <3>1, <3>2, <2>1 DEF Got, IsInjective
    <3>3. CASE c # cur
      BY <3>1, <3>3, <2>1 DEF Got
    <3> QED
      BY <3>2, <3>3
  <2> QED
    BY <2>2, <2>3
<1> QED
  BY <1>0, <1>1, <1>2, <1>3, <1>4, <1>5, <1>6, <1>7, <1>8, <1>9, <1>10, <1>11, <1>12, Steps

(* One call less to make.                                                  *)
LEMMA DictsInTail ==
  ASSUME LoadTypes, todo # <<>>
  PROVE  DictsIn(todo) = DictsIn(Tail(todo)) \cup
           (IF Head(todo).op = "DICT" THEN {Head(todo).name} ELSE {})
<1>1. /\ todo \in Seq(ScriptCalls) /\ Len(todo) \in Nat /\ Len(todo) > 0
      /\ Head(todo) = todo[1] /\ Len(Tail(todo)) = Len(todo) - 1
      /\ \A i \in 1 .. Len(todo) - 1 : Tail(todo)[i] = todo[i + 1]
      /\ DOMAIN todo = 1 .. Len(todo) /\ DOMAIN Tail(todo) = 1 .. Len(todo) - 1
  BY HeadTailProperties DEF LoadTypes
<1>2. ASSUME NEW m \in DictsIn(todo)
      PROVE  m \in DictsIn(Tail(todo)) \/ (Head(todo).op = "DICT" /\ m = Head(todo).name)
  <2>1. PICK i \in 1 .. Len(todo) : todo[i].op = "DICT" /\ m = todo[i].name
    BY <1>1 DEF DictsIn
  <2>2. CASE i = 1
    BY <2>1, <2>2, <1>1
  <2>3. CASE i # 1
    <3>1. i - 1 \in 1 .. Len(todo) - 1 /\ Tail(todo)[i - 1] = todo[i]
      BY <2>3, <1>1
    <3> QED
      BY <3>1, <2>1, <1>1 DEF DictsIn
  <2> QED
    BY <2>2, <2>3
<1>3. ASSUME NEW m \in DictsIn(Tail(todo)) PROVE m \in DictsIn(todo)
  <2>1. PICK i \in 1 .. Len(todo) - 1 : Tail(todo)[i].op = "DICT" /\ m = Tail(todo)[i].name
    BY <1>1 DEF DictsIn
  <2>2. i + 1 \in 1 .. Len(todo) /\ todo[i + 1] = Tail(todo)[i]
    BY <1>1
  <2> QED
    BY <2>1, <2>2, <1>1 DEF DictsIn
<1>4. Head(todo).op = "DICT" => Head(todo).name \in DictsIn(todo)
  <2>1. 1 \in DOMAIN todo
    BY <1>1
  <2> QED
    BY <2>1, <1>1 DEF DictsIn
<1> QED
  BY <1>2, <1>3, <1>4

LEMMA NothingToDo == DictsIn(<<>>) = {}
  BY DEF DictsIn

LEMMA InitAsked == Init => Asked /\ ToAskOf
  BY ScriptsTyped DEF Init, Asked, ToAskOf, Inside, Got

(* A dictionary that a VM has is one of the instance, so not refused.      *)
LEMMA HadNotRefused ==
  ASSUME Handles, NEW c \in Confs, NEW v \in VMs, NEW n \in Names, Got(c, v, n)
  PROVE  n \in ToSet(dicts[c]) /\ ~Refused(c, n)
<1>1. n \in ToSet(dicts[c])
  BY DEF Handles, ToSet
<1> QED
  BY <1>1 DEF Refused

(* The loading has ended: nobody is inside.                                *)
LEMMA AskedEnds ==
  ASSUME LoadTypes, Stages, Asked, cur \in Confs, Loading, GiveUp
  PROVE  Asked' /\ ToAskOf'
<1>1. /\ status' = [status EXCEPT ![cur] = "failed"] /\ UNCHANGED <<script, handle, dicts>>
      /\ pc' = "idle"
  BY DEF GiveUp, Idle
<1>2. /\ ~Inside'
      /\ \A c \in Confs, n \in Names : Gets(c, n)' <=> Gets(c, n)
  BY <1>1 DEF Inside, Gets, Refused, DictsOf
<1>3. \A c \in Confs : status'[c] \notin {"loading"} /\ (status'[c] = "failed" \/ status'[c] = status[c])
  BY <1>1 DEF LoadTypes, Stages
<1> QED
  BY <1>1, <1>2, <1>3 DEF Asked, ToAskOf, Got

(* The dictionaries stay as they are, and what a script has still to ask   *)
(* for also, but for one that it does not get.                             *)
LEMMA AskedSame ==
  ASSUME Asked, ToAskOf, UNCHANGED <<status, script, handle, dicts, pc, cur, vm>>,
         Inside => /\ ToAsk' \subseteq ToAsk
                   /\ \A n \in ToAsk \ ToAsk' : Refused(cur, n)
  PROVE  Asked' /\ ToAskOf'
<1>1. /\ \A c \in Confs : DictsOf(c)' = DictsOf(c)
      /\ \A c \in Confs, n \in Names : (Gets(c, n)' <=> Gets(c, n)) /\ (Refused(c, n)' <=> Refused(c, n))
      /\ \A c \in Confs, v \in VMs, n \in Names : Got(c, v, n)' <=> Got(c, v, n)
      /\ Inside' <=> Inside
  BY DEF DictsOf, Gets, Refused, Got, Inside
<1>2. DictsOf(cur)' = DictsOf(cur)
  BY DEF DictsOf
<1>3. ToAskOf'
  BY <1>1, <1>2 DEF ToAskOf
<1>4. ASSUME NEW c \in Confs, NEW v \in VMs, NEW n \in Names PROVE Asked!(c, v, n)'
  <2>1. Asked!(c, v, n)
    BY DEF Asked
  <2>2. Inside /\ n \in ToAsk /\ n \notin ToAsk' => Refused(cur, n)
    OBVIOUS
  <2>3. ASSUME c = cur, v = vm, Inside, n \in DictsOf(c)
        PROVE  Got(c, v, n) \/ n \in ToAsk' \/ Refused(c, n)
    BY <2>1, <2>2, <2>3
  <2> QED
    BY <1>1, <2>1, <2>3
<1> QED
  BY <1>3, <1>4 DEF Asked

(* A call that leaves the dictionaries as they are.                        *)
LEMMA AskedKept ==
  ASSUME LoadTypes, Stages, Asked, ToAskOf, todo # <<>>,
         Head(todo).op = "DICT" => Refused(cur, Head(todo).name),
         UNCHANGED <<status, script, handle, dicts, pc, cur, vm>>, todo' = Tail(todo)
  PROVE  Asked' /\ ToAskOf'
<1>1. DictsIn(todo) = DictsIn(todo)' \cup
        (IF Head(todo).op = "DICT" THEN {Head(todo).name} ELSE {})
  BY DictsInTail DEF DictsIn
<1>2. ToAsk = ToAsk' \cup (IF Head(todo).op = "DICT" THEN {Head(todo).name} ELSE {})
  BY <1>1 DEF ToAsk, DictsIn
<1> QED
  BY <1>2, AskedSame

(* A DICT that the thread gets while it loads.                             *)
LEMMA AskedFound ==
  ASSUME LoadTypes, Stages, Asked, ToAskOf, Handles,
         NEW n \in Names, NEW i \in 1 .. MaxDicts, Finds(n, i)
  PROVE  Asked' /\ ToAskOf'
<1>1. /\ cur \in Confs /\ status[cur] \in {"loading", "deleting"} /\ i # 0
      /\ UNCHANGED <<status, script, pc, cur, vm>>
      /\ todo' = Tail(todo) /\ todo # <<>> /\ Head(todo).op = "DICT" /\ Head(todo).name = n
      /\ handle' = [handle EXCEPT ![cur][vm][n] = i]
  BY DEF Finds, Goes, Locked, Stages, Loading, Deleting
<1>2. \A c \in Confs, v \in VMs, m \in Names :
        Got(c, v, m)' <=> Got(c, v, m) \/ (c = cur /\ v = vm /\ m = n)
  <2>1. \A c \in Confs, v \in VMs, m \in Names : handle'[c][v][m] =
          IF c = cur /\ v = vm /\ m = n THEN i ELSE handle[c][v][m]
    <3>1. handle' = [handle EXCEPT ![cur] = [handle[cur] EXCEPT ![vm] =
                       [handle[cur][vm] EXCEPT ![n] = i]]]
      BY <1>1
    <3>2. \A c \in Confs : handle'[c] = IF c = cur THEN [handle[cur] EXCEPT ![vm] =
                       [handle[cur][vm] EXCEPT ![n] = i]] ELSE handle[c]
      BY <3>1 DEF LoadTypes
    <3>3. handle[cur] \in [VMs -> [Names -> 0 .. MaxDicts]] /\ vm \in VMs
      BY <1>1 DEF LoadTypes
    <3>4. \A v \in VMs : handle'[cur][v] = IF v = vm THEN
                       [handle[cur][vm] EXCEPT ![n] = i] ELSE handle[cur][v]
      <4> DEFINE row == [handle[cur][vm] EXCEPT ![n] = i]
      <4>1. handle'[cur] = [handle[cur] EXCEPT ![vm] = row]
        BY <3>2, <1>1
      <4> HIDE DEF row
      <4>2. \A v \in VMs : handle'[cur][v] = IF v = vm THEN row ELSE handle[cur][v]
        BY <3>3, <4>1
      <4> QED
        BY <4>2 DEF row
    <3>5. handle[cur][vm] \in [Names -> 0 .. MaxDicts]
      BY <3>3
    <3>6. \A m \in Names : handle'[cur][vm][m] = IF m = n THEN i ELSE handle[cur][vm][m]
      BY <3>3, <3>4, <3>5
    <3> QED
      BY <3>2, <3>4, <3>6
  <2> QED
    BY <2>1, <1>1 DEF Got
<1>3. /\ \A c \in Confs : DictsOf(c)' = DictsOf(c)
      /\ DictsOf(cur)' = DictsOf(cur) /\ (Inside' <=> Inside)
  BY <1>1 DEF DictsOf, Inside
<1>4. ToAsk = ToAsk' \cup {n}
  <2>1. DictsIn(todo) = DictsIn(todo)' \cup {n}
    BY <1>1, DictsInTail DEF DictsIn
  <2> QED
    BY <2>1, <1>1 DEF ToAsk, DictsIn
<1>5. \A c \in Confs, m \in Names : c # cur => (Refused(c, m)' <=> Refused(c, m))
  <2>1. \A c \in Confs : c # cur => dicts'[c] = dicts[c]
    BY DEF Finds, LoadTypes
  <2> QED
    BY <2>1 DEF Refused
<1>6. ASSUME NEW c \in Confs, c = cur, NEW m \in Names
      PROVE  /\ Refused(c, m) => Refused(c, m)'
             /\ Refused(c, m)' => Refused(c, m) \/ m \notin ToSet(dicts[c])
  <2>1. CASE UNCHANGED dicts
    BY <2>1, <1>1 DEF Refused
  <2>2. CASE /\ dicts' = [dicts EXCEPT ![c] = Append(@, n)] /\ i = Len(dicts[c]) + 1
    <3>1. dicts[c] \in Seq(Names) /\ Len(dicts[c]) \in Nat /\ MaxDicts \in Nat
      BY <1>1, ScriptsTyped DEF LoadTypes
    <3>2. ~Refused(c, m)
      BY <2>2, <3>1 DEF Refused
    <3>3. dicts'[c] = Append(dicts[c], n)
      BY <2>2, <1>6, <1>1 DEF LoadTypes
    <3>4. ToSet(dicts[c]) \subseteq ToSet(dicts'[c])
      <4>1. /\ DOMAIN dicts[c] = 1 .. Len(dicts[c])
            /\ DOMAIN Append(dicts[c], n) = 1 .. Len(dicts[c]) + 1
            /\ \A k \in 1 .. Len(dicts[c]) : Append(dicts[c], n)[k] = dicts[c][k]
        BY <3>1, AppendProperties
      <4>2. \A k \in DOMAIN dicts[c] : k \in DOMAIN dicts'[c] /\ dicts'[c][k] = dicts[c][k]
        BY <3>1, <3>3, <4>1
      <4> QED
        BY <4>2 DEF ToSet
    <3>5. Refused(c, m)' => m \notin ToSet(dicts'[c])
      BY <1>1 DEF Refused
    <3> QED
      BY <3>2, <3>4, <3>5
  <2> QED
    BY <2>1, <2>2, <1>6 DEF Finds
<1>7. ToAskOf'
  BY <1>3, <1>4 DEF ToAskOf
<1>8. ASSUME NEW d \in Confs, NEW v \in VMs, NEW m \in Names PROVE Asked!(d, v, m)'
  <2>1. Asked!(d, v, m)
    BY DEF Asked
  <2>2. CASE d # cur
    <3>1. /\ Got(d, v, m)' <=> Got(d, v, m)
          /\ Gets(d, m)' <=> Gets(d, m)
      BY <2>2, <1>2, <1>3, <1>5 DEF Gets
    <3> QED
      BY <2>1, <2>2, <3>1, <1>1
  <2>3. CASE d = cur /\ v # vm
    <3>1. Got(d, v, m)' <=> Got(d, v, m)
      BY <2>3, <1>2
    <3>2. Got(d, v, m) => m \in ToSet(dicts[d]) /\ ~Refused(d, m)
      BY HadNotRefused
    <3>3. (Got(d, v, m) <=> Gets(d, m)) => (Got(d, v, m)' <=> Gets(d, m)')
      <4>1. /\ Refused(d, m) => Refused(d, m)'
            /\ Refused(d, m)' => Refused(d, m) \/ m \notin ToSet(dicts[d])
        BY <2>3, <1>6
      <4>2. Gets(d, m)' <=> m \in DictsOf(d) /\ ~Refused(d, m)'
        BY <1>3 DEF Gets
      <4>3. Gets(d, m) <=> m \in DictsOf(d) /\ ~Refused(d, m)
        BY DEF Gets
      <4> QED
        BY <3>1, <3>2, <4>1, <4>2, <4>3, Zenon
    <3>4. status[d] \notin {"free", "served"}
      BY <2>3, <1>1
    <3> QED
      BY <2>1, <2>3, <3>1, <3>3, <3>4, <1>1
  <2>4. CASE d = cur /\ v = vm
    <3>1. ~(v < vm) /\ ~(v > vm) /\ pc # "lock" /\ status[d] \notin {"free", "served"}
      <4>1. v \in Nat
        BY Places
      <4> QED
        BY <4>1, <2>4, <1>1 DEF Finds, Locked
    <3>2. Inside => /\ Got(d, v, m)' => m \in DictsOf(d)
                    /\ m \in DictsOf(d) => Got(d, v, m)' \/ m \in ToAsk' \/ Refused(d, m)'
      <4>1. Inside => n \in DictsOf(d)
        BY <1>4, <2>4 DEF ToAskOf
      <4>2. Got(d, v, m)' <=> Got(d, v, m) \/ m = n
        BY <2>4, <1>2
      <4>3. m \in ToAsk => m \in ToAsk' \/ m = n
        BY <1>4
      <4>4. Refused(d, m) => Refused(d, m)'
        BY <2>4, <1>6
      <4>5. Inside => /\ Got(d, v, m) => m \in DictsOf(d)
                      /\ m \in DictsOf(d) => Got(d, v, m) \/ m \in ToAsk \/ Refused(d, m)
        BY <2>1, <2>4
      <4> QED
        BY <4>1, <4>2, <4>3, <4>4, <4>5, Zenon
    <3> QED
      BY <2>4, <3>1, <3>2, <1>1, <1>3
  <2> QED
    BY <2>2, <2>3, <2>4
<1> QED
  BY <1>7, <1>8 DEF Asked

LEMMA NextAsked ==
  LoadTypes /\ Stages /\ Handles /\ Asked /\ ToAskOf /\ [Next]_vars => (Asked /\ ToAskOf)'
<1> SUFFICES ASSUME LoadTypes, Stages, Handles, Asked, ToAskOf, [Next]_vars PROVE (Asked /\ ToAskOf)'
  OBVIOUS
<1> USE DEF LoadTypes, Stages, Loading, Deleting, Asked, ToAskOf
<1>0. CASE UNCHANGED vars
  <2>1. UNCHANGED <<status, script, handle, dicts, pc, cur, vm, todo>>
    BY <1>0 DEF vars, here, confVars
  <2>2. ToAsk' = ToAsk
    BY <2>1 DEF ToAsk, DictsIn
  <2> QED
    BY <2>1, <2>2, AskedSame
<1>1. CASE \E c \in Confs, s \in Scripts : NewInstance(c, s)
  <2> PICK c \in Confs, s \in Scripts : NewInstance(c, s)
    BY <1>1
  <2>1. /\ status[c] = "free" /\ status' = [status EXCEPT ![c] = "loading"]
        /\ script' = [script EXCEPT ![c] = s] /\ UNCHANGED <<handle, dicts>>
        /\ vm' = 1 /\ pc = "idle" /\ pc' = "lock"
    BY DEF NewInstance
  <2>2. ~Inside'
    BY <2>1 DEF Inside
  <2>3. ASSUME NEW d \in Confs, NEW v \in VMs, NEW n \in Names PROVE Asked!(d, v, n)'
    <3>1. ~(v < 1)
      <4>1. v \in Nat /\ 1 <= v
        BY Places
      <4> QED
        BY <4>1
    <3>2. CASE d = c
      BY <2>1, <2>2, <3>1, <3>2 DEF Got
    <3>3. CASE d # c
      <4>1. status'[d] = status[d] /\ status[d] \notin {"loading", "deleting"}
        BY <2>1, <3>3, ScriptsTyped
      <4>2. Gets(d, n)' <=> Gets(d, n)
        BY <2>1, <3>3 DEF Gets, Refused, DictsOf
      <4> QED
        BY <4>1, <4>2, <2>1, <2>2 DEF Got
    <3> QED
      BY <3>2, <3>3
  <2> QED
    BY <2>2, <2>3 DEF Asked, ToAskOf
<1>2. CASE LockVM
  <2>1. /\ pc = "lock" /\ pc' = "main" /\ todo' = script[cur].main
        /\ UNCHANGED <<status, script, handle, dicts, cur, vm>> /\ cur \in Confs /\ status[cur] = "loading"
    BY <1>2 DEF LockVM, confVars
  <2>2. /\ ToAsk' = DictsOf(cur) /\ \A c \in Confs : DictsOf(c)' = DictsOf(c)
        /\ \A c \in Confs, n \in Names : Gets(c, n)' <=> Gets(c, n)
    BY <2>1 DEF ToAsk, DictsOf, DictsIn, Gets, Refused
  <2> QED
    BY <2>1, <2>2 DEF Asked, ToAskOf, Got, Inside
<1>3. CASE Quits
  BY <1>3, AskedEnds DEF Quits, Inside
<1>4. CASE MainEnds
  <2>1. pc = "main" /\ todo = <<>> /\ cur \in Confs
    BY <1>4 DEF MainEnds
  <2>2. CASE GiveUp
    BY <2>1, <2>2, AskedEnds
  <2>3. CASE /\ pc' = "init" /\ todo' = script[cur].init
             /\ UNCHANGED <<status, script, handle, dicts, cur, vm>>
    <3>1. /\ ToAsk' = ToAsk /\ \A c \in Confs : DictsOf(c)' = DictsOf(c)
          /\ \A c \in Confs, n \in Names : (Gets(c, n)' <=> Gets(c, n)) /\ (Refused(c, n)' <=> Refused(c, n))
      BY <2>1, <2>3, NothingToDo DEF ToAsk, DictsOf, DictsIn, Gets, Refused
    <3> QED
      BY <3>1, <2>1, <2>3 DEF Asked, ToAskOf, Got, Inside
  <2> QED
    BY <1>4, <2>2, <2>3 DEF MainEnds, confVars
<1>5. CASE Register
  <2>1. /\ pc = "init" /\ todo = <<>> /\ cur \in Confs /\ status[cur] = "loading"
        /\ UNCHANGED <<script, handle, dicts>>
    BY <1>5 DEF Register
  <2>2. Inside /\ ToAsk = {}
    BY <2>1, NothingToDo DEF Inside, ToAsk
  <2>3. \A n \in Names : Got(cur, vm, n) <=> Gets(cur, n)
    BY <2>1, <2>2, HadNotRefused DEF Asked, Gets
  <2>4. /\ \A c \in Confs, n \in Names : Gets(c, n)' = Gets(c, n)
        /\ \A c \in Confs, v \in VMs, n \in Names : Got(c, v, n)' = Got(c, v, n)
    BY <2>1 DEF DictsOf, Gets, Refused, Got
  <2>5. ~Inside'
    BY <1>5 DEF Register, Idle, Inside
  <2>6. ASSUME NEW d \in Confs, NEW v \in VMs, NEW n \in Names PROVE Asked!(d, v, n)'
    <3>1. vm \in Nat /\ v \in Nat /\ v <= N
      BY Places
    <3>2. CASE vm = N
      <4>1. status' = [status EXCEPT ![cur] = "served"]
        BY <1>5, <3>2 DEF Register
      <4>2. CASE d = cur
        <5>1. v < vm \/ v = vm
          BY <3>1, <3>2
        <5> QED
          BY <5>1, <4>1, <4>2, <2>1, <2>3, <2>4, <2>5 DEF Asked
      <4>3. CASE d # cur
        <5>1. status'[d] = status[d] /\ status[d] # "loading"
          BY <4>1, <4>3
        <5> QED
          BY <5>1, <2>4, <2>5 DEF Asked
      <4> QED
        BY <4>2, <4>3
    <3>3. CASE vm # N
      <4>1. status' = status /\ vm' = vm + 1
        BY <1>5, <3>3 DEF Register
      <4>2. CASE d = cur
        <5>1. /\ v < vm + 1 <=> v < vm \/ v = vm
              /\ v > vm + 1 \/ v = vm + 1 => v > vm
          BY <3>1
        <5> QED
          BY <5>1, <4>1, <4>2, <2>1, <2>3, <2>4, <2>5 DEF Asked
      <4>3. CASE d # cur
        <5>1. status'[d] = status[d] /\ status[d] # "loading"
          BY <4>1, <4>3
        <5> QED
          BY <5>1, <2>4, <2>5 DEF Asked
      <4> QED
        BY <4>2, <4>3
    <3> QED
      BY <3>2, <3>3
  <2> QED
    BY <2>5, <2>6 DEF Asked, ToAskOf
<1>6. CASE Broken
  BY <1>6, AskedSame DEF Broken, Inside, confVars
<1>7. CASE GoesOn
  BY <1>7, AskedKept DEF GoesOn, Goes, confVars
<1>8. CASE \E n \in Names, i \in 1 .. MaxDicts : Finds(n, i)
  BY <1>8, AskedFound
<1>9. CASE DictInit
  <2>1. Head(todo).op # "DICT" /\ todo # <<>>
    BY <1>9 DEF DictInit, Calls
  <2> QED
    BY <1>9, <2>1, AskedKept DEF DictInit, Goes
<1>10. CASE \E c \in Confs : Delete(c)
  <2> PICK c \in Confs : Delete(c)
    BY <1>10
  <2>1. /\ status[c] = "served" /\ status' = [status EXCEPT ![c] = "deleting"]
        /\ UNCHANGED <<script, handle, dicts>> /\ pc = "idle" /\ pc' = "delete"
    BY DEF Delete
  <2>2. ~Inside' /\ \A d \in Confs, n \in Names : Gets(d, n)' <=> Gets(d, n)
    BY <2>1 DEF Inside, DictsOf, Gets, Refused
  <2>3. \A d \in Confs : status[d] # "loading"
    BY <2>1, ScriptsTyped
  <2>4. \A d \in Confs : status'[d] = status[d] \/ status'[d] = "deleting"
    BY <2>1
  <2> QED
    BY <2>1, <2>2, <2>3, <2>4 DEF Asked, ToAskOf, Got
<1>11. CASE CleanVM
  <2>1. /\ UNCHANGED <<status, script, handle, dicts, cur, vm>>
        /\ pc = "delete" /\ pc' = "clean"
    BY <1>11 DEF CleanVM, confVars
  <2>2. ~Inside' /\ \A d \in Confs, n \in Names : Gets(d, n)' <=> Gets(d, n)
    BY <2>1 DEF Inside, DictsOf, Gets, Refused
  <2>3. \A d \in Confs : status[d] # "loading"
    BY <2>1
  <2> QED
    BY <2>1, <2>2, <2>3 DEF Asked, ToAskOf, Got
<1>12. CASE Unregister
  <2>1. cur \in Confs /\ status[cur] = "deleting" /\ pc = "clean"
    BY <1>12 DEF Unregister
  <2>2. ~Inside'
    BY <1>12 DEF Unregister, Idle, Inside
  <2>3. \A d \in Confs : status[d] # "loading"
    BY <2>1
  <2>4. CASE vm < N
    <3>1. UNCHANGED <<status, script, handle, dicts>>
      BY <1>12, <2>4 DEF Unregister, confVars
    <3>2. \A d \in Confs, n \in Names : Gets(d, n)' <=> Gets(d, n)
      BY <3>1 DEF Gets, Refused, DictsOf
    <3> QED
      BY <3>1, <3>2, <2>2, <2>3 DEF Asked, ToAskOf, Got
  <2>5. CASE ~(vm < N)
    <3>1. /\ status' = [status EXCEPT ![cur] = "free"]
          /\ script' = [script EXCEPT ![cur] = NoScript]
          /\ dicts' = [dicts EXCEPT ![cur] = <<>>]
          /\ handle' = [handle EXCEPT ![cur] = [v \in VMs |-> [n \in Names |-> 0]]]
      BY <1>12, <2>5 DEF Unregister
    <3>2. ASSUME NEW d \in Confs, NEW v \in VMs, NEW n \in Names PROVE Asked!(d, v, n)'
      <4>1. CASE d = cur
        BY <4>1, <3>1, <2>2, <2>1 DEF Got
      <4>2. CASE d # cur
        <5>1. /\ status'[d] = status[d] /\ (Gets(d, n)' <=> Gets(d, n))
              /\ Got(d, v, n)' = Got(d, v, n)
          BY <4>2, <3>1 DEF DictsOf, Gets, Refused, Got
        <5> QED
          BY <5>1, <2>2, <2>3 DEF Asked
      <4> QED
        BY <4>1, <4>2
    <3> QED
      BY <3>2, <2>2 DEF Asked, ToAskOf
  <2> QED
    BY <2>4, <2>5
<1> QED
  BY <1>0, <1>1, <1>2, <1>3, <1>4, <1>5, <1>6, <1>7, <1>8, <1>9, <1>10, <1>11, <1>12, Steps

-----------------------------------------------------------------------------
(* Induction on the naturals, for the set of those that have a property.   *)
LEMMA EveryNat ==
  ASSUME NEW T \in SUBSET Nat, 0 \in T, \A n \in T : n + 1 \in T
  PROVE  T = Nat
<1> SUFFICES ASSUME Nat \ T # {} PROVE FALSE
  OBVIOUS
<1>1. PICK n \in Nat \ T : \A m \in Nat \ T : ~ (<<m, n>> \in OpToRel(<, Nat))
  BY NatLessThanWellFounded, WFMin
<1>2. \A m \in Nat \ T : ~ (m < n)
  BY <1>1 DEF OpToRel
<1>3. n - 1 \in T
  BY <1>2
<1> QED
  BY <1>3

(* The definition of FlattenSeq by recursion describes a function: what it *)
(* is for the first i sequences.                                           *)
LEMMA Flattens ==
  ASSUME NEW S, NEW ss \in Seq(Seq(S))
  PROVE  \E f \in [0 .. Len(ss) -> Seq(S)] :
           /\ f[0] = <<>> /\ FlattenSeq(ss) = f[Len(ss)]
           /\ \A i \in 1 .. Len(ss) : f[i] = f[i - 1] \o ss[i]
<1> DEFINE Rhs(g, i) == IF i = 1 THEN ss[i] ELSE g[i - 1] \o ss[i]
           Solves(g, n) == g = [i \in 1 .. n |-> Rhs(g, i)]
           T == {n \in Nat : n <= Len(ss) => \E g \in [1 .. n -> Seq(S)] : Solves(g, n)}
           flatten == CHOOSE g : Solves(g, Len(ss))
<1>1. Len(ss) \in Nat /\ DOMAIN ss = 1 .. Len(ss) /\ \A i \in 1 .. Len(ss) : ss[i] \in Seq(S)
  OBVIOUS
<1>2. 0 \in T
  <2>1. <<>> \in [1 .. 0 -> Seq(S)] /\ Solves(<<>>, 0)
    OBVIOUS
  <2> QED
    BY <2>1
<1>3. ASSUME NEW n \in T PROVE n + 1 \in T
  <2> SUFFICES ASSUME n + 1 <= Len(ss) PROVE \E g \in [1 .. n + 1 -> Seq(S)] : Solves(g, n + 1)
    <3> HIDE DEF Solves
    <3> QED OBVIOUS
  <2>1. PICK g \in [1 .. n -> Seq(S)] : Solves(g, n)
    <3> HIDE DEF Solves
    <3> QED BY <1>1
  <2> DEFINE h == [i \in 1 .. n + 1 |-> Rhs(g, i)]
  <2>2. ASSUME NEW i \in 1 .. n PROVE h[i] = g[i]
    <3> HIDE DEF Rhs
    <3>1. h[i] = Rhs(g, i)
      OBVIOUS
    <3> QED
      BY <2>1, <3>1
  <2>3. ASSUME NEW i \in 1 .. n + 1 PROVE Rhs(h, i) = Rhs(g, i) /\ Rhs(g, i) \in Seq(S)
    <3>1. CASE i = 1
      BY <1>1, <3>1
    <3>2. CASE i # 1
      <4>1. i - 1 \in 1 .. n /\ ss[i] \in Seq(S)
        BY <1>1, <3>2
      <4>2. h[i - 1] = g[i - 1] /\ g[i - 1] \in Seq(S)
        BY <4>1, <2>2
      <4> HIDE DEF h
      <4> QED
        BY <3>2, <4>1, <4>2
    <3> QED
      BY <3>1, <3>2
  <2>4. h \in [1 .. n + 1 -> Seq(S)] /\ Solves(h, n + 1)
    <3> HIDE DEF Rhs
    <3>1. h = [i \in 1 .. n + 1 |-> Rhs(g, i)]
      OBVIOUS
    <3> HIDE DEF h
    <3> QED
      BY <2>3, <3>1
  <2> HIDE DEF h, Solves
  <2> QED
    BY <2>4
<1>4. \E g \in [1 .. Len(ss) -> Seq(S)] : Solves(g, Len(ss))
  <2>1. T \subseteq Nat
    OBVIOUS
  <2> HIDE DEF T
  <2>2. Len(ss) \in T
    BY <1>1, <1>2, <1>3, <2>1, EveryNat
  <2> HIDE DEF Solves
  <2> QED
    BY <1>1, <2>2 DEF T
<1>5. Solves(flatten, Len(ss))
  <2> HIDE DEF Solves
  <2> QED
    BY <1>4
<1>6. FlattenSeq(ss) = IF Len(ss) = 0 THEN ss ELSE flatten[Len(ss)]
  BY DEF FlattenSeq
<1>7. flatten \in [1 .. Len(ss) -> Seq(S)]
  <2> DEFINE W == {n \in Nat : n + 1 <= Len(ss) => flatten[n + 1] \in Seq(S)}
  <2> HIDE DEF flatten
  <2>1. 0 \in W
    BY <1>1, <1>5
  <2>2. ASSUME NEW n \in W PROVE n + 1 \in W
    <3> SUFFICES ASSUME n + 2 <= Len(ss) PROVE flatten[n + 2] \in Seq(S)
      OBVIOUS
    <3>1. flatten[n + 2] = flatten[n + 1] \o ss[n + 2]
      <4>1. PICK j \in 1 .. Len(ss) : j = n + 2 /\ j # 1 /\ j - 1 = n + 1
        BY <1>1
      <4>2. flatten[j] = flatten[j - 1] \o ss[j]
        BY <1>5, <4>1
      <4> QED
        BY <4>1, <4>2
    <3>2. flatten[n + 1] \in Seq(S) /\ ss[n + 2] \in Seq(S)
      BY <1>1
    <3> QED
      BY <3>1, <3>2
  <2>3. W = Nat
    <3>1. W \subseteq Nat
      OBVIOUS
    <3> HIDE DEF W
    <3> QED
      BY <2>1, <2>2, <3>1, EveryNat
  <2>4. ASSUME NEW i \in 1 .. Len(ss) PROVE flatten[i] \in Seq(S)
    <3>1. i - 1 \in Nat /\ i - 1 + 1 = i /\ i <= Len(ss)
      BY <1>1
    <3> QED
      BY <3>1, <2>3
  <2> QED
    BY <1>5, <2>4
<1> DEFINE f == [i \in 0 .. Len(ss) |-> IF i = 0 THEN <<>> ELSE flatten[i]]
<1> HIDE DEF flatten
<1>8. f \in [0 .. Len(ss) -> Seq(S)] /\ f[0] = <<>>
  BY <1>1, <1>7
<1>9. FlattenSeq(ss) = f[Len(ss)]
  BY <1>1, <1>6
<1>10. ASSUME NEW i \in 1 .. Len(ss) PROVE f[i] = f[i - 1] \o ss[i]
  <2>1. flatten[i] = Rhs(flatten, i) /\ ss[i] \in Seq(S)
    BY <1>1, <1>5
  <2>2. f[i] = flatten[i]
    BY <1>1
  <2>3. CASE i = 1
    BY <2>1, <2>2, <2>3, <1>1
  <2>4. CASE i # 1
    BY <2>1, <2>2, <2>4, <1>1
  <2> QED
    BY <2>3, <2>4
<1> HIDE DEF f
<1> QED
  BY <1>8, <1>9, <1>10
(* What is in a concatenation.                                             *)
LEMMA ConcatSet ==
  ASSUME NEW S, NEW s \in Seq(S), NEW t \in Seq(S)
  PROVE  ToSet(s \o t) = ToSet(s) \cup ToSet(t)
<1>1. /\ DOMAIN s = 1 .. Len(s) /\ DOMAIN t = 1 .. Len(t) /\ DOMAIN (s \o t) = 1 .. Len(s) + Len(t)
      /\ Len(s) \in Nat /\ Len(t) \in Nat
      /\ \A i \in 1 .. Len(s) : (s \o t)[i] = s[i]
      /\ \A i \in 1 .. Len(t) : (s \o t)[Len(s) + i] = t[i]
  OBVIOUS
<1>2. ASSUME NEW x \in ToSet(s \o t) PROVE x \in ToSet(s) \cup ToSet(t)
  <2>1. PICK i \in 1 .. Len(s) + Len(t) : x = (s \o t)[i]
    BY <1>1 DEF ToSet
  <2>2. CASE i <= Len(s)
    BY <1>1, <2>1, <2>2 DEF ToSet
  <2>3. CASE i > Len(s)
    <3>1. PICK j \in 1 .. Len(t) : i = Len(s) + j
      <4>1. i - Len(s) \in 1 .. Len(t) /\ i = Len(s) + (i - Len(s))
        BY <1>1, <2>3
      <4> QED
        BY <4>1
    <3> QED
      BY <1>1, <2>1, <3>1 DEF ToSet
  <2> QED
    BY <1>1, <2>2, <2>3
<1>3. ASSUME NEW x \in ToSet(s) PROVE x \in ToSet(s \o t)
  <2>1. PICK i \in 1 .. Len(s) : x = s[i]
    BY <1>1 DEF ToSet
  <2>2. i \in 1 .. Len(s) + Len(t)
    BY <1>1
  <2> QED
    BY <1>1, <2>1, <2>2 DEF ToSet
<1>4. ASSUME NEW x \in ToSet(t) PROVE x \in ToSet(s \o t)
  <2>1. PICK i \in 1 .. Len(t) : x = t[i]
    BY <1>1 DEF ToSet
  <2>2. Len(s) + i \in 1 .. Len(s) + Len(t)
    BY <1>1
  <2> QED
    BY <1>1, <2>1, <2>2 DEF ToSet
<1> QED
  BY <1>2, <1>3, <1>4

(* What is left of a path's entries when those of K are taken out.         *)
LEMMA FirstUnknown ==
  ASSUME NEW S, NEW s \in Seq(S), NEW list
  PROVE  /\ Unknown(s, list) \in Seq(S)
         /\ ToSet(Unknown(s, list)) = ToSet(s) \ ToSet(list)
<1> DEFINE K == ToSet(list)
           ss == [i \in DOMAIN s |-> IF s[i] \in K THEN <<>> ELSE <<s[i]>>]
<1> HIDE DEF K
<1>1. /\ DOMAIN s = 1 .. Len(s) /\ Len(s) \in Nat
      /\ \A i \in 1 .. Len(s) : s[i] \in S
  OBVIOUS
<1>2. ss \in Seq(Seq(S)) /\ Len(ss) = Len(s)
  <2>1. \A i \in 1 .. Len(s) : ss[i] \in Seq(S)
    BY <1>1
  <2>2. ss \in [1 .. Len(s) -> Seq(S)]
    <3> HIDE DEF ss
    <3>1. ss = [i \in 1 .. Len(s) |-> ss[i]]
      BY <1>1 DEF ss
    <3> QED
      BY <2>1, <3>1
  <2> HIDE DEF ss
  <2> QED
    BY <1>1, <2>2
<1>3. PICK f \in [0 .. Len(ss) -> Seq(S)] :
        /\ f[0] = <<>> /\ FlattenSeq(ss) = f[Len(ss)]
        /\ \A i \in 1 .. Len(ss) : f[i] = f[i - 1] \o ss[i]
  <2> HIDE DEF ss
  <2> QED
    BY <1>2, Flattens
<1>4. ASSUME NEW i \in 1 .. Len(s)
      PROVE  f[i] = f[i - 1] \o ss[i] /\ f[i - 1] \in Seq(S) /\ ss[i] \in Seq(S)
  <2> HIDE DEF ss
  <2>1. i - 1 \in 0 .. Len(ss) /\ i \in 1 .. Len(ss)
    BY <1>1, <1>2
  <2>2. f[i - 1] \in Seq(S)
    BY <1>3, <2>1
  <2>3. ss[i] \in Seq(S)
    BY <1>2, <2>1
  <2> QED
    BY <1>3, <2>1, <2>2, <2>3
<1> DEFINE Taken(n) == {s[i] : i \in 1 .. n} \ K
           T == {n \in Nat : n <= Len(s) => ToSet(f[n]) = Taken(n)}
<1>5. 0 \in T
  <2>1. ToSet(f[0]) = {} /\ Taken(0) = {}
    BY <1>3 DEF ToSet
  <2> QED
    BY <2>1
<1>6. ASSUME NEW n \in T PROVE n + 1 \in T
  <2> SUFFICES ASSUME n + 1 <= Len(s) PROVE ToSet(f[n + 1]) = Taken(n + 1)
    <3> HIDE DEF Taken
    <3> QED
      OBVIOUS
  <2>1. PICK m \in 1 .. Len(s) : m = n + 1 /\ m - 1 = n
    BY <1>1
  <2>2. ToSet(f[n]) = Taken(n)
    <3> HIDE DEF Taken
    <3> QED
      BY <1>1
  <2>3. f[m] = f[n] \o ss[m] /\ f[n] \in Seq(S) /\ ss[m] \in Seq(S)
    <3> HIDE DEF ss
    <3> QED
      BY <1>4, <2>1
  <2>4. ToSet(f[m]) = ToSet(f[n]) \cup ToSet(ss[m])
    <3> HIDE DEF ss
    <3> QED
      BY <2>3, ConcatSet
  <2>5. ToSet(ss[m]) = {s[m]} \ K
    BY <1>1 DEF ToSet
  <2>6. Taken(m) = Taken(n) \cup ({s[m]} \ K)
    BY <2>1
  <2> QED
    BY <2>1, <2>2, <2>4, <2>5, <2>6
<1>7. T = Nat
  <2>1. T \subseteq Nat
    OBVIOUS
  <2> HIDE DEF T
  <2> QED
    BY <1>5, <1>6, <2>1, EveryNat
<1>8. ToSet(f[Len(s)]) = Taken(Len(s))
  <2> HIDE DEF Taken
  <2>1. Len(s) \in T
    BY <1>1, <1>7
  <2> QED
    BY <2>1
<1>9. Unknown(s, list) = f[Len(s)] /\ f[Len(s)] \in Seq(S)
  <2>1. Unknown(s, list) = FlattenSeq(ss)
    BY DEF Unknown, K
  <2> HIDE DEF ss
  <2> QED
    BY <1>1, <1>2, <1>3, <2>1
<1>10. ToSet(s) = {s[i] : i \in 1 .. Len(s)}
  BY <1>1 DEF ToSet
<1> HIDE DEF ss, T
<1> QED
  BY <1>8, <1>9, <1>10 DEF K

-----------------------------------------------------------------------------
(* One call less to make.                                                  *)
LEMMA EntriesInTail ==
  ASSUME LoadTypes, todo # <<>>, NEW k
  PROVE  EntriesIn(todo, k) = EntriesIn(Tail(todo), k) \cup
           (IF Head(todo).op = k THEN ToSet(Head(todo).entries) ELSE {})
<1>1. /\ todo \in Seq(ScriptCalls) /\ Len(todo) \in Nat /\ Len(todo) > 0
      /\ Head(todo) = todo[1] /\ Len(Tail(todo)) = Len(todo) - 1
      /\ \A i \in 1 .. Len(todo) - 1 : Tail(todo)[i] = todo[i + 1]
      /\ DOMAIN todo = 1 .. Len(todo) /\ DOMAIN Tail(todo) = 1 .. Len(todo) - 1
  BY HeadTailProperties DEF LoadTypes
<1>2. ASSUME NEW e \in EntriesIn(todo, k)
      PROVE  e \in EntriesIn(Tail(todo), k) \/ (Head(todo).op = k /\ e \in ToSet(Head(todo).entries))
  <2>1. PICK i \in 1 .. Len(todo) : todo[i].op = k /\ e \in ToSet(todo[i].entries)
    BY <1>1 DEF EntriesIn
  <2>2. CASE i = 1
    BY <2>1, <2>2, <1>1
  <2>3. CASE i # 1
    <3>1. i - 1 \in 1 .. Len(todo) - 1 /\ Tail(todo)[i - 1] = todo[i]
      BY <2>3, <1>1
    <3> QED
      BY <3>1, <2>1, <1>1 DEF EntriesIn
  <2> QED
    BY <2>2, <2>3
<1>3. ASSUME NEW e \in EntriesIn(Tail(todo), k) PROVE e \in EntriesIn(todo, k)
  <2>1. PICK i \in 1 .. Len(todo) - 1 : Tail(todo)[i].op = k /\ e \in ToSet(Tail(todo)[i].entries)
    BY <1>1 DEF EntriesIn
  <2>2. i + 1 \in 1 .. Len(todo) /\ todo[i + 1] = Tail(todo)[i]
    BY <1>1
  <2> QED
    BY <2>1, <2>2, <1>1 DEF EntriesIn
<1>4. Head(todo).op = k => ToSet(Head(todo).entries) \subseteq EntriesIn(todo, k)
  <2>1. 1 \in DOMAIN todo
    BY <1>1
  <2> QED
    BY <2>1, <1>1 DEF EntriesIn
<1> QED
  BY <1>2, <1>3, <1>4

LEMMA NothingToAdd == \A k : EntriesIn(<<>>, k) = {}
  BY DEF EntriesIn

-----------------------------------------------------------------------------
LEMMA InitPathTypes == Init => PathTypes
  BY LoadingAssumption DEF Init, PathTypes, LoadingAssumption

(* The old path as it is printed, and the new entries behind it.           *)
Wide    == Entries \cup {Garbage}
Whole(p) == \A i \in DOMAIN p : i <= Copied => p[i] # Garbage

LEMMA PrintedTyped ==
  ASSUME NEW p \in Seq(Wide), Whole(p), NEW new \in Seq(Entries)
  PROVE  /\ Printed(p) \o new \in Seq(Wide) /\ Whole(Printed(p) \o new)
         /\ ToSet(Printed(p) \o new) = ToSet(Printed(p)) \cup ToSet(new)
<1>1. Copied \in Nat /\ Garbage \notin Entries
  BY LoadingAssumption DEF LoadingAssumption
<1>2. Len(p) \in Nat /\ DOMAIN p = 1 .. Len(p) /\ \A i \in 1 .. Len(p) : p[i] \in Wide
  OBVIOUS
<1>3. Printed(p) \in Seq(Wide) /\ \A i \in 1 .. Len(Printed(p)) : i <= Copied => Printed(p)[i] # Garbage
  <2>1. CASE Garbage \in ToSet(p)
    <3>1. PICK i \in 1 .. Len(p) : p[i] = Garbage
      BY <2>1, <1>2 DEF ToSet
    <3>2. Copied <= Len(p)
      BY <3>1, <1>1, <1>2 DEF Whole
    <3>3. Printed(p) = SubSeq(p, 1, Copied)
      BY <2>1 DEF Printed
    <3>4. /\ SubSeq(p, 1, Copied) \in Seq(Wide) /\ Len(SubSeq(p, 1, Copied)) = Copied
          /\ \A j \in 1 .. Copied : SubSeq(p, 1, Copied)[j] = p[j]
      BY <3>2, <1>1, <1>2
    <3> QED
      BY <3>2, <3>3, <3>4, <1>1, <1>2 DEF Whole
  <2>2. CASE Garbage \notin ToSet(p)
    <3>1. \A i \in 1 .. Len(p) : p[i] # Garbage
      BY <2>2, <1>2 DEF ToSet
    <3>2. Printed(p) = [i \in 1 .. Len(p) |-> IF i <= Copied THEN p[i] ELSE Garbage]
      BY <2>2, <1>2 DEF Printed
    <3>3. Printed(p) \in [1 .. Len(p) -> Wide]
      BY <3>2, <1>2 DEF Wide
    <3>4. Printed(p) \in Seq(Wide) /\ Len(Printed(p)) = Len(p)
      BY <3>2, <3>3, <1>2
    <3> QED
      BY <3>1, <3>2, <3>4, <1>1
  <2> QED
    BY <2>1, <2>2
<1> DEFINE old == Printed(p)
<1> HIDE DEF old
<1>4. old \in Seq(Wide) /\ new \in Seq(Wide)
  BY <1>3 DEF old, Wide
<1>5. ToSet(old \o new) = ToSet(old) \cup ToSet(new)
  BY <1>4, ConcatSet
<1>6. /\ Len(old) \in Nat /\ Len(new) \in Nat
      /\ old \o new \in Seq(Wide) /\ DOMAIN (old \o new) = 1 .. Len(old) + Len(new)
      /\ \A i \in 1 .. Len(old) : (old \o new)[i] = old[i]
      /\ \A i \in 1 .. Len(new) : (old \o new)[Len(old) + i] = new[i]
  BY <1>4
<1>7. ASSUME NEW i \in 1 .. Len(old) + Len(new), i <= Copied PROVE (old \o new)[i] # Garbage
  <2>1. CASE i <= Len(old)
    BY <2>1, <1>3, <1>6, <1>7 DEF old
  <2>2. CASE i > Len(old)
    <3>1. PICK j \in 1 .. Len(new) : i = Len(old) + j
      <4>1. i - Len(old) \in 1 .. Len(new) /\ i = Len(old) + (i - Len(old))
        BY <1>6, <2>2
      <4> QED
        BY <4>1
    <3>2. new[j] \in Entries
      OBVIOUS
    <3> QED
      BY <1>1, <1>6, <3>1, <3>2
  <2> QED
    BY <1>6, <2>1, <2>2
<1> QED
  BY <1>5, <1>6, <1>7 DEF old, Whole

(* What ts.add_package_path does: it skips the new entries, ...            *)
Skips(k, new) == Note(k, new) /\ UNCHANGED <<path, known, overfull>>

(* ... or adds them to the path, unless it is too long, and to the list.   *)
Lengthens(k, new) ==
  /\ overfull \subseteq overfull' /\ overfull' \subseteq overfull \cup {<<vm, k>>}
  /\ \/ path' = path /\ (new = <<>> \/ <<vm, k>> \in overfull')
     \/ /\ path' = [path EXCEPT ![vm][k] = Printed(@) \o new]
        /\ Printed(path[vm][k]) = path[vm][k] \/ <<vm, k>> \in overfull'

Lists(k, new) ==
  /\ Len(known[k]) + Len(new) <= MaxNum
  /\ known' = IF Records THEN [known EXCEPT ![k] = @ \o new] ELSE known
  /\ IF pc = "clean" THEN Note(k, new) ELSE UNCHANGED uneven

Adds(k, new) ==
  /\ k = Head(todo).op /\ todo # <<>>
  /\ ToSet(new) = ToSet(Head(todo).entries) \ ToSet(known[k])
  /\ Locked /\ todo' = Tail(todo) /\ UNCHANGED <<pc, cur, vm, confVars>>
  /\ Skips(k, new) \/ (Lengthens(k, new) /\ Lists(k, new))

LEMMA PathAdded ==
  ASSUME LoadTypes, PathTypes, AddPath
  PROVE  Quits \/ Broken \/ \E k \in Kinds, new \in Seq(Entries) : Adds(k, new)
<1> DEFINE k == Head(todo).op
           new == Unknown(Head(todo).entries, known[k])
<1>1. todo # <<>> /\ k \in Kinds /\ Locked
  BY DEF AddPath, Calls
<1>2. Head(todo).entries \in Seq(Entries)
  BY <1>1, ToDo, CallsTyped DEF Kinds
<1>3. new \in Seq(Entries) /\ ToSet(new) = ToSet(Head(todo).entries) \ ToSet(known[k])
  BY <1>2, FirstUnknown
<1>4. CASE Fails
  BY <1>4, FailsHow
<1>5. CASE ~Fails /\ Len(known[k]) + Len(new) > MaxNum
  <2>1. Goes /\ Skips(k, new) /\ UNCHANGED confVars
    BY <1>5 DEF AddPath, Skips
  <2> HIDE DEF new
  <2>2. Adds(k, new)
    BY <1>1, <1>3, <2>1 DEF Adds, Goes
  <2> QED
    BY <1>1, <1>3, <2>2
<1>6. CASE ~(Len(known[k]) + Len(new) > MaxNum)
  <2>1. Len(known[k]) + Len(new) <= MaxNum
    <3>1. known[k] \in Seq(Entries)
      BY <1>1 DEF PathTypes
    <3>2. Len(known[k]) \in Nat /\ Len(new) \in Nat /\ MaxNum \in Nat
      BY <1>3, <3>1, LoadingAssumption DEF LoadingAssumption
    <3> HIDE DEF new, k
    <3> QED
      BY <1>6, <3>2
  <2>2. Extend(k, new) /\ Goes /\ UNCHANGED confVars
    BY <1>6 DEF AddPath
  <2>3. /\ known' = IF Records THEN [known EXCEPT ![k] = @ \o new] ELSE known
        /\ IF pc = "clean" THEN Note(k, new) ELSE UNCHANGED uneven
    BY <1>6 DEF AddPath
  <2> HIDE DEF new
  <2>4. Lengthens(k, new)
    <3>1. CASE new = <<>>
      BY <2>2, <3>1 DEF Extend, Lengthens
    <3>2. CASE new # <<>>
      BY <2>2, <3>2 DEF Extend, Lengthens
    <3> QED
      BY <3>1, <3>2
  <2>5. Lists(k, new)
    BY <2>1, <2>3 DEF Lists
  <2>6. Adds(k, new)
    BY <1>1, <1>3, <2>2, <2>4, <2>5 DEF Adds, Goes
  <2> QED
    BY <1>1, <1>3, <2>6
<1> QED
  BY <1>4, <1>5, <1>6

LEMMA Noted ==
  ASSUME PathTypes, NEW k \in Kinds, NEW new \in Seq(Entries), Note(k, new)
  PROVE  /\ uneven' \in [Kinds -> SUBSET Entries] /\ ToSet(new) \subseteq uneven'[k]
         /\ \A q \in Kinds : uneven[q] \subseteq uneven'[q]
<1>1. ToSet(new) \subseteq Entries
  BY DEF ToSet
<1> DEFINE E == ToSet(new)
<1> HIDE DEF E
<1>2. uneven' = [uneven EXCEPT ![k] = @ \cup E] /\ uneven \in [Kinds -> SUBSET Entries]
  BY DEF Note, PathTypes, E
<1>3. uneven'[k] = uneven[k] \cup E /\ \A q \in Kinds : q # k => uneven'[q] = uneven[q]
  BY <1>2
<1> QED
  BY <1>1, <1>2, <1>3 DEF E

LEMMA NextPathTypes == LoadTypes /\ Stages /\ PathTypes /\ [Next]_vars => PathTypes'
<1> SUFFICES ASSUME LoadTypes, Stages, PathTypes, [Next]_vars PROVE PathTypes'
  OBVIOUS
<1>1. CASE UNCHANGED pathVars
  BY <1>1 DEF PathTypes, pathVars
<1>2. CASE \E k \in Kinds, new \in Seq(Entries) : Adds(k, new)
  <2> PICK k \in Kinds, new \in Seq(Entries) : Adds(k, new)
    BY <1>2
  <2>1. vm \in VMs /\ \A v \in VMs, q \in Kinds : path[v][q] \in Seq(Wide) /\ Whole(path[v][q])
    BY DEF PathTypes, LoadTypes, Wide, Whole
  <2>2. ASSUME Skips(k, new) PROVE PathTypes'
    BY <2>2, Noted DEF Skips, PathTypes
  <2>3. ASSUME Lengthens(k, new), Lists(k, new) PROVE PathTypes'
    <3>1. known[k] \o new \in Seq(Entries) /\ Len(known[k] \o new) <= MaxNum
      <4>1. known[k] \in Seq(Entries)
        BY DEF PathTypes
      <4>2. Len(known[k] \o new) = Len(known[k]) + Len(new) /\ known[k] \o new \in Seq(Entries)
        BY <4>1, ConcatProperties
      <4>3. Len(known[k]) + Len(new) <= MaxNum
        BY <2>3 DEF Lists
      <4> QED
        BY <4>2, <4>3
    <3>2. /\ path' \in [VMs -> [Kinds -> Seq(Wide)]]
          /\ \A v \in VMs, q \in Kinds : Whole(path'[v][q])
      <4>1. CASE path' = path
        BY <4>1, <2>1 DEF PathTypes, Wide
      <4>2. CASE path' = [path EXCEPT ![vm][k] = Printed(@) \o new]
        <5> DEFINE p == Printed(path[vm][k]) \o new
        <5>1. p \in Seq(Wide) /\ Whole(p)
          BY <2>1, PrintedTyped
        <5>2. path' = [path EXCEPT ![vm] = [path[vm] EXCEPT ![k] = p]]
          BY <4>2
        <5> HIDE DEF p
        <5>3. path \in [VMs -> [Kinds -> Seq(Wide)]]
          BY DEF PathTypes, Wide
        <5>4. [path[vm] EXCEPT ![k] = p] \in [Kinds -> Seq(Wide)]
          BY <5>1, <5>3, <2>1
        <5>5. path' \in [VMs -> [Kinds -> Seq(Wide)]]
          BY <5>2, <5>3, <5>4, <2>1
        <5>6. \A v \in VMs, q \in Kinds :
                path'[v][q] = IF v = vm /\ q = k THEN p ELSE path[v][q]
          BY <5>2, <5>3, <2>1
        <5> QED
          BY <5>1, <5>5, <5>6, <2>1
      <4> QED
        BY <2>3, <4>1, <4>2 DEF Lengthens
    <3>3. known' \in [Kinds -> Seq(Entries)] /\ \A q \in Kinds : Len(known'[q]) <= MaxNum
      BY <2>3, <3>1 DEF Lists, PathTypes
    <3>4. overfull' \subseteq VMs \X Kinds
      BY <2>1, <2>3 DEF Lengthens, PathTypes
    <3>5. uneven' \in [Kinds -> SUBSET Entries]
      BY <2>3, Noted DEF Lists, PathTypes
    <3> QED
      BY <3>2, <3>3, <3>4, <3>5 DEF PathTypes, Wide, Whole
  <2> QED
    BY <2>2, <2>3 DEF Adds
<1>3. CASE ~UNCHANGED pathVars
  <2>1. AddPath
    BY <1>3, Steps DEF vars, NewInstance, Delete, LockVM, MainEnds, Register, DictInit, CleanVM,
       Unregister, Quits, Broken, GiveUp, Finds, Next, Load, Raise, Called, Dict, DictInitFails, Fails, Caught
  <2> QED
    BY <1>1, <1>2, <2>1, PathAdded DEF Quits, Broken, GiveUp
<1> QED
  BY <1>1, <1>3

-----------------------------------------------------------------------------
LEMMA InitPaths == Init => PathsGrow
  BY DEF Init, PathsGrow, PathHas, Inside, Loading, ToSet

(* The paths and the list stay as they are: ...                            *)
LEMMA PathsHave ==
  ASSUME PathsGrow, UNCHANGED pathVars, NEW k \in Kinds, NEW v \in VMs, <<v, k>> \notin overfull'
  PROVE  /\ <<v, k>> \notin overfull
         /\ PathHas(v, k, ToSet(known[k]))'
         /\ \A E : PathHas(v, k, E)' <=> PathHas(v, k, E)
  BY DEF PathsGrow, PathHas, pathVars

(* ... the load ends, ...                                                  *)
LEMMA PathsEnd ==
  ASSUME PathsGrow, UNCHANGED pathVars, ~Loading'
  PROVE  PathsGrow'
<1>1. ~Inside'
  BY DEF Inside, Loading
<1> QED
  BY <1>1, PathsHave DEF PathsGrow

(* ... or goes on, perhaps with a call of another function.                *)
LEMMA PathsStay ==
  ASSUME PathsGrow, UNCHANGED <<pathVars, script, cur, vm>>, Inside <=> Inside',
         Loading <=> Loading', \A k \in Kinds : Inside => ToAdd(k)' = ToAdd(k)
  PROVE  PathsGrow'
<1>1. \A k \in Kinds : EntriesOf(cur, k)' = EntriesOf(cur, k)
  BY DEF EntriesOf, EntriesIn
<1> SUFFICES ASSUME NEW k \in Kinds PROVE PathsGrow!(k)'
  BY DEF PathsGrow
<1> QED
  BY <1>1, PathsHave DEF PathsGrow

(* A call of another function.                                             *)
LEMMA PathsKept ==
  ASSUME LoadTypes, PathsGrow, Locked, todo # <<>>, Head(todo).op \notin Kinds,
         todo' = Tail(todo), UNCHANGED <<pathVars, script, pc, cur, vm>>
  PROVE  PathsGrow'
<1>1. \A k \in Kinds : ToAdd(k)' = ToAdd(k)
  <2>1. ASSUME NEW k \in Kinds PROVE EntriesIn(todo, k)' = EntriesIn(todo, k)
    <3>1. EntriesIn(todo, k) = EntriesIn(Tail(todo), k)
      BY EntriesInTail
    <3> QED
      BY <3>1 DEF EntriesIn
  <2>2. UNCHANGED <<script, pc, cur>>
    OBVIOUS
  <2> QED
    BY <2>1, <2>2 DEF ToAdd, EntriesIn
<1> QED
  BY <1>1, PathsStay DEF Inside, Loading

(* What a call of ts.add_package_path leaves of the paths that are not     *)
(* overfull, and of the list.                                              *)
LEMMA AddsGrow ==
  ASSUME LoadTypes, PathTypes, NEW k \in Kinds, NEW new \in Seq(Entries), Adds(k, new),
         NEW q \in Kinds
  PROVE  /\ uneven[q] \subseteq uneven'[q]
         /\ ToSet(known'[q]) \subseteq
              ToSet(known[q]) \cup (IF q = k /\ vm = N THEN ToSet(new) ELSE {}) \cup uneven'[q]
         /\ \A v \in VMs : <<v, q>> \notin overfull' =>
              /\ <<v, q>> \notin overfull
              /\ ToSet(path[v][q]) \subseteq ToSet(path'[v][q])
              /\ v = vm /\ q = k => ToSet(new) \subseteq ToSet(path'[v][q]) \cup uneven'[q]
<1>1. vm \in VMs /\ path[vm][k] \in Seq(Wide) /\ Whole(path[vm][k]) /\ ToSet(<<>>) = {}
  BY DEF LoadTypes, PathTypes, Wide, Whole, ToSet
<1>2. CASE Skips(k, new)
  BY <1>2, Noted DEF Skips
<1>3. CASE Lengthens(k, new) /\ Lists(k, new)
  <2>1. uneven[q] \subseteq uneven'[q] /\ (pc = "clean" => ToSet(new) \subseteq uneven'[k])
    BY <1>3, Noted DEF Lists
  <2>2. ToSet(known'[q]) \subseteq
          ToSet(known[q]) \cup (IF q = k /\ vm = N THEN ToSet(new) ELSE {}) \cup uneven'[q]
    <3>1. ToSet(known[k] \o new) = ToSet(known[k]) \cup ToSet(new)
      BY ConcatSet DEF PathTypes
    <3>2. known'[q] = IF q = k /\ Records THEN known[k] \o new ELSE known[q]
      BY <1>3 DEF Lists, PathTypes
    <3>3. Records => vm = N \/ pc = "clean"
      BY DEF Records
    <3> QED
      BY <2>1, <3>1, <3>2, <3>3
  <2>3. ASSUME NEW v \in VMs, <<v, q>> \notin overfull'
        PROVE  /\ <<v, q>> \notin overfull
               /\ ToSet(path[v][q]) \subseteq ToSet(path'[v][q])
               /\ v = vm /\ q = k => ToSet(new) \subseteq ToSet(path'[v][q])
    <3>1. CASE path' = path /\ (new = <<>> \/ <<vm, k>> \in overfull')
      BY <1>1, <1>3, <2>3, <3>1 DEF Lengthens
    <3>2. CASE /\ path' = [path EXCEPT ![vm][k] = Printed(@) \o new]
               /\ Printed(path[vm][k]) = path[vm][k] \/ <<vm, k>> \in overfull'
      <4> DEFINE p == Printed(path[vm][k]) \o new
      <4>1. ToSet(p) = ToSet(Printed(path[vm][k])) \cup ToSet(new)
        BY <1>1, PrintedTyped
      <4>2. path' = [path EXCEPT ![vm][k] = p]
        BY <3>2
      <4> HIDE DEF p
      <4>3. path'[v][q] = IF v = vm /\ q = k THEN p ELSE path[v][q]
        BY <1>1, <4>2 DEF PathTypes
      <4> QED
        BY <1>3, <2>3, <3>2, <4>1, <4>3 DEF Lengthens
    <3> QED
      BY <1>3, <3>1, <3>2 DEF Lengthens
  <2> QED
    BY <2>1, <2>2, <2>3
<1> QED
  BY <1>2, <1>3 DEF Adds

LEMMA PathsAdded ==
  ASSUME LoadTypes, PathTypes, Stages, PathsGrow,
         NEW k \in Kinds, NEW new \in Seq(Entries), Adds(k, new)
  PROVE  PathsGrow'
<1>1. vm \in VMs /\ vm \in Nat /\ N \in Nat
  BY Places, ScriptsTyped DEF LoadTypes
<1>2. UNCHANGED <<pc, cur, vm, script>> /\ todo' = Tail(todo) /\ (Inside' <=> Inside) /\ (Loading' <=> Loading)
  BY DEF Adds, confVars, Inside, Loading
<1>3. ToSet(new) = ToSet(Head(todo).entries) \ ToSet(known[k])
  BY DEF Adds
<1>4. Loading => Inside /\ (pc # "clean")
  BY DEF Adds, Loading, Inside, Locked
<1> SUFFICES ASSUME NEW q \in Kinds PROVE PathsGrow!(q)'
  BY DEF PathsGrow
<1>5. /\ EntriesOf(cur, q)' = EntriesOf(cur, q)
      /\ ToAdd(q) = ToAdd(q)' \cup (IF q = k THEN ToSet(Head(todo).entries) ELSE {})
      /\ Inside => ToAdd(q) \subseteq EntriesOf(cur, q)
  <2>1. EntriesIn(todo, q) = EntriesIn(Tail(todo), q) \cup
          (IF q = k THEN ToSet(Head(todo).entries) ELSE {})
    BY EntriesInTail DEF Adds
  <2>2. EntriesIn(todo, q)' = EntriesIn(Tail(todo), q)
    BY <1>2 DEF EntriesIn
  <2>3. EntriesOf(cur, q)' = EntriesOf(cur, q) /\ EntriesIn(script[cur].init, q)' = EntriesIn(script[cur].init, q)
    BY <1>2 DEF EntriesOf, EntriesIn
  <2>4. ToAdd(q) = ToAdd(q)' \cup (IF q = k THEN ToSet(Head(todo).entries) ELSE {})
    BY <1>2, <2>1, <2>2, <2>3 DEF ToAdd
  <2> QED
    BY <2>3, <2>4 DEF PathsGrow
<1>6. uneven[q] \subseteq uneven'[q]
  BY AddsGrow
<1>7. ASSUME NEW v \in VMs, <<v, q>> \notin overfull'
      PROVE  /\ PathHas(v, q, ToSet(known[q]))'
             /\ Loading' /\ v < vm' => PathHas(v, q, EntriesOf(cur, q))'
             /\ Inside' /\ v = vm' => PathHas(v, q, EntriesOf(cur, q) \ ToAdd(q))'
  <2>1. /\ <<v, q>> \notin overfull
        /\ ToSet(path[v][q]) \subseteq ToSet(path'[v][q])
        /\ v = vm /\ q = k => ToSet(new) \subseteq ToSet(path'[v][q]) \cup uneven'[q]
    BY <1>7, AddsGrow
  <2>2. /\ ToSet(known[q]) \ uneven[q] \subseteq ToSet(path[v][q])
        /\ Loading /\ v < vm => EntriesOf(cur, q) \ uneven[q] \subseteq ToSet(path[v][q])
        /\ Inside /\ v = vm => (EntriesOf(cur, q) \ ToAdd(q)) \ uneven[q] \subseteq ToSet(path[v][q])
    BY <2>1 DEF PathsGrow, PathHas
  <2>3. ASSUME Loading, v < vm
        PROVE  PathHas(v, q, EntriesOf(cur, q))'
    BY <1>5, <1>6, <2>1, <2>2, <2>3 DEF PathHas
  <2>4. ASSUME Inside, v = vm
        PROVE  PathHas(v, q, EntriesOf(cur, q) \ ToAdd(q))'
    <3>1. q = k => ToSet(Head(todo).entries) \subseteq ToSet(path'[v][q]) \cup uneven'[q]
      BY <1>3, <1>6, <2>1, <2>2, <2>4
    <3> QED
      BY <1>5, <1>6, <2>1, <2>2, <2>4, <3>1 DEF PathHas
  <2>5. PathHas(v, q, ToSet(known[q]))'
    <3>1. ToSet(known'[q]) \subseteq
            ToSet(known[q]) \cup (IF q = k /\ vm = N THEN ToSet(new) ELSE {}) \cup uneven'[q]
      BY AddsGrow
    <3>2. ASSUME q = k, vm = N PROVE ToSet(new) \subseteq ToSet(path'[v][q]) \cup uneven'[q]
      <4>1. v < vm \/ v = vm
        BY <1>1, <3>2, Places
      <4>2. CASE v = vm
        BY <2>1, <3>2, <4>2
      <4>3. CASE v < vm /\ Inside
        <5>1. Loading
          BY <4>3 DEF Inside, Loading
        <5> QED
          BY <1>3, <1>5, <1>6, <2>1, <2>2, <3>2, <4>3, <5>1
      <4>4. CASE ~Inside
        <5>1. pc = "clean"
          BY <4>4 DEF Adds, Locked, Inside
        <5>2. Note(k, new)
          BY <5>1 DEF Adds, Skips, Lists
        <5> QED
          BY <3>2, <5>2, Noted
      <4> QED
        BY <4>1, <4>2, <4>3, <4>4
    <3> QED
      BY <1>6, <2>1, <2>2, <3>1, <3>2 DEF PathHas
  <2> QED
    BY <1>2, <2>3, <2>4, <2>5
<1> QED
  BY <1>2, <1>5, <1>7

LEMMA NextPaths ==
  LoadTypes /\ Stages /\ PathTypes /\ PathsGrow /\ [Next]_vars => PathsGrow'
<1> SUFFICES ASSUME LoadTypes, Stages, PathTypes, PathsGrow, [Next]_vars PROVE PathsGrow'
  OBVIOUS
<1>0. CASE UNCHANGED vars
  <2>1. \A k \in Kinds : ToAdd(k)' = ToAdd(k)
    BY <1>0 DEF vars, here, confVars, ToAdd, EntriesIn
  <2> QED
    BY <1>0, <2>1, PathsStay DEF vars, here, confVars, Inside, Loading
<1>1. CASE \E c \in Confs, s \in Scripts : NewInstance(c, s)
  <2>1. vm' = 1 /\ pc' = "lock" /\ UNCHANGED pathVars
    BY <1>1 DEF NewInstance
  <2>2. ~Inside' /\ \A v \in VMs : ~(v < vm')
    BY <2>1, Places DEF Inside
  <2> QED
    BY <2>1, <2>2, PathsHave DEF PathsGrow
<1>2. CASE LockVM
  <2>1. /\ pc = "lock" /\ pc' = "main" /\ todo' = script[cur].main
        /\ UNCHANGED <<pathVars, script, cur, vm>>
    BY <1>2 DEF LockVM, confVars
  <2>2. \A k \in Kinds : EntriesOf(cur, k)' = EntriesOf(cur, k) /\ ToAdd(k)' = EntriesOf(cur, k)
    BY <2>1 DEF EntriesOf, EntriesIn, ToAdd
  <2>3. Loading /\ Inside'
    BY <2>1 DEF Loading, Inside
  <2> SUFFICES ASSUME NEW k \in Kinds PROVE PathsGrow!(k)'
    BY DEF PathsGrow
  <2>4. \A v \in VMs : PathHas(v, k, EntriesOf(cur, k) \ ToAdd(k))'
    BY <2>2 DEF PathHas
  <2>5. ASSUME NEW v \in VMs, <<v, k>> \notin overfull', v < vm' PROVE PathHas(v, k, EntriesOf(cur, k))'
    BY <2>1, <2>2, <2>3, <2>5, PathsHave DEF PathsGrow
  <2> QED
    BY <2>1, <2>2, <2>4, <2>5, PathsHave DEF PathsGrow
<1>3. CASE Quits
  BY <1>3, PathsEnd DEF Quits, GiveUp, Idle, Loading
<1>4. CASE MainEnds
  <2>1. CASE script[cur].remap
    <3>1. /\ pc = "main" /\ pc' = "init" /\ todo = <<>> /\ todo' = script[cur].init
          /\ UNCHANGED <<pathVars, script, cur, vm>>
      BY <1>4, <2>1 DEF MainEnds, confVars
    <3>2. \A k \in Kinds : ToAdd(k)' = ToAdd(k)
      BY <3>1, NothingToAdd DEF ToAdd, EntriesIn
    <3> QED
      BY <3>1, <3>2, PathsStay DEF Inside, Loading
  <2>2. CASE ~script[cur].remap
    BY <1>4, <2>2, PathsEnd DEF MainEnds, GiveUp, Idle, Loading
  <2> QED
    BY <2>1, <2>2
<1>5. CASE Register
  <2>1. pc = "init" /\ todo = <<>> /\ UNCHANGED <<pathVars, script>>
    BY <1>5 DEF Register
  <2>2. CASE vm = N
    BY <1>5, <2>1, <2>2, PathsEnd DEF Register, Idle, Loading
  <2>3. CASE vm # N
    <3>1. pc' = "lock" /\ vm' = vm + 1 /\ cur' = cur
      BY <1>5, <2>3 DEF Register
    <3>2. \A k \in Kinds : EntriesOf(cur, k)' = EntriesOf(cur, k) /\ ToAdd(k) = {}
      BY <2>1, <3>1, NothingToAdd DEF EntriesOf, EntriesIn, ToAdd
    <3>3. Loading /\ Inside /\ ~Inside'
      BY <2>1, <3>1 DEF Loading, Inside
    <3> SUFFICES ASSUME NEW k \in Kinds PROVE PathsGrow!(k)'
      BY DEF PathsGrow
    <3>4. ASSUME NEW v \in VMs, <<v, k>> \notin overfull', v < vm' PROVE PathHas(v, k, EntriesOf(cur, k))'
      <4>1. v < vm \/ v = vm
        <5>1. v \in Nat /\ vm \in Nat
          BY Places DEF LoadTypes
        <5> QED
          BY <3>1, <3>4, <5>1
      <4>2. <<v, k>> \notin overfull
        BY <2>1, <3>4, PathsHave
      <4>3. PathHas(v, k, EntriesOf(cur, k))
        BY <3>2, <3>3, <4>1, <4>2 DEF PathsGrow
      <4> QED
        BY <2>1, <3>2, <3>4, <4>3, PathsHave
    <3> QED
      BY <2>1, <3>3, <3>4, PathsHave DEF PathsGrow
  <2> QED
    BY <2>2, <2>3
<1>6. CASE Broken
  BY <1>6, PathsEnd DEF Broken, Loading
<1>7. CASE GoesOn /\ Head(todo).op \notin Kinds
  BY <1>7, PathsKept DEF GoesOn, Goes, confVars
<1>8. CASE AddPath
  <2>1. ASSUME NEW k \in Kinds, NEW new \in Seq(Entries), Adds(k, new) PROVE PathsGrow'
    BY <2>1, PathsAdded
  <2> QED
    BY <1>3, <1>6, <1>8, <2>1, PathAdded
<1>9. CASE \E n \in Names, i \in 1 .. MaxDicts : Finds(n, i)
  <2>1. /\ Locked /\ todo # <<>> /\ Head(todo).op \notin Kinds /\ todo' = Tail(todo)
        /\ UNCHANGED <<pathVars, script, pc, cur, vm>>
    BY <1>9 DEF Finds, Goes, Kinds
  <2> QED
    BY <2>1, PathsKept
<1>10. CASE DictInit
  <2>1. /\ Locked /\ todo # <<>> /\ Head(todo).op \notin Kinds /\ todo' = Tail(todo)
        /\ UNCHANGED <<pathVars, script, pc, cur, vm>>
    BY <1>10 DEF DictInit, Calls, Goes, Kinds
  <2> QED
    BY <2>1, PathsKept
<1>11. CASE \E c \in Confs : Delete(c)
  BY <1>11, PathsEnd DEF Delete, Loading
<1>12. CASE CleanVM
  BY <1>12, PathsEnd DEF CleanVM, Loading
<1>13. CASE Unregister
  <2>1. pc' \in {"delete", "idle"} /\ UNCHANGED pathVars
    BY <1>13 DEF Unregister, Idle
  <2> QED
    BY <2>1, PathsEnd DEF Loading
<1> QED
  BY <1>0, <1>1, <1>2, <1>3, <1>4, <1>5, <1>6, <1>7, <1>8, <1>9, <1>10, <1>11, <1>12, <1>13, Steps
   DEF GoesOn

-----------------------------------------------------------------------------
(* The inductive invariant.                                                *)
THEOREM Inductive == Spec => []LoadInv
<1>1. Init => LoadInv
  BY InitType, InitStages, InitRegistry, InitLocks, InitHandles, InitAsked DEF LoadInv
<1>2. LoadInv /\ [Next]_vars => LoadInv'
  BY NextType, NextStages, NextRegistry, NextLocks, NextHandles, NextAsked DEF LoadInv
<1> QED
  BY <1>1, <1>2, PTL DEF Spec

(* An instance is served when all VMs know it, and its address is used     *)
(* again when none does, wherever the loading of another one failed.       *)
THEOREM AllVMsKnow == Spec => []AllOrNothing
<1>1. LoadInv => AllOrNothing
  BY DEF LoadInv, InRegistry, AllOrNothing
<1> QED
  BY <1>1, Inductive, PTL

(* No way out of ts_lua_add_module but the one for a script without        *)
(* do_remap leaves a lock taken, and none out of ts_lua_del_module.        *)
THEOREM NoLockLeft == Spec => []LocksLeft
<1>1. LoadInv => LocksLeft
  <2> SUFFICES ASSUME LoadInv, pc = "idle"
      PROVE  (\A v \in VMs \ {1} : depth[v] = 0) /\ depth[1] <= Cardinality(Locking)
    BY DEF LocksLeft
  <2>1. \A v \in VMs : Holds(v) = 0
    BY DEF Holds, Locked
  <2>2. depth[1] <= Cardinality(Locking) + Holds(1) /\ depth[1] \in Nat /\ Cardinality(Locking) \in Nat
    BY Places, Lockings DEF LoadInv, LocksHeld, LoadTypes
  <2>3. Holds(1) = 0
    BY <2>1, Places
  <2>4. depth[1] <= Cardinality(Locking)
    BY <2>2, <2>3
  <2> QED
    BY <2>1, <2>4 DEF LoadInv, LocksHeld
<1> QED
  BY <1>1, Inductive, PTL

(* All VMs of an instance use the same dictionary under a name, or none    *)
(* has it because there are too many, and its function succeeds once:      *)
(* however scripts create and initialize them, and catch what fails.       *)
THEOREM OneDictForAll == Spec => []DictsShared
<1>1. LoadInv => DictsShared
  <2> SUFFICES ASSUME LoadInv, NEW c \in Confs PROVE DictsShared!(c)
    BY DEF DictsShared
  <2>1. Handles!(c)
    BY DEF LoadInv, Handles
  <2>2. ASSUME NEW v \in VMs, NEW n \in Names, status[c] = "served"
        PROVE  handle[c][v][n] = handle[c][1][n]
    <3>1. 1 \in VMs /\ (Got(c, v, n) <=> Got(c, 1, n))
      BY <2>2, Places DEF LoadInv, Asked
    <3>2. CASE ~Got(c, v, n)
      BY <3>1, <3>2 DEF Got
    <3>3. CASE Got(c, v, n)
      BY <3>1, <3>3, <2>1 DEF IsInjective
    <3> QED
      BY <3>2, <3>3
  <2> QED
    BY <2>1, <2>2 DEF Got
<1> QED
  BY <1>1, Inductive, PTL

(* What the paths hold while scripts are loaded and deleted.               *)
THEOREM PathsInductive == Spec => [](LoadInv /\ PathTypes /\ PathsGrow)
<1>1. Init => PathTypes /\ PathsGrow
  BY InitPathTypes, InitPaths
<1>2. LoadInv /\ PathTypes /\ PathsGrow /\ [Next]_vars => (PathTypes /\ PathsGrow)'
  BY NextPathTypes, NextPaths DEF LoadInv
<1> QED
  BY <1>1, <1>2, Inductive, PTL DEF Spec

(* The types, of the paths and of all the rest.                            *)
THEOREM TypeCorrect == Spec => []TypeOK
<1>1. LoadInv /\ PathTypes => TypeOK
  BY DEF LoadInv, TypeOK
<1> QED
  BY <1>1, PathsInductive, PTL

(* An entry in the list for all VMs is in the path of each, whatever       *)
(* failed half way or was deleted: but where a path was too long, and but  *)
(* for an entry that a __clean__ recorded or a script skipped.             *)
THEOREM ListedEverywhere == Spec => []KnownEverywhere
<1>1. PathsGrow => KnownEverywhere
  BY DEF PathsGrow, PathHas, KnownEverywhere
<1> QED
  BY <1>1, PathsInductive, PTL
=============================================================================
