------------------------------- MODULE HttpTxn -------------------------------
(***************************************************************************)
(* HTTP transactions sharing a pool of Lua virtual machines.               *)
(*                                                                         *)
(* A request is bound to one VM, runs do_remap in a coroutine of that VM   *)
(* and may leave hook functions behind.  Traffic Server then calls the     *)
(* transaction's continuation back at every hook (a "callout") and waits   *)
(* until the plugin reenables it.  A hook function may yield on an         *)
(* asynchronous operation, whose continuation resumes the coroutine later. *)
(*                                                                         *)
(* The unit of interleaving is the VM lock.  Everything a transaction does *)
(* runs under the mutex of its state machine (ci->mutex), so that a        *)
(* transaction is one sequential process with one program counter, and the *)
(* identity of a lock holder is the transaction it works for.              *)
(***************************************************************************)
EXTENDS Integers

CONSTANTS
  Txns,         \* the HTTP transactions
  NoTxn,        \* the owner of a free lock
  NVM,          \* TS_LUA_MAX_STATE_COUNT, the number of Lua VMs
  Hooks,        \* the hooks whose functions are Lua globals of the coroutine
  Results,      \* what a finished hook function returns, of {"ok", "err", "pos"}
  Strays,       \* transactions whose scripts start operations without suspending
  Positive,     \* transactions whose hook functions return positive numbers
  MaxHooks,     \* bound: registrations per transaction
  MaxCallouts,  \* bound: callouts per transaction
  MaxOps        \* bound: asynchronous operations per transaction

ASSUME HttpTxnAssumption ==
  /\ NVM \in Nat \ {0}
  /\ NoTxn \notin Txns
  /\ Results \subseteq {"ok", "err", "pos"}
  /\ Strays \subseteq Txns /\ Positive \subseteq Txns
  /\ MaxHooks \in Nat /\ MaxCallouts \in Nat /\ MaxOps \in Nat

VMs == 0 .. NVM - 1

(* The transactions whose scripts may break the rules of the hook protocol *)
Careless == Strays \cup Positive

(* A "sleep" handler does not touch the VM; a "locked" one (of the cache   *)
(* and of the fetch functions) takes the VM lock, pushes its result on the *)
(* Lua stack and resumes the coroutine while it still holds the lock.      *)
Kinds == {"sleep", "locked"}
Ops   == Kinds \X (1 .. MaxOps)

VARIABLES
  nextId,    \* ts_lua_http_next_id
  vm,        \* vm[t]: the VM request t was bound to
  owner,     \* owner[v]: holder of the recursive lock of VM v
  depth,     \* depth[v]: how often the holder has taken it
  pc,        \* pc[t]: where the thread working for t is
  outer,     \* outer[t]: t's VM lock is held by an event handler up the stack
  sm,        \* sm[t]: what the state machine of t is doing
  hooks,     \* http_ctx->hooks
  fn,        \* fn[t]: hooks with a function in the coroutine's globals
  co,        \* status of the coroutine: "ready", "suspended" or "dead"
  event,     \* event[t]: what the continuation of t was called with
  rc,        \* rc[t]: outcome of the last handler: "ok", "err" or "pos"
  chain,     \* chain[t]: items of ci->async_chain that are not deleted
  sched,     \* sched[t]: operations of t that will still call back
  ref,       \* ref[t]: does the Lua registry refer to t's coroutine?
  callouts,  \* callouts[t]: callouts so far (bound only)
  opsMade    \* opsMade[t]: operations so far (bound, and name of the next)

lockVars  == <<owner, depth>>
luaVars   == <<hooks, fn, co, ref>>
asyncVars == <<chain, sched, opsMade>>
idVars    == <<nextId, vm>>
vars == <<nextId, vm, owner, depth, pc, outer, sm, hooks, fn, co, event, rc,
          chain, sched, ref, callouts, opsMade>>

Pcs == {"new", "lockRemap", "remap", "undo", "idle", "lockHandler", "run",
        "unlock", "reenable", "lockEvent", "unref", "gone"}

(* The program counters at which the thread holds the VM lock itself.      *)
Locking == {"remap", "undo", "run", "unlock"}

TypeOK ==
  /\ nextId \in Nat
  /\ vm \in [Txns -> VMs]
  /\ owner \in [VMs -> Txns \cup {NoTxn}]
  /\ depth \in [VMs -> Int]
  /\ pc \in [Txns -> Pcs]
  /\ outer \in [Txns -> BOOLEAN]
  /\ sm \in [Txns -> {"none", "running", "waiting", "closing", "closed"}]
  /\ hooks \in [Txns -> Nat]
  /\ fn \in [Txns -> SUBSET Hooks]
  /\ co \in [Txns -> {"ready", "suspended", "dead"}]
  /\ event \in [Txns -> {"hook", "cont"}]
  /\ rc \in [Txns -> {"ok", "err", "pos"}]
  /\ chain \in [Txns -> SUBSET Ops]
  /\ sched \in [Txns -> SUBSET Ops]
  /\ ref \in [Txns -> BOOLEAN]
  /\ callouts \in [Txns -> Nat]
  /\ opsMade \in [Txns -> Nat]

Init ==
  /\ nextId = 0
  /\ vm = [t \in Txns |-> 0]
  /\ owner = [v \in VMs |-> NoTxn]
  /\ depth = [v \in VMs |-> 0]
  /\ pc = [t \in Txns |-> "new"]
  /\ outer = [t \in Txns |-> FALSE]
  /\ sm = [t \in Txns |-> "none"]
  /\ hooks = [t \in Txns |-> 0]
  /\ fn = [t \in Txns |-> {}]
  /\ co = [t \in Txns |-> "ready"]
  /\ event = [t \in Txns |-> "hook"]
  /\ rc = [t \in Txns |-> "ok"]
  /\ chain = [t \in Txns |-> {}]
  /\ sched = [t \in Txns |-> {}]
  /\ ref = [t \in Txns |-> FALSE]
  /\ callouts = [t \in Txns |-> 0]
  /\ opsMade = [t \in Txns |-> 0]

-----------------------------------------------------------------------------
(* The recursive VM lock (TSMutex).                                        *)

CanLock(t) == owner[vm[t]] \in {t, NoTxn}

Lock(t) ==
  /\ CanLock(t)
  /\ owner' = [owner EXCEPT ![vm[t]] = t]
  /\ depth' = [depth EXCEPT ![vm[t]] = @ + 1]

Unlock(t) ==
  /\ depth' = [depth EXCEPT ![vm[t]] = @ - 1]
  /\ owner' = [owner EXCEPT ![vm[t]] = IF depth[vm[t]] = 1 THEN NoTxn ELSE @]

Goto(t, l) == pc' = [pc EXCEPT ![t] = l]

(* Mutant: the chain is freed, but what is under way is not cancelled.     *)
ForgetChain(t) ==
  /\ UNCHANGED sched
  /\ chain' = [chain EXCEPT ![t] = {}]

(* ts_lua_async_destroy_chain: every item that is not deleted is cleaned   *)
(* up, which cancels its action, and the chain is freed.                   *)
CleanChain(t) ==
  /\ sched' = [sched EXCEPT ![t] = @ \ chain[t]]
  /\ chain' = [chain EXCEPT ![t] = {}]

-----------------------------------------------------------------------------
(* TSRemapDoRemap.                                                         *)

(* The request draws its number, which decides its VM.                     *)
Arrive(t) ==
  /\ pc[t] = "new"
  /\ nextId' = nextId + 1
  /\ vm' = [vm EXCEPT ![t] = nextId % NVM]
  /\ Goto(t, "lockRemap")
  /\ UNCHANGED <<lockVars, luaVars, asyncVars, outer, sm, event, rc, callouts>>

(* Under the VM lock the context and its coroutine are created, and        *)
(* do_remap starts.                                                        *)
StartRemap(t) ==
  /\ pc[t] = "lockRemap"
  /\ Lock(t)
  /\ ref' = [ref EXCEPT ![t] = TRUE]
  /\ Goto(t, "remap")
  /\ UNCHANGED <<idVars, asyncVars, hooks, fn, co, outer, sm, event, rc, callouts>>

(* ts.hook(), from do_remap or from a running hook function.               *)
AddHook(t, h) ==
  /\ pc[t] \in {"remap", "run"}
  /\ hooks[t] < MaxHooks
  /\ hooks' = [hooks EXCEPT ![t] = @ + 1]
  /\ fn' = [fn EXCEPT ![t] = @ \cup {h}]
  /\ UNCHANGED <<idVars, lockVars, asyncVars, co, ref, pc, outer, sm, event, rc, callouts>>

(* ts.hook() with a transform: it counts, but its callouts go to the       *)
(* continuation of the transform.                                          *)
AddTransform(t) ==
  /\ pc[t] \in {"remap", "run"}
  /\ hooks[t] < MaxHooks
  /\ hooks' = [hooks EXCEPT ![t] = @ + 1]
  /\ UNCHANGED <<idVars, lockVars, asyncVars, fn, co, ref, pc, outer, sm, event, rc, callouts>>

(* Mutant: the path that keeps the context forgets to unlock.              *)
KeepCtxLocked(t) ==
  /\ pc[t] = "remap"
  /\ hooks[t] > 0
  /\ sm' = [sm EXCEPT ![t] = "running"]
  /\ Goto(t, "idle")
  /\ UNCHANGED <<idVars, lockVars, luaVars, asyncVars, outer, event, rc, callouts>>

(* do_remap returned (or failed) and left hooks: unlock, then register for *)
(* TXN_CLOSE.                                                              *)
KeepCtx(t) ==
  /\ pc[t] = "remap"
  /\ hooks[t] > 0
  /\ Unlock(t)
  /\ sm' = [sm EXCEPT ![t] = "running"]
  /\ Goto(t, "idle")
  /\ UNCHANGED <<idVars, luaVars, asyncVars, outer, event, rc, callouts>>

(* It left none: ts_lua_destroy_http_ctx cleans up the chain, takes the    *)
(* lock a second time and drops the registry reference ...                 *)
UndoCtx(t) ==
  /\ pc[t] = "remap"
  /\ hooks[t] = 0
  /\ CleanChain(t)
  /\ ref' = [ref EXCEPT ![t] = FALSE]
  /\ Goto(t, "undo")
  /\ UNCHANGED <<idVars, lockVars, hooks, fn, co, opsMade, outer, sm, event, rc, callouts>>

(* ... and the lock is left.                                               *)
LeaveRemap(t) ==
  /\ pc[t] = "undo"
  /\ Unlock(t)
  /\ Goto(t, "gone")
  /\ UNCHANGED <<idVars, luaVars, asyncVars, outer, sm, event, rc, callouts>>

-----------------------------------------------------------------------------
(* ts_lua_http_cont_handler.                                               *)

(* The state machine reaches hook h.  It does so from its own event, or    *)
(* synchronously inside TSHttpTxnReenable: then outer[t] may still be TRUE.*)
Callout(t, h) ==
  /\ pc[t] = "idle"
  /\ sm[t] = "running"
  /\ h \in fn[t]
  /\ callouts[t] < MaxCallouts
  /\ callouts' = [callouts EXCEPT ![t] = @ + 1]
  /\ sm' = [sm EXCEPT ![t] = "waiting"]
  /\ event' = [event EXCEPT ![t] = "hook"]
  /\ Goto(t, "lockHandler")
  /\ UNCHANGED <<idVars, lockVars, luaVars, asyncVars, outer, rc>>

(* lua_resume starts the hook function in a coroutine that has none        *)
(* running, and continues a suspended one.                                 *)
Resumable(t) == co[t] = "suspended" \/ (co[t] = "ready" /\ event[t] = "hook")

(* Mutant: the coroutine is resumed without the VM lock.                   *)
ResumeUnlocked(t) ==
  /\ pc[t] = "lockHandler"
  /\ Resumable(t)
  /\ Goto(t, "run")
  /\ UNCHANGED <<idVars, lockVars, luaVars, asyncVars, outer, sm, event, rc, callouts>>

ResumeLua(t) ==
  /\ pc[t] = "lockHandler"
  /\ Lock(t)
  /\ Resumable(t)
  /\ Goto(t, "run")
  /\ UNCHANGED <<idVars, luaVars, asyncVars, outer, sm, event, rc, callouts>>

(* A coroutine that failed once is dead, and one that finished has nothing *)
(* to continue: lua_resume returns an error.                               *)
ResumeFails(t) ==
  /\ pc[t] = "lockHandler"
  /\ Lock(t)
  /\ ~Resumable(t)
  /\ co' = [co EXCEPT ![t] = "dead"]
  /\ rc' = [rc EXCEPT ![t] = "err"]
  /\ Goto(t, "unlock")
  /\ UNCHANGED <<idVars, asyncVars, hooks, fn, ref, outer, sm, event, callouts>>

(* Mutant: the item is chained, its event is never scheduled.              *)
StartOpUnscheduled(t, k) ==
  /\ opsMade[t] < MaxOps
  /\ opsMade' = [opsMade EXCEPT ![t] = @ + 1]
  /\ chain' = [chain EXCEPT ![t] = @ \cup {<<k, opsMade[t] + 1>>}]
  /\ UNCHANGED sched

(* The Lua function starts an operation: its item is pushed on the chain   *)
(* and the event system will call its continuation.                        *)
StartOp(t, k) ==
  /\ opsMade[t] < MaxOps
  /\ opsMade' = [opsMade EXCEPT ![t] = @ + 1]
  /\ chain' = [chain EXCEPT ![t] = @ \cup {<<k, opsMade[t] + 1>>}]
  /\ sched' = [sched EXCEPT ![t] = @ \cup {<<k, opsMade[t] + 1>>}]

(* ts.sleep(), ts.fetch(), ts.cache_open() ...: start and lua_yield.       *)
Yield(t, k) ==
  /\ pc[t] = "run"
  /\ StartOp(t, k)
  /\ co' = [co EXCEPT ![t] = "suspended"]
  /\ rc' = [rc EXCEPT ![t] = "pos"]
  /\ Goto(t, "unlock")
  /\ UNCHANGED <<idVars, lockVars, hooks, fn, ref, outer, sm, event, callouts>>

(* The same where Lua 5.1 cannot suspend the hook's coroutine: under pcall *)
(* or in a coroutine of the script's own.  The operation has started, and  *)
(* the function goes on or fails.  In do_remap, which runs before the      *)
(* first ts_lua_set_cont_info, the calls do nothing.                       *)
StrayOp(t, k) ==
  /\ t \in Strays
  /\ pc[t] = "run"
  /\ StartOp(t, k)
  /\ UNCHANGED <<idVars, lockVars, luaVars, pc, outer, sm, event, rc, callouts>>

(* The hook function returns r: nothing or 0, negative, or positive.       *)
Return(t, r) ==
  /\ pc[t] = "run"
  /\ r = "pos" => t \in Positive
  /\ co' = [co EXCEPT ![t] = "ready"]
  /\ rc' = [rc EXCEPT ![t] = r]
  /\ Goto(t, "unlock")
  /\ UNCHANGED <<idVars, lockVars, asyncVars, hooks, fn, ref, outer, sm, event, callouts>>

(* The hook function raises an error.                                      *)
Raise(t) ==
  /\ pc[t] = "run"
  /\ co' = [co EXCEPT ![t] = "dead"]
  /\ rc' = [rc EXCEPT ![t] = "err"]
  /\ Goto(t, "unlock")
  /\ UNCHANGED <<idVars, lockVars, asyncVars, hooks, fn, ref, outer, sm, event, callouts>>

(* Mutant: the handler returns with the VM locked.                         *)
LeaveVMLocked(t) ==
  /\ pc[t] = "unlock"
  /\ Goto(t, "reenable")
  /\ UNCHANGED <<idVars, lockVars, luaVars, asyncVars, outer, sm, event, rc, callouts>>

LeaveVM(t) ==
  /\ pc[t] = "unlock"
  /\ Unlock(t)
  /\ Goto(t, "reenable")
  /\ UNCHANGED <<idVars, luaVars, asyncVars, outer, sm, event, rc, callouts>>

(* The label "last": reenable the state machine, with CONTINUE or ERROR.   *)
Reenable(t) ==
  /\ pc[t] = "reenable"
  /\ rc[t] # "pos"
  /\ sm' = [sm EXCEPT ![t] = CASE @ = "waiting" -> "running"
                               [] @ = "closing" -> "closed"
                               [] OTHER -> @]
  /\ Goto(t, IF sm[t] = "closing" THEN "gone" ELSE "idle")
  /\ UNCHANGED <<idVars, lockVars, luaVars, asyncVars, outer, event, rc, callouts>>

(* ... or wait for the asynchronous operation.                             *)
WaitAsync(t) ==
  /\ pc[t] = "reenable"
  /\ rc[t] = "pos"
  /\ Goto(t, "idle")
  /\ UNCHANGED <<idVars, lockVars, luaVars, asyncVars, outer, sm, event, rc, callouts>>

(* TXN_CLOSE: at the end of the transaction, or when the client went away  *)
(* while a callout was outstanding.                                        *)
Close(t) ==
  /\ pc[t] = "idle"
  /\ sm[t] \in {"running", "waiting"}
  /\ sm' = [sm EXCEPT ![t] = "closing"]
  /\ CleanChain(t)
  /\ rc' = [rc EXCEPT ![t] = "ok"]
  /\ Goto(t, "unref")
  /\ UNCHANGED <<idVars, lockVars, luaVars, opsMade, outer, event, callouts>>

(* Mutant: it does not take it, so that another transaction may be in.     *)
UnrefUnlocked(t) ==
  /\ pc[t] = "unref"
  /\ ref' = [ref EXCEPT ![t] = FALSE]
  /\ Goto(t, "reenable")
  /\ UNCHANGED <<idVars, lockVars, asyncVars, hooks, fn, co, outer, sm, event, rc, callouts>>

(* ts_lua_release_cont_info takes the VM lock for luaL_unref alone.        *)
Unref(t) ==
  /\ pc[t] = "unref"
  /\ CanLock(t)
  /\ ref' = [ref EXCEPT ![t] = FALSE]
  /\ Goto(t, "reenable")
  /\ UNCHANGED <<idVars, lockVars, asyncVars, hooks, fn, co, outer, sm, event, rc, callouts>>

-----------------------------------------------------------------------------
(* The handlers of the asynchronous operations.  Their continuations have  *)
(* the mutex of the transaction: they wait until its thread has unwound.   *)

Quiet(t) == pc[t] \in {"idle", "gone"} /\ ~outer[t]

(* ts_lua_sleep_handler: the item is cleaned up, then the coroutine        *)
(* continues.                                                              *)
SleepOver(t) == \E op \in sched[t] :
  /\ Quiet(t)
  /\ op[1] = "sleep"
  /\ sched' = [sched EXCEPT ![t] = @ \ {op}]
  /\ chain' = [chain EXCEPT ![t] = @ \ {op}]
  /\ event' = [event EXCEPT ![t] = "cont"]
  /\ Goto(t, "lockHandler")
  /\ UNCHANGED <<idVars, lockVars, luaVars, opsMade, outer, sm, rc, callouts>>

(* The handler of a fetch or of a cache operation: it keeps its item (the  *)
(* open file, the fetched body) until the transaction closes.              *)
LockedOver(t) == \E op \in sched[t] :
  /\ Quiet(t)
  /\ op[1] = "locked"
  /\ sched' = [sched EXCEPT ![t] = @ \ {op}]
  /\ event' = [event EXCEPT ![t] = "cont"]
  /\ Goto(t, "lockEvent")
  /\ UNCHANGED <<idVars, lockVars, luaVars, chain, opsMade, outer, sm, rc, callouts>>

(* It takes the VM lock and calls the transaction's continuation under it. *)
EventLock(t) ==
  /\ pc[t] = "lockEvent"
  /\ Lock(t)
  /\ outer' = [outer EXCEPT ![t] = TRUE]
  /\ Goto(t, "lockHandler")
  /\ UNCHANGED <<idVars, luaVars, asyncVars, sm, event, rc, callouts>>

(* Once the nested calls have returned, it unlocks.                        *)
EventUnlock(t) ==
  /\ pc[t] \in {"idle", "gone"}
  /\ outer[t]
  /\ Unlock(t)
  /\ outer' = [outer EXCEPT ![t] = FALSE]
  /\ UNCHANGED <<idVars, luaVars, asyncVars, pc, sm, event, rc, callouts>>

-----------------------------------------------------------------------------
(* What the plugin and Lua do on their own once called ...                 *)
Handler(t) ==
  \/ StartRemap(t) \/ KeepCtx(t) \/ UndoCtx(t) \/ LeaveRemap(t)
  \/ ResumeLua(t) \/ ResumeFails(t)
  \/ \E k \in Kinds : Yield(t, k)
  \/ \E r \in Results : Return(t, r)
  \/ Raise(t)
  \/ LeaveVM(t) \/ Reenable(t) \/ WaitAsync(t)
  \/ Unref(t) \/ EventLock(t) \/ EventUnlock(t)

(* ... the event system ...                                                *)
Event(t) == SleepOver(t) \/ LockedOver(t)

(* ... and what the state machine and the scripts may do, or not.          *)
Environment(t) ==
  \/ Arrive(t)
  \/ \E h \in Hooks : AddHook(t, h) \/ Callout(t, h)
  \/ AddTransform(t)
  \/ \E k \in Kinds : StrayOp(t, k)
  \/ Close(t)

Next == \E t \in Txns : Handler(t) \/ Event(t) \/ Environment(t)

(* A called handler runs on (Lua functions terminate or yield), timers and *)
(* caches answer.  New requests, callouts and closes are not promised.     *)
Fairness == \A t \in Txns : WF_vars(Handler(t)) /\ WF_vars(Event(t))

Spec == Init /\ [][Next]_vars
FairSpec == Spec /\ Fairness

-----------------------------------------------------------------------------
(* Properties.                                                             *)

Alive(t) == pc[t] \notin {"new", "lockRemap", "gone"}
Holds(t) == pc[t] \in Locking \/ outer[t]

(* No two transactions bound to the same VM are inside it at a time, and   *)
(* the one inside owns the VM's lock, nested handlers included.            *)
VmExclusive == \A t, u \in Txns :
  /\ Holds(t) => owner[vm[t]] = t
  /\ Holds(t) /\ Holds(u) /\ vm[t] = vm[u] => t = u

(* The lock of a VM is taken exactly as often as the frames of its owner   *)
(* account for: no path leaves it locked or unlocks it early.              *)
LockBalanced == \A v \in VMs :
  /\ owner[v] = NoTxn => depth[v] = 0
  /\ \A t \in Txns : owner[v] = t =>
       /\ vm[t] = v
       /\ Holds(t)
       /\ depth[v] = (IF pc[t] \in Locking THEN 1 ELSE 0) + (IF outer[t] THEN 1 ELSE 0)

(* An operation that will still call back belongs to an item that is not   *)
(* deleted, of a context that is not destroyed: destroying the chain       *)
(* cancels whatever is under way.                                          *)
SchedLive == \A t \in Txns :
  sched[t] # {} => sched[t] \subseteq chain[t] /\ Alive(t) /\ sm[t] # "closing"

(* The registry holds the coroutine from its creation to the end of its    *)
(* context: it is never collected under a handler and never leaked.        *)
CoroutineAnchored == \A t \in Txns :
  ref[t] <=> \/ pc[t] \in {"remap", "idle", "lockHandler", "run", "unlock", "lockEvent", "unref"}
             \/ pc[t] = "reenable" /\ sm[t] # "closing"

(* The state machine is reenabled only when it waits for that, whatever    *)
(* the careless scripts on the same VM do.                                 *)
AnswersCallout == \A t \in Txns \ Careless :
  pc[t] = "reenable" /\ rc[t] # "pos" => sm[t] \in {"waiting", "closing"}

(* A handler that returns without reenabling left one operation under way  *)
(* and the coroutine suspended on it ("wait for async") ...                *)
Waits(t) ==
  pc[t] = "idle" /\ sm[t] = "waiting" =>
    co[t] = "suspended" /\ \E op \in chain[t] : sched[t] = {op}

(* ... in every transaction whose own script keeps the rules: no script of *)
(* another transaction resumes its coroutine or takes its event away.      *)
WaitsForAsync == \A t \in Txns \ Careless : Waits(t)

(* The comment "wait for async" read literally: of every transaction.      *)
AlwaysWaitsForAsync == \A t \in Txns : Waits(t)

(* The parts of the inductive invariant.  An event handler's frame is only *)
(* ever below a call of the transaction's continuation ...                 *)
FramesNest == \A t \in Txns :
  pc[t] \in {"new", "lockRemap", "remap", "undo", "lockEvent"} => ~outer[t]

(* ... the state machine and the program counter keep step, and a context  *)
(* that does not exist yet or any more has no operations ...               *)
Stages == \A t \in Txns :
  /\ sched[t] \subseteq chain[t]
  /\ pc[t] \in {"new", "lockRemap", "remap", "undo"} => sm[t] = "none" /\ chain[t] = {}
  /\ pc[t] \in {"lockHandler", "run", "unlock", "lockEvent", "idle"} =>
       sm[t] \in {"running", "waiting"}
  /\ pc[t] = "unref" => sm[t] = "closing"
  /\ pc[t] = "reenable" => sm[t] \in {"running", "waiting", "closing"}
  /\ pc[t] = "gone" => sm[t] \in {"none", "closed"} /\ chain[t] = {}
  /\ sm[t] = "closing" => chain[t] = {} /\ rc[t] = "ok"

(* ... and, in a transaction that starts no stray operation and returns no *)
(* positive number, the coroutine is suspended exactly while its one       *)
(* operation is under way and the callout outstanding.                     *)
Suspended(t) == /\ sm[t] = "waiting" /\ co[t] = "suspended"
                /\ \E op \in chain[t] : sched[t] = {op}
Settled(t) == co[t] # "suspended" /\ sched[t] = {}
Protocol == \A t \in Txns \ Careless :
  /\ pc[t] \in {"new", "lockRemap", "remap", "undo"} => Settled(t)
  /\ pc[t] = "idle" => Suspended(t) \/ (sm[t] = "running" /\ Settled(t))
  /\ pc[t] \in {"lockEvent", "lockHandler", "run"} => sm[t] = "waiting" /\ sched[t] = {}
  /\ pc[t] = "lockEvent" => event[t] = "cont"
  /\ pc[t] \in {"unlock", "reenable"} /\ rc[t] = "pos" => Suspended(t)
  /\ pc[t] \in {"unlock", "reenable"} /\ rc[t] # "pos" =>
       sched[t] = {} /\ (sm[t] = "waiting" => Settled(t)) /\ sm[t] \in {"waiting", "closing"}

IInv == TypeOK /\ VmExclusive /\ LockBalanced /\ FramesNest /\ Stages

(* The Lua registry changes only in the hands of the owner of its VM, or   *)
(* of a thread that finds the lock free and takes it for that step.        *)
RegistryUnderLock ==
  [][\A t \in Txns : ref'[t] # ref[t] =>
       owner[vm[t]] = t \/ owner'[vm[t]] = t \/ owner[vm[t]] = NoTxn]_vars

(* The registry holds what it must, and no two transactions of a VM are in *)
(* it at once, although contexts are destroyed outside the lock.           *)
RegistryKept == []CoroutineAnchored /\ RegistryUnderLock

(* Every callout of a transaction that keeps the rules is answered, or its *)
(* transaction closed, although it shares the VM with careless ones.       *)
CalloutAnswered ==
  \A t \in Txns \ Careless : sm[t] = "waiting" ~> sm[t] # "waiting"

=============================================================================
