------------------------------ MODULE Intercept ------------------------------
(***************************************************************************)
(* A script that serves a request itself: ts.http.intercept, ts.say and    *)
(* ts.flush (ts_lua_http_intercept.c).                                     *)
(*                                                                         *)
(* Two threads meet here.  The one that announces the connection runs the  *)
(* first segment of the coroutine, under the lock of the VM but not under  *)
(* the mutex of the intercept's continuation; the other runs the handlers  *)
(* of that continuation: events of the connection, timers and wakeups,     *)
(* which continue the coroutine under both.  The connection delivers no    *)
(* event before its announcement has returned, timers do.  Other users of  *)
(* the VM only delay the lock and are left out.  Bytes are counted.        *)
(***************************************************************************)
EXTENDS Integers

CONSTANTS
  Endless,  \* INT64_MAX
  MaxSaid   \* bound: bytes the script says

ASSUME InterceptAssumption == MaxSaid \in Nat /\ Endless \in Nat /\ Endless > MaxSaid

VARIABLES
  entry,     \* the announcing thread: "accept", "lua", "unlock" or "gone"
  handler,   \* the handler: "idle", "lock", "lua", "unlock" or "check"
  reason,    \* what continues the coroutine: "none", "flush" or "sleep"
  vm,        \* the holder of the VM lock: "free", "entry" or "handler"
  crt,       \* the coroutine: "ready", "run", "flush", "sleep", "over", "dead"
  ret,       \* the handler has failed
  said,      \* bytes ever written to output.buffer
  sent,      \* ndone of output.vio
  nbytes,    \* nbytes of output.vio
  vio,       \* output.vio will be served
  to_flush, all_ready, send_complete, recv_complete,  \* of the context
  readOpen,  \* the connection is open for reading
  timer,     \* a timer is scheduled
  wakeup,    \* the continuation of ts_lua_flush_wakeup is scheduled
  mark,      \* bytes said when the script last called ts.flush
  destroyed  \* the context and its connection are gone

ctxVars  == <<to_flush, all_ready, send_complete, recv_complete>>
connVars == <<said, sent, nbytes, vio, readOpen>>
vars == <<entry, handler, reason, vm, crt, ret, ctxVars, connVars, timer, wakeup, mark,
          destroyed>>

TypeOK ==
  /\ entry \in {"accept", "lua", "unlock", "gone"}
  /\ handler \in {"idle", "lock", "lua", "unlock", "check"}
  /\ reason \in {"none", "flush", "sleep"}
  /\ vm \in {"free", "entry", "handler"}
  /\ crt \in {"ready", "run", "flush", "sleep", "over", "dead"}
  /\ ret \in BOOLEAN
  /\ said \in 0 .. MaxSaid /\ sent \in 0 .. said
  /\ nbytes \in 0 .. MaxSaid \cup {Endless}
  /\ vio \in BOOLEAN /\ readOpen \in BOOLEAN
  /\ to_flush \in 0 .. MaxSaid
  /\ all_ready \in BOOLEAN /\ send_complete \in BOOLEAN /\ recv_complete \in BOOLEAN
  /\ timer \in BOOLEAN /\ wakeup \in BOOLEAN
  /\ mark \in 0 .. MaxSaid
  /\ destroyed \in BOOLEAN

(* After ts_lua_http_intercept.                                            *)
Init ==
  /\ entry = "accept" /\ handler = "idle" /\ reason = "none" /\ vm = "free"
  /\ crt = "ready" /\ ret = FALSE
  /\ said = 0 /\ sent = 0 /\ nbytes = Endless /\ vio = FALSE /\ readOpen = FALSE
  /\ to_flush = 0 /\ all_ready = FALSE
  /\ send_complete = FALSE /\ recv_complete = FALSE
  /\ timer = FALSE /\ wakeup = FALSE /\ mark = 0
  /\ destroyed = FALSE

(* TSIOBufferReaderAvail of output.reader.                                 *)
Avail == said - sent

(* Mutant: an operation under way is not cancelled.                        *)
CancelNothing == UNCHANGED <<timer, wakeup>>

(* ts_lua_release_cont_info destroys the chain: timers and wakeups are     *)
(* cancelled.                                                              *)
CleanChain == timer' = FALSE /\ wakeup' = FALSE

-----------------------------------------------------------------------------
(* ts_lua_http_intercept_entry and _process.                               *)
Accept ==
  /\ entry = "accept" /\ vm = "free"
  /\ entry' = "lua"
  /\ vm' = "entry"
  /\ crt' = "run"
  /\ readOpen' = TRUE /\ vio' = TRUE
  /\ UNCHANGED <<handler, reason, ret, ctxVars, said, sent, nbytes, timer, wakeup, mark,
                 destroyed>>

AcceptFailed ==
  /\ entry = "accept"
  /\ entry' = "gone"
  /\ destroyed' = TRUE
  /\ UNCHANGED <<handler, reason, vm, crt, ret, ctxVars, connVars, timer, wakeup, mark>>

(* What the first segment returns is ignored.                              *)
EntryLeaves ==
  /\ entry = "unlock"
  /\ entry' = "gone"
  /\ vm' = "free"
  /\ UNCHANGED <<handler, reason, crt, ret, ctxVars, connVars, timer, wakeup, mark, destroyed>>

-----------------------------------------------------------------------------
(* The script, in either thread: ts_lua_http_intercept_run_coroutine.      *)

InLua == entry = "lua" \/ handler = "lua"

LeaveLua ==
  /\ entry' = IF entry = "lua" THEN "unlock" ELSE entry
  /\ handler' = IF handler = "lua" THEN "unlock" ELSE handler

Say(n) ==
  /\ InLua /\ said + n <= MaxSaid
  /\ said' = said + n
  /\ vio' = TRUE
  /\ UNCHANGED <<entry, handler, reason, vm, crt, ret, ctxVars, sent, nbytes, readOpen, timer,
                 wakeup, mark, destroyed>>

(* ts_lua_flush returns at once if there is nothing to flush.              *)
Flush ==
  /\ InLua /\ Avail > 0
  /\ to_flush' = sent + Avail
  /\ mark' = said
  /\ vio' = TRUE
  /\ crt' = "flush"
  /\ LeaveLua
  /\ UNCHANGED <<reason, vm, ret, all_ready, send_complete, recv_complete, said, sent, nbytes,
                 readOpen, timer, wakeup, destroyed>>

(* ts.sleep, which stands for every operation that continues the           *)
(* coroutine later.                                                        *)
Sleep ==
  /\ InLua
  /\ timer' = TRUE
  /\ crt' = "sleep"
  /\ LeaveLua
  /\ UNCHANGED <<reason, vm, ret, ctxVars, connVars, wakeup, mark, destroyed>>

(* Mutant: what was sent before is not counted.                            *)
TotalUnsent == Avail

(* The length of the response, known at its end.                           *)
Total == Avail + sent

Finish ==
  /\ InLua
  /\ crt' = "over"
  /\ nbytes' = Total
  /\ all_ready' = TRUE
  /\ IF Avail > 0 THEN vio' = TRUE /\ UNCHANGED send_complete
                  ELSE send_complete' = TRUE /\ UNCHANGED vio
  /\ LeaveLua
  /\ UNCHANGED <<reason, vm, ret, to_flush, recv_complete, said, sent, readOpen, timer, wakeup,
                 mark, destroyed>>

Raise ==
  /\ InLua
  /\ crt' = "dead"
  /\ ret' = (handler = "lua")
  /\ LeaveLua
  /\ UNCHANGED <<reason, vm, ctxVars, connVars, timer, wakeup, mark, destroyed>>

-----------------------------------------------------------------------------
(* Handlers run under the mutex of the continuation, one at a time.        *)
Quiet == handler = "idle" /\ ~destroyed

(* The connection is served after the announcement.                        *)
Served == Quiet /\ entry = "gone"

(* ts_lua_sleep_handler and ts_lua_flush_wakeup_handler ...                *)
Fires(r) ==
  /\ Quiet
  /\ IF r = "sleep" THEN timer /\ timer' = FALSE /\ UNCHANGED wakeup
                    ELSE wakeup /\ wakeup' = FALSE /\ UNCHANGED timer
  /\ reason' = r
  /\ handler' = "lock"
  /\ UNCHANGED <<entry, vm, crt, ret, ctxVars, connVars, mark, destroyed>>

(* ... call ts_lua_http_intercept_handler, which takes the VM lock.        *)
Continue ==
  /\ handler = "lock" /\ vm = "free"
  /\ vm' = "handler"
  /\ handler' = "lua"
  /\ reason' = "none"
  /\ crt' = "run"
  /\ UNCHANGED <<entry, ret, ctxVars, connVars, timer, wakeup, mark, destroyed>>

HandlerLeaves ==
  /\ handler = "unlock"
  /\ vm' = "free"
  /\ handler' = "check"
  /\ UNCHANGED <<entry, reason, crt, ret, ctxVars, connVars, timer, wakeup, mark, destroyed>>

(* ts_lua_http_intercept_process_read: the request is dropped.             *)
Read ==
  /\ Served /\ readOpen
  /\ readOpen' = FALSE
  /\ recv_complete' = TRUE
  /\ handler' = "check"
  /\ UNCHANGED <<entry, reason, vm, crt, ret, to_flush, all_ready, send_complete, said, sent,
                 nbytes, vio, timer, wakeup, mark, destroyed>>

(* ts_lua_http_intercept_process_write, WRITE_READY: reenable the write,   *)
(* or wake the script up.                                                  *)
Flushing == ~all_ready /\ to_flush > 0

(* Mutants: the flush is over with the first bytes ...                     *)
FlushedSome(done) == Flushing /\ done > 0

(* ... or only when more was sent than was to be flushed.                  *)
FlushedBeyond(done) == Flushing /\ to_flush < done

Flushed(done) == Flushing /\ to_flush <= done

Reenables(done) ==
  \/ all_ready
  \/ to_flush > done
  \/ to_flush = 0 /\ said > done

WriteReady(n) ==
  /\ Served /\ vio
  /\ sent + n <= said /\ sent + n < nbytes
  /\ sent' = sent + n
  /\ vio' = Reenables(sent + n)
  /\ IF Flushed(sent + n)
     THEN to_flush' = 0 /\ wakeup' = TRUE
     ELSE UNCHANGED <<to_flush, wakeup>>
  /\ handler' = "check"
  /\ UNCHANGED <<entry, reason, vm, crt, ret, all_ready, send_complete, recv_complete, said,
                 nbytes, readOpen, timer, mark, destroyed>>

WriteComplete ==
  /\ Served /\ vio
  /\ sent < nbytes /\ nbytes <= said
  /\ sent' = nbytes
  /\ vio' = FALSE
  /\ send_complete' = TRUE
  /\ handler' = "check"
  /\ UNCHANGED <<entry, reason, vm, crt, ret, to_flush, all_ready, recv_complete, said, nbytes,
                 readOpen, timer, wakeup, mark, destroyed>>

NetError ==
  /\ Served
  /\ ret' = TRUE
  /\ handler' = "check"
  /\ UNCHANGED <<entry, reason, vm, crt, ctxVars, connVars, timer, wakeup, mark, destroyed>>

(* The end of ts_lua_http_intercept_handler.                               *)
Check ==
  /\ handler = "check"
  /\ handler' = "idle"
  /\ IF ret \/ (send_complete /\ recv_complete)
     THEN destroyed' = TRUE /\ CleanChain
     ELSE UNCHANGED <<timer, wakeup, destroyed>>
  /\ UNCHANGED <<entry, reason, vm, crt, ret, ctxVars, connVars, mark>>

-----------------------------------------------------------------------------
Says    == \E n \in 1 .. MaxSaid : Say(n)
Ends    == Flush \/ Sleep \/ Finish \/ Raise
Leaves  == Accept \/ EntryLeaves \/ Continue \/ HandlerLeaves \/ Check
Drained == WriteComplete \/ \E n \in 0 .. MaxSaid : WriteReady(n)
Wakes   == \E r \in {"sleep", "flush"} : Fires(r)

Next == Says \/ Ends \/ Leaves \/ AcceptFailed \/ Read \/ Drained \/ Wakes \/ NetError

(* Handlers run on, segments of the script end, the client sends a         *)
(* request and takes what it is sent, timers fire.  A write that is not    *)
(* complete makes progress whenever it is enabled.                         *)
Progress == WriteComplete \/ \E n \in 0 .. MaxSaid : (n > 0 \/ Avail = 0) /\ WriteReady(n)

Fairness ==
  /\ WF_vars(Leaves) /\ WF_vars(Ends)
  /\ SF_vars(Read) /\ SF_vars(Progress) /\ SF_vars(Wakes)

Spec == Init /\ [][Next]_vars
FairSpec == Spec /\ Fairness

-----------------------------------------------------------------------------
(* Properties.                                                             *)

(* The sending is complete only when the script has ended and the client   *)
(* was sent all that it said, however flushes, sleeps and writes alternate.*)
WholeSent == send_complete => crt = "over" /\ sent = said

(* What continues the coroutine is what it waits for, and ts.flush returns *)
(* only when the client was sent everything said before it.                *)
WokenRightly ==
  /\ wakeup \/ (handler = "lock" /\ reason = "flush") => crt = "flush" /\ sent >= mark
  /\ handler = "lock" /\ reason = "sleep" => crt = "sleep"
  /\ timer => crt = "sleep"

(* Nothing is under way, in either thread, for a context that is gone, and *)
(* the lock of the VM is free.                                             *)
GoneIsQuiet ==
  destroyed => /\ ~timer /\ ~wakeup
               /\ handler = "idle" /\ entry = "gone" /\ vm = "free"

(* The parts of the inductive invariant: who holds the VM lock runs Lua,   *)
(* and what the flags of the context say of the coroutine.                 *)
Locking ==
  /\ vm = "entry" <=> entry \in {"lua", "unlock"}
  /\ vm = "handler" <=> handler \in {"lua", "unlock"}
  /\ crt = "run" <=> InLua
  /\ reason = "none" <=> handler # "lock"
  /\ handler \in {"lua", "unlock", "check"} => entry = "gone"

Flags ==
  /\ entry = "accept" => crt = "ready" /\ handler = "idle" /\ ~destroyed
  /\ crt = "ready" => to_flush = 0
  /\ all_ready <=> crt = "over"
  /\ nbytes = (IF crt = "over" THEN said ELSE Endless)
  /\ to_flush > 0 => crt = "flush" /\ to_flush = mark /\ ~wakeup /\ handler # "lock"
  /\ crt = "flush" => to_flush > 0 \/ wakeup \/ reason = "flush" \/ destroyed
  /\ handler = "lock" => ~timer /\ ~wakeup
  /\ crt = "sleep" => timer \/ reason = "sleep" \/ destroyed

IInv == TypeOK /\ Locking /\ Flags /\ WholeSent /\ WokenRightly /\ GoneIsQuiet

(* ts.flush returns, and a script that has ended is followed by the end of *)
(* its context, unless the connection fails.                               *)
Serves ==
  /\ crt = "flush" ~> crt # "flush" \/ destroyed
  /\ crt = "over" ~> destroyed
=============================================================================
