------------------------------ MODULE CacheFile ------------------------------
(***************************************************************************)
(* A cache object read or written by a Lua coroutine (ts_lua_cache.c):     *)
(* ts.cache_open, cache_read, cache_write, cache_close and cache_remove.   *)
(*                                                                         *)
(* The calls are made by one coroutine, which each may suspend; the events *)
(* of the cache come under the mutex of the transaction, so between two    *)
(* calls of the coroutine, which may be away for something else (a sleep,  *)
(* a flush) when they come.  A handler resumes it if it waits.  Bytes are  *)
(* counted, in any unit.                                                   *)
(*                                                                         *)
(* The names of the specification begin with File, so that the module can  *)
(* be extended together with another.                                      *)
(***************************************************************************)
EXTENDS Integers

CONSTANTS
  Size,     \* bytes of the cached object
  Lengths,  \* lengths a call asks for
  All,      \* the length of cache_read(fd), INT64_MAX
  Unasked,  \* may the cache call back although no VIO was reenabled?
  MaxNeed   \* bound: bytes asked for in all, but for cache_read(fd)

ASSUME CacheFileAssumption ==
  /\ Size \in Nat /\ MaxNeed \in Nat
  /\ Lengths \subseteq Nat \ {0}
  /\ All \in Nat /\ All > Size + MaxNeed
  /\ Unasked \in BOOLEAN

VARIABLES
  op,        \* optype, or "remove"; "none" before the call
  co,        \* the coroutine: "run", "waiting" or "gone" with its transaction
  action,    \* cache_action: an open or a remove is under way
  vc,        \* cache_vc: "none", "open" or "closed"
  hit, eof, err, wait,  \* the flags of ts_lua_cache_info
  need,      \* bytes asked for so far
  already,   \* bytes answered so far
  reserved,  \* bytes in the reserved buffer
  vio,       \* "none", "on" if it will call back, "off" until reenabled
  moved,     \* bytes the cache has read into the buffer, or taken from it
  asked,     \* what the last call asked for ...
  got,       \* ... and returned, or -1
  returned   \* bytes of the object returned by all calls

infoVars == <<hit, eof, err, wait, need, already, reserved>>
histVars == <<asked, got, returned>>
fileVars == <<op, co, action, vc, infoVars, vio, moved, histVars>>

FileTypeOK ==
  /\ op \in {"none", "read", "write", "remove"}
  /\ co \in {"run", "waiting", "gone"}
  /\ action \in BOOLEAN
  /\ vc \in {"none", "open", "closed"}
  /\ hit \in BOOLEAN /\ eof \in BOOLEAN /\ err \in BOOLEAN /\ wait \in BOOLEAN
  /\ need \in Nat /\ already \in Nat /\ reserved \in Nat
  /\ vio \in {"none", "on", "off"}
  /\ moved \in Nat
  /\ asked \in Nat /\ got \in Nat \cup {-1} /\ returned \in Nat

FileInit ==
  /\ op = "none" /\ co = "run" /\ action = FALSE /\ vc = "none"
  /\ hit = FALSE /\ eof = FALSE /\ err = FALSE /\ wait = FALSE
  /\ need = 0 /\ already = 0 /\ reserved = 0
  /\ vio = "none" /\ moved = 0
  /\ asked = 0 /\ got = -1 /\ returned = 0

-----------------------------------------------------------------------------
(* ts.cache_open, ts.cache_remove.                                         *)

(* What ts_lua_cache_open_read and _open_write make of the event.          *)
Opened(outcome) ==
  /\ vc' = IF outcome = "ok" THEN "open" ELSE vc
  /\ hit' = (op' = "read" /\ outcome = "ok")
  /\ err' = (outcome = "error" \/ (op' = "write" /\ outcome # "ok"))

Outcomes == {"ok", "missing", "error"}

(* The cache answers at once, from inside the call ...                     *)
OpenNow(o, outcome) ==
  /\ co = "run" /\ op = "none"
  /\ op' = o
  /\ Opened(outcome)
  /\ UNCHANGED <<co, action, eof, wait, need, already, reserved, vio, moved, histVars>>

RemoveNow ==
  /\ co = "run" /\ op = "none"
  /\ op' = "remove"
  /\ UNCHANGED <<co, action, vc, infoVars, vio, moved, histVars>>

(* ... or the coroutine yields until it does.                              *)
CallCache(o) ==
  /\ co = "run" /\ op = "none"
  /\ op' = o
  /\ action' = TRUE
  /\ co' = "waiting"
  /\ UNCHANGED <<vc, infoVars, vio, moved, histVars>>

OpenDone(outcome) ==
  /\ op \in {"read", "write"} /\ action
  /\ action' = FALSE
  /\ UNCHANGED op
  /\ Opened(outcome)
  /\ co' = "run"
  /\ UNCHANGED <<eof, wait, need, already, reserved, vio, moved, histVars>>

(* ts_lua_cache_remove_handler.                                            *)
RemoveDone ==
  /\ op = "remove" /\ action
  /\ action' = FALSE
  /\ co' = "run"
  /\ UNCHANGED <<op, vc, infoVars, vio, moved, histVars>>

-----------------------------------------------------------------------------
(* ts.cache_read.                                                          *)
MayCall(o) == co = "run" /\ op = o /\ vc = "open"

(* Mutant: a call asks from the beginning instead of on top of the last.   *)
NeedOnly(len) == len

NeedAfter(len) == IF len = All THEN All ELSE need + len

(* Enough is in reserved already: the call returns it ...                  *)
ReadNow(len) ==
  /\ MayCall("read") /\ ~eof /\ ~err
  /\ need' = NeedAfter(len)
  /\ reserved + already >= need'
  /\ already' = need'
  /\ reserved' = reserved - (need' - already)
  /\ asked' = len
  /\ got' = need' - already
  /\ returned' = returned + got'
  /\ UNCHANGED <<op, co, action, vc, hit, eof, err, wait, vio, moved>>

(* Mutant: the handler is not told that the coroutine waits.               *)
ReadWaitUntold(len) ==
  /\ MayCall("read") /\ ~eof /\ ~err
  /\ need' = NeedAfter(len)
  /\ reserved + already < need'
  /\ vio' = "on"
  /\ co' = "waiting"
  /\ asked' = len
  /\ got' = -1
  /\ UNCHANGED <<op, action, vc, hit, eof, err, wait, already, reserved, moved, returned>>

(* ... or yields until the cache has delivered it.                         *)
ReadWait(len) ==
  /\ MayCall("read") /\ ~eof /\ ~err
  /\ need' = NeedAfter(len)
  /\ reserved + already < need'
  /\ vio' = "on"
  /\ wait' = TRUE
  /\ co' = "waiting"
  /\ asked' = len
  /\ got' = -1
  /\ UNCHANGED <<op, action, vc, hit, eof, err, already, reserved, moved, returned>>

(* Mutant: what is left over is dropped when the coroutine is resumed.     *)
ResumeReadDrops(n, rest) ==
  IF wait /\ (n > 0 \/ eof' \/ err')
  THEN /\ co' = "run"
       /\ wait' = FALSE
       /\ already' = already + n
       /\ reserved' = 0
       /\ got' = n
       /\ returned' = returned + n
  ELSE /\ reserved' = rest + n
       /\ UNCHANGED <<co, wait, already, got, returned>>

(* The end of ts_lua_cache_handle_read: resume a coroutine that waits with *)
(* the n bytes there are for it, which leave rest in reserved.             *)
ResumeRead(n, rest) ==
  IF wait /\ (n > 0 \/ eof' \/ err')
  THEN /\ co' = "run"
       /\ wait' = FALSE
       /\ already' = already + n
       /\ reserved' = rest
       /\ got' = n
       /\ returned' = returned + n
  ELSE /\ reserved' = rest + n
       /\ UNCHANGED <<co, wait, already, got, returned>>

(* A VIO calls back when it was reenabled, or whenever the cache has more. *)
Calls(o) ==
  /\ op = o /\ vc = "open" /\ ~eof /\ ~err
  /\ vio = "on" \/ (Unasked /\ vio = "off")

Satisfied(total) == total + already >= need

ReadReady(k) ==
  /\ Calls("read")
  /\ moved + k <= Size
  /\ moved' = moved + k
  /\ UNCHANGED <<op, action, vc, hit, eof, err, need, asked>>
  /\ \/ /\ Satisfied(reserved + k)
        /\ vio' = "off"
        /\ ResumeRead(need - already, reserved + k - (need - already))
     \/ /\ ~Satisfied(reserved + k)
        /\ vio' = "on"
        /\ ResumeRead(0, reserved + k)

(* EOS or READ_COMPLETE, maybe with the last bytes.                        *)
ReadEos ==
  /\ Calls("read")
  /\ moved' = Size
  /\ eof' = TRUE
  /\ vio' = "off"
  /\ UNCHANGED <<op, action, vc, hit, err, need, asked>>
  /\ ResumeRead(reserved + (Size - moved), 0)

ReadError ==
  /\ Calls("read")
  /\ err' = TRUE
  /\ vio' = "off"
  /\ UNCHANGED <<op, action, vc, hit, eof, need, asked, moved>>
  /\ ResumeRead(0, reserved)

-----------------------------------------------------------------------------
(* Mutant: the VIO is not reenabled for a further write.                   *)
WriteDisarmed(len) ==
  /\ MayCall("write") /\ ~err
  /\ need' = need + len
  /\ vio' = IF vio = "none" THEN "on" ELSE vio
  /\ wait' = TRUE
  /\ co' = "waiting"
  /\ asked' = len
  /\ got' = -1
  /\ UNCHANGED <<op, action, vc, hit, eof, err, already, reserved, moved, returned>>

(* ts.cache_write, of any string, the empty one included.  The object      *)
(* takes the bytes when it can.                                            *)
Write(len) ==
  /\ MayCall("write") /\ ~err
  /\ need' = need + len
  /\ vio' = "on"
  /\ wait' = TRUE
  /\ co' = "waiting"
  /\ asked' = len
  /\ got' = -1
  /\ UNCHANGED <<op, action, vc, hit, eof, err, already, reserved, moved, returned>>

(* The end of ts_lua_cache_handle_write.                                   *)
ResumeWrite(n) ==
  IF wait /\ (n > 0 \/ err')
  THEN /\ co' = "run"
       /\ wait' = FALSE
       /\ already' = IF n > 0 THEN need ELSE already
       /\ got' = n
  ELSE UNCHANGED <<co, wait, already, got>>

WriteReady(k) ==
  /\ Calls("write")
  /\ moved + k <= need
  /\ moved' = moved + k
  /\ UNCHANGED <<op, action, vc, hit, eof, err, need, reserved, asked, returned>>
  /\ \/ moved + k < need /\ vio' = "on" /\ ResumeWrite(0)
     \/ moved + k = need /\ vio' = "off" /\ ResumeWrite(need - already)

WriteError ==
  /\ Calls("write")
  /\ err' = TRUE
  /\ vio' = "off"
  /\ UNCHANGED <<op, action, vc, hit, eof, need, reserved, asked, returned, moved>>
  /\ ResumeWrite(0)

-----------------------------------------------------------------------------
(* ts_lua_release_cache_info, for ts.cache_close and for the transaction's *)
(* end.  The flags stay; the connection, the action and the buffers go.    *)
Released ==
  /\ action' = FALSE
  /\ vc' = IF vc = "open" THEN "closed" ELSE vc
  /\ vio' = "none"
  /\ reserved' = 0

CloseFile ==
  /\ co = "run" /\ op \in {"read", "write"} /\ vc # "closed"
  /\ Released
  /\ UNCHANGED <<op, co, hit, eof, err, wait, need, already, moved, histVars>>

Cleanup ==
  /\ co # "gone"
  /\ Released
  /\ co' = "gone"
  /\ UNCHANGED <<op, hit, eof, err, wait, need, already, moved, histVars>>

-----------------------------------------------------------------------------
Asks == {len \in Lengths : need + len <= MaxNeed}

Script ==
  \/ \E o \in {"read", "write"}, outcome \in Outcomes : OpenNow(o, outcome)
  \/ RemoveNow
  \/ \E o \in {"read", "write", "remove"} : CallCache(o)
  \/ \E len \in Asks \cup {All} : ReadNow(len) \/ ReadWait(len)
  \/ \E len \in Asks \cup {0} : Write(len)
  \/ CloseFile

Progress == 1 .. Size + MaxNeed

Cache ==
  \/ \E outcome \in Outcomes : OpenDone(outcome)
  \/ RemoveDone
  \/ \E k \in Progress : ReadReady(k) \/ WriteReady(k)
  \/ ReadEos

FileNext == Script \/ Cache \/ ReadError \/ WriteError \/ Cleanup

(* The cache answers, and makes progress with a VIO that it will call.     *)
FileFairness == WF_fileVars(Cache)

FileSpec == FileInit /\ [][FileNext]_fileVars
FileFairSpec == FileSpec /\ FileFairness

-----------------------------------------------------------------------------
(* Properties.                                                             *)

(* The bytes returned to the script, and those in reserved, are those the  *)
(* cache has delivered: none is lost or returned twice, whether a call was *)
(* answered from reserved or by the handler.                               *)
ReadsContiguous ==
  op = "read" /\ vc = "open" => returned + reserved = moved /\ returned = already

(* A call that returns gives exactly what it asked for, unless the object  *)
(* ended or failed.                                                        *)
CallsExact ==
  got >= 0 /\ ~eof /\ ~err => got = asked

(* The one call that nothing answers: the handler waits for an event that  *)
(* brings more than nothing.                                               *)
EmptyWrite == op = "write" /\ wait /\ need = already

(* A coroutine that waits will be called back: the open is under way or    *)
(* the VIO is enabled, and the handler knows that it waits.                *)
WakeupPending ==
  co = "waiting" => \/ action /\ ~wait
                    \/ wait /\ vio = "on" /\ vc = "open" /\ already < need
                    \/ EmptyWrite /\ asked = 0

(* Every call returns, but for an empty write.                             *)
CallReturns == co = "waiting" /\ ~EmptyWrite ~> co # "waiting"

(* The loop of example/test_cache_large.lua, which reads until cache_eof(),*)
(* has then read the whole object.                                         *)
EofReadsAll == eof => returned = Size

(* The inductive invariant behind the first three: nothing has happened    *)
(* to a file that is not open, ...                                         *)
Fresh ==
  /\ op \in {"none", "remove"} => vc = "none"
  /\ action => vc = "none" /\ co = "waiting"
  /\ eof => op = "read"
  /\ vc = "none" =>
       /\ vio = "none" /\ ~wait /\ need = 0 /\ already = 0 /\ reserved = 0
       /\ moved = 0 /\ returned = 0 /\ got = -1
       /\ co = "waiting" => action

(* ... all calls that returned are answered, and the one that has not      *)
(* asks for what it adds to need.                                          *)
Answered ==
  vc = "open" => /\ co # "gone"
                 /\ co = "run" => ~wait /\ (~eof /\ ~err => need = already)
                 /\ op = "read" => moved <= Size

Outstanding ==
  vc = "open" /\ co = "waiting" =>
    /\ wait /\ ~eof /\ ~err /\ got = -1
    /\ op = "read" => /\ vio = "on" /\ already < need
                      /\ IF asked = All THEN need = All ELSE need = already + asked
    /\ op = "write" => need = already + asked /\ (asked > 0 => vio = "on")

Closed == vc = "closed" => co # "waiting"

FileInv == /\ FileTypeOK /\ Fresh /\ Answered /\ Outstanding /\ Closed
           /\ ReadsContiguous /\ CallsExact
=============================================================================
