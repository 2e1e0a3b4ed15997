# TLA+ specifications of ts-lua

ts-lua is an Apache Traffic Server plugin that runs Lua scripts in the course of HTTP
transactions. This directory holds TLA+ modules that model its concurrent core, TLC
configurations that model-check them, and proofs checked by TLAPS. Paths below are relative to
the repository (`src/ts_lua.c`, `example/...`).

To check a run: `tlc -config HttpTxn.cfg MCHttpTxn.tla`. To check a proof module:
`tlapm HttpTxn_proofs.tla`. `PROJECT.json` lists the runs, the source lines of each definition,
the hazards, the theorems, and for each property a mutant of the model that it catches.

## 1. Inventory: the parts of the system

**Lua VMs and contexts** (`ts_lua.c`, `ts_lua_util.c`, `ts_lua_hook.c`). 128 Lua VMs, each with a
recursive mutex. A request draws a number, `number % 128` is its VM. `TSRemapDoRemap` creates a
context (`ts_lua_http_ctx`) with a Lua thread anchored in the VM's registry, runs `do_remap`, and
keeps the context until TXN_CLOSE if the script registered hooks. `ts_lua_http_cont_handler` is
called for each hook and for each continuation of the coroutine, and answers the state machine
with `TSHttpTxnReenable` or leaves it waiting. Hard: sharing of the VM, nested handlers, a close
while an operation is outstanding, scripts that do not suspend as expected. Correct when: one
transaction inside a VM at a time, locks balanced on every path, one answer to each callout, no
event after a context is gone, the registry touched under the lock only.

**Asynchronous items** (`ts_lua_coroutine.c`, `ts_lua_misc.c`). A context owns a chain of items,
each with a continuation, private data and a cleanup function; destroying the chain cancels what
is under way. `ts.sleep` cleans its item up before it continues the coroutine; the other
operations keep theirs until the context ends.

**Shared dictionaries** (`ts_lua_shared_dict.c`, `ts_lua_hash_table.c`). A hash table, a byte count
and a mutex, shared by all VMs of an instance. Hard: a quota checked outside the mutex, items
freed outside it, a STATIC option that reads without it. Correct when: the count is the sum of
the items, each item has one owner, a reader never sees a freed item, and the overshoot of the
quota is bounded.

**HTTP client** (`lib/ts_fetcher.c`). One request over a virtual connection, flow control through two
buffers with water marks, a request with or without a body, three framings (Content-Length, chunked,
close), callbacks in which the client may consume bytes or destroy the fetcher. Correct when: released
exactly once and never under a handler, complete means whole, nothing lost, bounded memory, the end
always told once.

**ts.fetch, ts.fetch_multi** (`ts_lua_fetch.c`). Clients of the above: they collect the whole body,
count the fetches that are done and resume the coroutine after the last. Hard: handlers that stand on
each other, an error in the middle of a launch. Correct when: the coroutine is resumed once, with all
results, and no client outlives its call.

**Cached objects** (`ts_lua_cache.c`). Coroutine-facing open, read, write, close, remove over
cache connections. Hard: a call is answered from a reserved buffer or by a later event, and
events come when nobody waits. Correct when: bytes are returned once and in order, a call gets
what it asked for, a suspended call is always resumed.

**Intercepts** (`ts_lua_http_intercept.c`): a script that serves the request itself, with `ts.say`
and `ts.flush`. Hard: two threads in its first segment, writes cut anywhere. Correct when: `ts.flush`
returns after its bytes are sent, the response is complete when all is sent, nothing wakes a context
that is gone.

**Transforms** (`ts_lua_transform.c`): a function called for each block of a body, which may suspend
its coroutine while events of both sides go on. Correct when: it gets each block once and the mark of
the end with the last, the output has the size of what was written, the body ends.

**Loading** (`ts_lua_add_module`, `ts_lua_del_module`, `ts_lua_package.c`, `ts.shared.DICT`): the
script is run once in each VM, and its `__clean__` when the instance is deleted, with lists for all VMs
that are extended meanwhile. Hard: a failure in a later VM than the first, calls that fail and are
caught, calls made in `__clean__`. Correct when: an instance is served by all VMs or by none, what one list
says of all VMs is true of each, dictionaries are shared.

**Regex cache** (`ts_lua_regex.c`): compiled regular expressions of an instance, looked up by all VMs
without the mutex under which they are added, up to a capacity that is compared without it too. Hard:
two VMs that compile one pattern at once, an entry that has no value yet, one key for different
arguments. Correct when: each regex is freed once, by its one owner, and not while it runs; a match
runs a regex of what it asked for; the capacity is exceeded by less than one entry per VM.

**String helpers** (`ts_lua_string.c`, `ts_lua_crypto.c`): escapes, base64, digests. **Accessors**
(`ts_lua_client_request.c` and ten more): each call is passed on to Traffic Server.

The parts interact by calls and callbacks: Traffic Server calls the hook handler, the hook handler
resumes Lua, Lua starts operations, their handlers call the hook handler again with
`TS_LUA_EVENT_COROUTINE_CONT`. The order of locks is: mutex of the transaction (Traffic Server
holds it around every event), VM mutex, dictionary mutex.

## 2. Modules

| Module | Models | Kind |
| --- | --- | --- |
| `HookService` | what the plugin promises the HTTP state machine | abstract specification |
| `HttpTxn` | transactions, contexts, VM locks, coroutines, items | component |
| `HttpTxn_refines` | refinement mapping from `HttpTxn` to `HookService` | refinement |
| `HttpTxn_proofs` | theorems of `HttpTxn` | proofs |
| `SharedDict`, `SharedDict_proofs` | a shared dictionary | component, proofs |
| `Fetcher`, `Fetcher_proofs` | the HTTP client | component, proofs |
| `Chunked`, `Chunked_proofs` | its chunked decoder | component, proofs |
| `FetchMulti`, `Fetcher_proofs` | `ts.fetch` and `ts.fetch_multi` | component, proofs |
| `Intercept`, `Intercept_proofs` | a script that serves a request itself | component, proofs |
| `Transform`, `Transform_proofs` | a body transform | component, proofs |
| `CacheFile`, `Caches_proofs` | a cached object used by a coroutine | component, proofs |
| `Loading`, `Loading_proofs` | instances, search paths and dictionaries in all VMs | component, proofs |
| `RegexCache`, `Caches_proofs` | the compiled regexes of an instance | component, proofs |
| `MCHttpTxn`, `MCSharedDict`, `MCChunked`, `MCLoading`, `MCRegexCache` | symmetry sets, messages, scripts and patterns for TLC | instances |

How they fit together: `HttpTxn` treats every operation that continues a coroutine later as an item
with one event. `FetchMulti` opens the item of a fetch, and takes from `Fetcher` that each client
calls back with its end (`EndIsTold`) and then no more (`NoCallAfterEnd`). `Fetcher` takes the
verdict on a chunked body from `Chunked`. `Intercept` and `Transform` have contexts of their own beside
that of the transaction. `Loading` comes before all of these: `HttpTxn` uses the registry entries it
has made, `SharedDict` and `RegexCache` start with what it has created. `Fetcher_proofs` and
`Caches_proofs` each hold the theorems of two components, whose names therefore differ (`MultiSpec`,
`FileSpec`).

A definition that begins with the comment "Mutant" is not part of a specification. It is the form
that the definition below it would take with a plausible bug, and `PROJECT.json` names the property
that catches it.

### HttpTxn

Each transaction is one sequential process, because everything it does runs under the mutex of its
state machine. `pc[t]` says where its thread is. The unit of interleaving is the VM lock: what
happens between two lock operations of a thread is one action, or several where a property looks
in between. `Arrive`, `StartRemap`, `AddHook`, `AddTransform`, `KeepCtx`, `UndoCtx`, `LeaveRemap`
are the stages of `TSRemapDoRemap`; `ResumeLua`, `ResumeFails`, `Yield`, `Return`, `Raise`,
`LeaveVM`, `Reenable`, `WaitAsync`, `Close`, `Unref` those of `ts_lua_http_cont_handler`.
`SleepOver` is the handler of `ts.sleep`. `LockedOver`, `EventLock`, `EventUnlock` are the handler
of a fetch or a cache operation, which takes the VM lock and calls the hook handler under it;
`outer[t]` records that frame, below which a whole further hook may run because
`TSHttpTxnReenable` may continue the state machine synchronously.

`sm[t]` is what the state machine is doing: it makes a callout only when it is `running`, may close
while it is `waiting`, and calls nothing after the close. The environment decides which hooks are
reached, what Lua returns (`Results`), and whether an operation is started where Lua 5.1 cannot
suspend the coroutine. The scripts of most transactions are careful; those of `Strays` start such
operations, and the hook functions of `Positive` return positive numbers. Together they are
`Careless`: their own callouts have no promise, but they share VMs with the others, whose promises
must hold beside them. In `do_remap` operations do nothing, because `ts_lua_set_cont_info` has not
been called yet.

`HookService` is what the HTTP state machine sees: a transaction is absent, in its remap, running,
asked, inside the VM, answering, waiting, closing or closed. A careless one may `Drift` between the
phases of service, but not into a VM that another transaction is in.

### SharedDict

A thread inside VM `t` runs one call at a time; `pc`, `key` and `item` are its place and locals.
`set` is `SetCheck` (the quota test and the allocation, both before the mutex), `SetLock`,
`SetStore`, `Unlock`, `Free`. Addresses may be reused after `Free`. `static` is the option, which a
dictionary has or not from its creation; `LoadOnly` says that the scripts write STATIC dictionaries
at load time only, which the code does not enforce (with `LoadOnly = FALSE`, `TableStable` fails).
Sizes are bytes of key and value, `Overhead` the header of an item.

### Fetcher

One request of `ts.fetch`, after its launch and the appending of its body, and its response. `Send` is
the write side, with its handler: `Limit` is what the write VIO was told to carry, which for POST and
PUT counts the announced length, and for other methods no body at all. Bytes are counted in any unit.
The handlers are split
where the client is called back (`pc = "inCall"`), so that `Consume` and `Destroy` can happen under
a handler. Of the chunked decoder it has the verdict: READY, COMPLETE when the body is whole,
ERROR at any time. Flags that no caller sets (IGNORE_HEADER_DONE, IGNORE_BODY_READY, USE_NEW_LOCK)
are left out.

### Chunked

The decoder of `ts_http_fetcher_verify_chunked`, its state `chunked_info` and the bytes it passes
on. A server sends one of `Messages`, a block of any length arrives at any time, possibly the last
one, and each round of the decoder's loop over the block is an action. Digits are those of base 3 in
the instance, so that lengths of two digits are short, and data is made of the characters of the
framing itself; `Chars` is all of them. The messages are those that the framing allows (`ChunkedAssumption`):
a chunk has data, its size in at most `MaxDigits` digits, and between the size and its line end at most
an extension, which no digit begins. `Find` is `chunked_extract_return` with its `memchr`: it returns the two outcomes that
the code distinguishes, and the NULL that it does not, after which the model says `crash`.

### FetchMulti

Everything here runs under the mutex of one transaction, so the difficulty is not in threads but in
handlers that stand on each other: `ts_lua_fetch_multi_handler` continues the coroutine inside the
callback of the last client (`Over`), the script may fetch again there or end, and the transaction
may close there (`Close` with `handler = "leave"`), which destroys the client whose callback is still on
the stack (`Kept`). `BadItem` is the invalid item found when earlier clients are under way already: the
call is undone. `BadHeader` is the error that `luaL_checklstring` raises inside `ts_lua_fetch_one_item`
for a header key or value that is no string: it leaves the launch without undoing anything. The call is
then `lost`: the clients launched so far run on, the one just created is never launched nor released, and
the continuation of the call has no data, so that the end of the first client takes the handler to a NULL
(`Crash`). With `Raised` the coroutine dies of either error, or catches it and goes on.

### Intercept

Two threads. `entry` is the one that announces the connection: it runs the first segment of the
coroutine under the VM lock but not under the mutex of the intercept's continuation. `handler` runs
the events of that continuation under the mutex. A timer started in the first segment may fire while
it is still running; the lock of the VM is what orders the two. `WriteReady` is
`ts_lua_http_intercept_process_write`: it lets the connection go on, or wakes up a `ts.flush` whose
bytes are all sent. `Sleep` stands for each operation that continues the coroutine later.

### Transform

One body, of a length that the upstream knows from the start (`early`) or only at its end. Everything
runs under the mutex of the transaction, so that events are handled one after the other; but an event
may find the coroutine suspended by an earlier one. `InputEvent`, `OutputEvent` and `OpDone` are the
three ways into `ts_lua_transform_handler`, `MoveInput` its beginning, `NextBlock` and `NoBlock` its
loop, `Suspend`, `Return` and `Fail` the outcomes of `lua_resume`, `Answer` what comes after the loop.
`crossed` records that a block was given to a suspended coroutine as if its operation were done, or
that the body was ended without it: what the function was asked to do is then lost.
`promise` is what the script calls `set_downstream_bytes` with, before its first result. `MaxResult` bounds
what one call of the function returns, so that the whole output is below the INT64_MAX with which it is
opened (`Endless`).

### CacheFile

One file handle and the coroutine that uses it. `need` and `already` are the cumulative counts of
the code; `asked`, `got` and `returned` are history. The coroutine may be away for something else
when an event comes; `wait` tells the handler. `Unasked` lets the cache call although no VIO was
reenabled. `EmptyWrite` is the state that a `cache_write` of the empty string leaves.

### Loading

The thread that loads and deletes instances is the only actor; Traffic Server does neither twice at
once. `LockVM`, `MainEnds` and `Register` are the stages of a round of `ts_lua_add_module`, `CleanVM` and
`Unregister` those of a round of `ts_lua_del_module`. `AddPath`, `Dict`, `DictInit` and `DictInitFails`
are the calls the script makes, in its main part, in `__init__` or in `__clean__`; `todo` is what it has
still to call. `Raise` is any failure, possible at any place in any VM: it ends the load, or in
`__clean__` only the function. A call that fails may also be caught by the script, which goes on
(`Caught`, and the second case of the limit in `AddPath`). `status`, `registered` and `depth` (of the
locks) survive the rounds, and so do `path`, which belongs to a VM, and `known`, which is one for all VMs
and is extended in the last VM of a load, and in every VM of a delete, because `_last` keeps its value
(`Records`). Conf addresses are reused after a delete.

A path is a sequence of entries; what it holds from the start is left out. `Printed` is what the
`snprintf` of `ts_lua_package.c:155` makes of the old path: it copies at most `Copied` entries and a NUL,
and the bytes behind, up to the length that it would have written, are whatever the buffer held
(`Garbage`). The next call reads such a path up to its NUL (`"%.*s"`). `overfull` records the paths that
were cut or not extended, `uneven` the entries that a `__clean__` has recorded or that a script has
skipped when it went on after the error of the limit; both are history.

Calls by hooks are not among the actions: the thread of a hook has no instance among its own globals
(`__ts_instance_conf` is read with `lua_rawget`), so that `ts.add_package_path` raises an error before it
changes anything, and `ts.shared.DICT` dereferences NULL.

### RegexCache

Each VM is a process that runs one `ts.re.match` at a time. `Hit` and `Miss` are the lookup without the
mutex, `Compile` compiles and compares the size of the map, `TakeLock` to `Unlock` insert, in two steps
with the entry without value between them (`NullRe`), `Exec` runs the regex and frees it if `created`
and not `isNew`. A lookup while another VM is in `Tcl_CreateHashEntry`, which may move all entries to a
larger table, may miss what is there; that it may read freed memory there, which is undefined, is left
out. A key is cut to `KeyMax` characters.

## 3. Runs

| Run | Question | Bounds |
| --- | --- | --- |
| `txn` | locks, the registry, no event after the end, each callout answered, refinement with liveness | 2 transactions on 1 VM, one careful, one careless; 1 registration, 2 callouts, 2 operations |
| `txn_positive` | violation: a positive return value | the same, 1 operation |
| `dict_quota` | accounting, ownership, reads, quota, deadlock | 2 VMs, 3 keys, 4 items, sizes 1 and 2, quota 3, STATIC or not |
| `regex` | ownership, keys, capacity | 3 VMs, 2 matches each, 6 calls, capacity 1, keys of 2 |
| `fetcher` | the whole request, life cycle, flow control, framing | marks 2 and 4, up to 7 units of response, 1 of request body |
| `chunked` | output and verdict do not depend on the cuts | 128 messages of up to 2 chunks, each cut at every place |
| `fetch_multi` | clients, results, resumption | 2 calls of up to 3 items, each item good, invalid, or with a bad header |
| `intercept` | flush, completeness, end | 4 units said |
| `transform` | blocks, mark of the end, sizes, end | body of 3, blocks of 1 and 2, 2 suspensions, promise of 1 or none |
| `loading` | what VMs know, registries, dictionaries, locks | 3 VMs, 2 instances, 6 scripts (two with a `__clean__`), 3 entries known, 5 in a path, 3 copied, 2 dictionaries |
| `cache` | reads, writes, wakeups | object of 8, pieces of 1 to 5 and none, 12 asked in all |
| `cache_eof` | violation: the loop of the example | object of 4, pieces of 1 to 3 |

*Why the bounds are enough.* Two transactions on one VM give every contention there is for a lock: a
third would be one more waiter. One of the two being careless, each promise to the careful one is
checked beside everything the other can do. Two operations let a stray one overlap a proper one, two
callouts let an event handler's frame be followed by a second hook. In `dict_quota` the bound `Quota +
2 * 4` is reached exactly (3 + 4 + 4 = 11) and three keys of 4 exceed it without the check. In
`fetcher` seven units are more than the high water mark plus the low one, so that bytes are held back,
drained, and held back again; one unit of request body tells a request that is sent from one that is
cut. In `regex` three VMs pass the comparison with a capacity of one together, and the calls include
two that read the same, one whose key is cut, and one that does not compile. In `chunked` two chunks
are needed for the decoder to start a second length with what the first has left, and lengths of two
digits, CR LF pairs and the data between them are cut at every place. In `fetch_multi` the second call
may be made inside the callback that ends the first, and the third item tells the last client from the
first and another one; a bad header in the second or third item leaves clients behind that end beside the
other call. In `intercept` four units allow a flush of some, a flush of none left, and an
end with some left. In `transform` three units in blocks of one or two make events with no, one and
several blocks, and two suspensions let an event cross the first and not the second. In `loading` three
VMs are a first, a middle and a last one, and the scripts reach the limit of three entries in one call
and in two. A `__clean__` that adds an entry makes VM 1 differ from two others, and one that asks for a
dictionary finds it or creates it. Reloading beside what the registry and the paths have kept makes paths
of four entries and more, of which three are copied, and a third dictionary is one too many. In `cache` the object is longer than one call and shorter than all calls together. Symmetry
is used in runs without liveness only. The theorems of section 5 hold for all values.

*Deadlock* is not checked where the system may stop: transactions end, a fetch ends, a script stops
using its file, and the counts are bounded. In the dictionary run it is checked.

The run of `RegexCache` stops when the matches are used up.

*Fairness.* `HttpTxn`: weak fairness of each transaction's handlers and of its timers and operations;
Traffic Server's threads run the continuations they have called, Lua functions are assumed to return or
yield, and timers and caches answer. The VM lock is only ever held for finitely many steps, so weak
fairness of a waiting handler suffices in these instances, where every other transaction stops after
bounded work. New requests, callouts and closes are not promised. `Fetcher`: handlers run on, a
connection that is read again and again ends sooner or later if the server has received what was
announced to it (`Received`; strong fairness of `EndOfStream`), the connection takes what it is given
to send, and the client takes what it is offered, as `ts_lua_fetch_handler` does. `FetchMulti`:
handlers and scripts run on, and every client is told its end, which is what `EndIsTold` shows of
`Fetcher`; strongly, since other callbacks of the transaction come between. `Intercept`: handlers run
on, the other end sends its request and takes what it is sent, and timers fire; strongly again, because
each of these is disabled while another handler runs. `Transform`: the handler runs to its end; an
event that is scheduled, an operation that is done and an upstream that was asked get their turn
however many other events come (strongly). `CacheFile`: the cache answers.

*Types.* `TypeOK` is proved of every component (the theorems `TypeCorrect` and `FileTypeCorrect`, and
`CallsInductive` for `FetchMulti`, whose `MultiInv` contains it). The runs do not repeat it.

## 4. Findings

1. *A hook function that returns a positive number hangs its transaction* (`txn_positive`).
   `ts_lua_http_cont_handler` uses one variable for the script's return value and for "the
   coroutine yielded", so that a finished function that returns 1 reaches the branch
   `// wait for async` (`src/ts_lua_util.c:743`) with nothing under way.
2. *cache_eof() may be true before the object was read* (`cache_eof`). If the end of stream arrives
   while no call waits, the bytes in the reserved buffer can no longer be read
   (`src/ts_lua_cache.c:242`), and the loop of `example/test_cache_large.lua:34` misses them.

Observed while modelling, without a statement of the repository to hold against them: a response to
HEAD, or a 304, with a Content-Length is reported as an ERROR; `ts.fetch` of a body with a method other
than POST and PUT announces the body (`ts_lua_fetch.c:376`) and does not send it
(`lib/ts_fetcher.c:214`), so that the server waits (`Honest` in `EndIsTold`); `fetch_multi` of an empty
list and `cache_write` of an empty string suspend the coroutine for ever (`CallResumes`, `EmptyWrite`);
`cache_read` after `cache_close` uses released buffers; an operation started under `pcall` in a hook
leads to a second, unasked `TSHttpTxnReenable`. A chunk extension that is cut, so that a block ends
without a CR after the length, makes `memchr` return NULL and the decoder go on from there
(`VerdictRight` allows the crash for messages with an extension only). An error in the first segment of
an intercept is ignored, and its connection stays until the other end gives up. A second intercept
announced in one transaction replaces the context that the first finds through a Lua global. A script
without `do_remap` leaves the lock of the first VM held by the loading thread (`LocksLeft`). A header
key or value of a fetch that is no string raises an error that does not undo the call: its clients run on,
are never released, and the first to end makes the handler read through a NULL (`lost` in
`NoStrayClient`, `"crash"` in `CallResumes`). What the list of known entries says is not true of all VMs
in four cases (`overfull` and `uneven` in `KnownEverywhere`): a path that got too long is only logged, and
its entries are recorded all the same; an old path of 2016 bytes or more, to which a short entry still
fits, is cut at 2015 bytes and continued with bytes that were never written, and the next call cuts the
new entry off again; an entry added in `__clean__` is recorded by the first VM (`_last` is still set) and
then taken for known by the others; and a script that catches the error of the limit, which with several
calls may come in the last VM only, goes on without the entries of that call. A
transform whose coroutine is suspended is resumed by the next block of its input, or ended without its
result (`crossed`); one whose length becomes known after the last block is never told the end, on which
`example/test_transform.lua:31` relies; and what it has written is not announced while a later block of
the same event is suspended. `ts.shared.DICT` called by a hook dereferences a NULL instance. `match(s,
"a", "i")` and `match(s, "ai")` have one key in the regex cache, as have all calls whose pattern and
options agree in their first 1015 bytes; a lookup that finds an entry before its value is set makes the
match return nil.

## 5. Proofs

`HttpTxn_proofs`. The inductive invariant is `IInv`: types, `VmExclusive`, `LockBalanced` (the owner
of a VM's lock is inside it, and the depth is the number of its frames that took it), `FramesNest`
(an event handler's frame is only below a call of the continuation) and `Stages` (program counter,
state machine and chain keep step). `VmExclusive` alone is not inductive: without the depth, an
unlock in a nested handler might free the lock. From it follow `LockDiscipline`, `NoStaleEvent`, and
`RegistryRight` (`CoroutineAnchored`, which is inductive with `Stages`, and `RegistryUnderLock`: the
registry reference is dropped by the owner of the lock or while it is free, as `Unref` takes it for that
alone). These need nothing of the scripts. `AnswersInTurn` and `WaitsRightly` (each
answer is awaited, each unanswered callout has its operation) and `Refinement` (the safety part of
`HookService`) also need `Protocol`, which says of the careful transactions how chain, coroutine and
state machine keep step; that they hold whatever the careless ones do on the same VM is part of the
theorems.

`SharedDict_proofs`. The mutex is held exactly between lock and unlock (`LockHeld`), and a STATIC
dictionary is written by the loader only, while it runs alone (`WrittenEarly`, if `LoadOnly`),
whence `TableNeverTorn`. `QuotaBound` needs the strengthening that each thread which has passed the
check counts for one more largest item (`QuotaInv`). `EveryItemOwned` is inductive with `LockHeld`;
`NoReadAfterFree` rests on both: nobody changes the table while a reader copies, and an item in the
table is in no thread's hand. `UsedIsSum` is inductive with `EveryItemOwned`: an item that is
replaced or deleted is in the table under this key only, and its size is the one it was charged
with. The sum over the keys is a fold of the library, defined by recursion on finite sets. The
lemmas `SumsExist`, `Sums` and `SumExcept` derive what the steps need of it (a change of one value
changes the sum by as much), by an induction that is done by hand: a least number that lacks the
property does not exist (`EveryNat`, from the well-foundedness of Nat).

`Fetcher_proofs`. `IInv` adds to the safety properties that callbacks do not nest, that a handler or
a scheduled event belongs to a fetcher that is not destroyed, and that the body never outgrows its
length. `Inductive` proves it for all water marks with `Low <= High` and all lengths of request and
response; `WholeOrError`, `NoneLost` and `NotFlooded` are its parts that the run checks;
`SilentAfterEnd` is the action property from the same invariant.

`Fetcher_proofs`, second part, `FetchMulti`. `ResumedWithAll` is about sets of clients and the code
has a counter; `Counted` says that the counter, with the client that is just being counted, is the
number of clients that have ended. It is inductive with `CallStates` (which clients a call has in
which stage) and `Nesting`. When the counter reaches the total, the ended ones are a subset of `1 ..
total` of the same cardinality, hence all (`LastOver`). `ClientsReleased` is a part of the same
invariant. It excepts the calls that are `lost`, and only these: of every other call it says that its
clients are released with it or when the transaction ends, and that its handlers find it allocated, so
that the process can stop in a handler of a lost call only. For this `CallStates` says which clients a
lost call has (all that were launched, none destroyed), and `Ended` that nothing is launched after the
end of the transaction.

`Chunked_proofs`. `OutputRight` and `VerdictRight` relate the output to a position in the stream,
and the decoder knows no position: it has a state, some digits of a length, and a count.
`ChunkedInv` says that these are always a place in the framing of the message. `InLength(k)` is a
length after the first `k` chunks, of which the digits in `frag` are a beginning; `InChunk(k)` is
the line end before, the data of, or the line end after the chunk that follows them; `Over` is the
end. With each goes what has been passed on there (`Given`). The steps rest on facts about the pure
operators, for all inputs: where each part of a concatenation stands (`Flattens`, `Layout`,
`Framing`), that the digits at the front of a block are those that are left of the length (`Leads`),
and what the search for CR LF returns when the next one is in the block, when the block ends between
the two or before, and when there is no CR (`Searches`, `FindsReturn`). Concatenation and search are
recursive functions, and are treated by the induction of `EveryNat`, as above. In `DATA_DONE` the
position may be anywhere behind the last length, and one byte there makes the message complete: this
is what `Over` and `VerdictRight` say.

`Intercept_proofs`. `Locking` says who holds the VM lock, `Flags` what the flags of the context say
of the coroutine: `to_flush` is set only while it waits in `ts.flush`, for exactly the bytes said
before, and a timer or a wake-up is under way only for a coroutine that waits for it. Without the
first, `WokenRightly` is not inductive: a wake-up might find the coroutine in a later sleep.

`Caches_proofs`, first part, `RegexCache`. `OwnedOnce` and `RightRegex` rest on `CacheInv`: the
holder of the mutex is the one VM in the insertion, `InHand` says what the locals `re`, `created`
and `isNew` mean at each place, and `InMap` what the map holds. Without the freshness of names in
`InHand` a compiled regex might be one that is resident already. `SizeBounded` has an invariant of
its own: the entries and the VMs between comparison and insertion together stay below the bound
(`SizeInv`), with a lemma on the cardinality of the two sets for each action.

`Caches_proofs`, second part, `CacheFile`. `ReadsContiguous` and `CallsExact` are inductive with
`Answered` and `Outstanding`: between calls `need = already`, so that what a call is short of is
what it has asked for, whatever events came before it. `WakeupKept` follows from `Outstanding`.

`Loading_proofs`. `LoadInv` says for each VM, by its place before or behind the round under way,
whether the instance is in its registry and which dictionaries it has: `AllVMsKnow` and `OneDictForAll`
follow when the last round is over. That all VMs get the same handle needs that each name is in the array
once, for what one VM has created the next one finds. A script may go on when there are too many
dictionaries: a VM has a dictionary exactly if the script asks for it and it is not `Refused`, and what
the first VM was refused all later ones are, since the array of an instance never shrinks (`Gets`).
`NoLockLeft` counts the instances of the failing path (`Locking`). The steps are taken by what they do to
the thread, not one by one: it gives up, its `__clean__` breaks off, it goes on to the next call, it
finds a dictionary (lemma `Steps`).

`KnownEverywhere` needs to know what the VMs before the one under way have added: all that the
script asks for (`PathsGrow`), since each runs the same script while the list of known entries does
not change. Only the last VM records, and it too has added what it records. Each statement excepts the
`overfull` paths of a VM and the `uneven` entries; that an entry which a `__clean__` records, or a script
skips, is counted as uneven in the same step is what keeps the invariant. A path that is not overfull has
never been cut, so that it is extended and loses nothing (`PathTypes`, `PathAdded`).

`Transform_proofs`. The hard half of `BodyWhole` is that the call which is told the end is the one
for the last block: the blocks that are left tile the body from where the function stands to what
was written (`BlocksCounted`, with the offsets `Ends` as the witness), so that the last of them, and
no other, reaches the end. `MarkInv` is the property strengthened by its converse for lengths known
from the start. `OutputSized` needs `SizeInv`, on the one size that the output has at each stage,
and, since `Endless` is a number and not infinity, a bound on all results together: each call of the
function has returned once per block or operation (`RunsCounted`).

Assumptions are the ASSUMEs on constants of each module, nothing else. Every invariant and every
action property of the passing runs is proved. Model-checked only are liveness and the liveness part
of the refinement (`CalloutAnswered`, `EndIsTold`, `CallResumes`, `Serves`, `BodyEnds`,
`CallReturns`), which rest on fairness and ENABLED and are beyond this prover.

## 6. Not modelled

Accessors, logging, configuration and management calls, `ts.ctx` and the header of cached objects: they
pass a call on, or keep a Lua value for one request, and have no state that another call could disturb.
Base64, escapes and digests: pure functions. Header parsing and the parsing of the arguments of Lua
functions. The single bytes of a path: an entry of it is kept or lost as a whole. Chunk lengths of more than 31 bits. Memory exhaustion, and the undefined behaviour after it and
after a torn lookup in a Tcl table. Two intercepts of one transaction, and fetches that an intercept
makes before its first segment is over. The arguments of `__init__` and what scripts keep in globals.
Traffic Server, Lua and the Tcl hash table are external:
they are modelled by how this code uses them (recursive mutexes, continuations called with their
mutex held, cancelled actions that do not call back, Lua 5.1 coroutines).
