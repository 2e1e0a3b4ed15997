----------------------------- MODULE FetchMulti -----------------------------
(***************************************************************************)
(* ts.fetch and ts.fetch_multi (ts_lua_fetch.c) in one transaction.        *)
(*                                                                         *)
(* A call launches an HTTP client (module Fetcher) for each of its items,  *)
(* suspends the coroutine and counts the clients that have ended; the last *)
(* one resumes it.  Everything runs under the mutex of the transaction, as *)
(* handlers that may stand on each other: the coroutine runs on inside the *)
(* callback of the last client, makes further calls there, and the         *)
(* transaction may even close there and destroy that client.               *)
(*                                                                         *)
(* Scripts call in hooks, and where Lua can suspend them.  Contents are    *)
(* left out: an item is its client and whether that has ended.             *)
(*                                                                         *)
(* A call whose launch is left by an error inside an item is not undone:   *)
(* it is "lost", and the first of its clients to end stops the process.    *)
(*                                                                         *)
(* The names of the specification begin with Multi, so that the module can *)
(* be extended together with Fetcher.                                      *)
(***************************************************************************)
EXTENDS Integers, FiniteSets

CONSTANTS
  Calls,     \* the calls the script may make
  MaxItems,  \* bound: items of a call
  NoCall

ASSUME FetchAssumption ==
  /\ MaxItems \in Nat
  /\ NoCall \notin Calls

VARIABLES
  handler,   \* where the handler is: "idle" if none runs, "crash" after a NULL
  call,      \* the client whose callback is on the stack: its call ...
  item,      \* ... and its item; NoCall and 0 if there is none
  crt,       \* the coroutine: "ready", "run", "yield", or "dead" after an error
  cur,       \* the call it makes or waits for
  closed,    \* the transaction has ended
  state,     \* of a call: "new", "launching", "waiting", "resumed", "freed", "lost"
  total,     \* fmi->total
  done,      \* fmi->done
  launched,  \* items launched
  ended,     \* items that are over or failed
  clients,   \* items whose client is allocated
  destroyed  \* items whose client was destroyed

multiVars == <<handler, call, item, crt, cur, closed, state, total, done, launched,
               ended, clients, destroyed>>

Items == 1 .. MaxItems

MultiTypeOK ==
  /\ handler \in {"idle", "lua", "launch", "over", "leave", "back", "crash"}
  /\ call \in Calls \cup {NoCall} /\ item \in 0 .. MaxItems
  /\ crt \in {"ready", "run", "yield", "dead"}
  /\ cur \in Calls \cup {NoCall}
  /\ closed \in BOOLEAN
  /\ state \in [Calls -> {"new", "launching", "waiting", "resumed", "freed", "lost"}]
  /\ total \in [Calls -> 0 .. MaxItems]
  /\ done \in [Calls -> Nat]
  /\ launched \in [Calls -> 0 .. MaxItems]
  /\ ended \in [Calls -> SUBSET Items]
  /\ clients \in [Calls -> SUBSET Items]
  /\ destroyed \in [Calls -> SUBSET Items]

MultiInit ==
  /\ handler = "idle" /\ call = NoCall /\ item = 0
  /\ crt = "ready" /\ cur = NoCall
  /\ closed = FALSE
  /\ state = [c \in Calls |-> "new"]
  /\ total = [c \in Calls |-> 0]
  /\ done = [c \in Calls |-> 0]
  /\ launched = [c \in Calls |-> 0]
  /\ ended = [c \in Calls |-> {}]
  /\ clients = [c \in Calls |-> {}]
  /\ destroyed = [c \in Calls |-> {}]

callVars == <<state, total, done, launched, ended, clients, destroyed>>

-----------------------------------------------------------------------------
(* The transaction.                                                        *)

(* It goes on when its coroutine has returned: at once, under the handler  *)
(* that answered, or later.                                                *)
Hook ==
  /\ handler \in {"idle", "leave"} /\ crt = "ready" /\ ~closed
  /\ crt' = "run"
  /\ handler' = "lua"
  /\ UNCHANGED <<call, item, cur, closed, callVars>>

(* ts_lua_destroy_fetch_multi_info destroys the clients of a call.  One    *)
(* whose callback is on the stack is released when that returns.           *)
OnStack(c) == {i \in Items : call = c /\ item = i}

(* Mutant: a client is released under its own callback.                    *)
KeptNever(c) == {}

Kept(c) == clients[c] \cap OnStack(c)

(* The operations in the chain of the context.                             *)
Chained == {c \in Calls : state[c] \in {"waiting", "resumed"}}

(* TXN_CLOSE: ts_lua_fetch_multi_cleanup for each of them.  The client of  *)
(* the transaction may go away while the coroutine waits.                  *)
Close ==
  /\ \/ handler = "idle"
     \/ handler = "leave" /\ crt # "yield"
  /\ ~closed
  /\ closed' = TRUE
  /\ state' = [c \in Calls |-> IF c \in Chained THEN "freed" ELSE state[c]]
  /\ destroyed' = [c \in Calls |-> IF c \in Chained THEN clients[c] ELSE destroyed[c]]
  /\ clients' = [c \in Calls |-> IF c \in Chained THEN Kept(c) ELSE clients[c]]
  /\ UNCHANGED <<handler, call, item, crt, cur, total, done, launched, ended>>

-----------------------------------------------------------------------------
(* The script.                                                             *)

(* ts_lua_fetch, ts_lua_fetch_multi: a call of n items.                    *)
Fetch(c, n) ==
  /\ handler = "lua" /\ state[c] = "new"
  /\ state' = [state EXCEPT ![c] = "launching"]
  /\ total' = [total EXCEPT ![c] = n]
  /\ cur' = c
  /\ handler' = "launch"
  /\ UNCHANGED <<call, item, crt, closed, done, launched, ended, clients, destroyed>>

(* ts_lua_fetch_one_item.                                                  *)
Launch ==
  /\ handler = "launch" /\ launched[cur] < total[cur]
  /\ launched' = [launched EXCEPT ![cur] = @ + 1]
  /\ clients' = [clients EXCEPT ![cur] = @ \cup {launched[cur] + 1}]
  /\ UNCHANGED <<handler, call, item, crt, cur, closed, state, total, done, ended, destroyed>>

(* An error ends the coroutine unless the script catches it.               *)
Raised ==
  /\ cur' = NoCall
  /\ \/ crt' = "dead" /\ handler' = "leave"
     \/ handler' = "lua" /\ UNCHANGED crt

(* An item that is empty or has no URL: the call is undone and raises an   *)
(* error.                                                                  *)
BadItem ==
  /\ handler = "launch" /\ launched[cur] < total[cur]
  /\ state' = [state EXCEPT ![cur] = "freed"]
  /\ destroyed' = [destroyed EXCEPT ![cur] = clients[cur]]
  /\ clients' = [clients EXCEPT ![cur] = Kept(cur)]
  /\ Raised
  /\ UNCHANGED <<call, item, closed, total, done, launched, ended>>

(* luaL_checklstring raises an error for a key or a value of the header    *)
(* that is no string, when the client of the item is created and not yet   *)
(* launched (a metamethod of the tables may raise one before it is         *)
(* created).  Nothing is undone: the clients of earlier items go on, that  *)
(* of this item stays, and the continuation of the call has no data.       *)
BadHeader ==
  /\ handler = "launch" /\ launched[cur] < total[cur]
  /\ state' = [state EXCEPT ![cur] = "lost"]
  /\ \E created \in {{}, {launched[cur] + 1}} :
       clients' = [clients EXCEPT ![cur] = @ \cup created]
  /\ Raised
  /\ UNCHANGED <<call, item, closed, total, done, launched, ended, destroyed>>

(* The item joins the chain and the coroutine yields.                      *)
Suspend ==
  /\ handler = "launch" /\ launched[cur] = total[cur]
  /\ state' = [state EXCEPT ![cur] = "waiting"]
  /\ crt' = "yield"
  /\ handler' = "leave"
  /\ UNCHANGED <<call, item, cur, closed, total, done, launched, ended, clients, destroyed>>

(* The function of the script ends.                                        *)
Finish ==
  /\ handler = "lua"
  /\ crt' = "ready"
  /\ handler' = "leave"
  /\ UNCHANGED <<call, item, cur, closed, callVars>>

-----------------------------------------------------------------------------
(* The handlers.                                                           *)

(* A launched client calls ts_lua_fetch_handler, for the last time if      *)
(* terminal.                                                               *)
ClientCalls(c, i, terminal) ==
  /\ handler = "idle"
  /\ i <= launched[c]
  /\ i \in clients[c] /\ i \notin destroyed[c] /\ i \notin ended[c]
  /\ call' = c /\ item' = i
  /\ IF terminal
     THEN ended' = [ended EXCEPT ![c] = @ \cup {i}] /\ handler' = "over"
     ELSE handler' = "back" /\ UNCHANGED ended
  /\ UNCHANGED <<crt, cur, closed, state, total, done, launched, clients, destroyed>>

(* Mutants: the count is compared before it is raised ...                  *)
AllDoneLate == done[call] = total[call]

(* ... or the first client to end resumes the coroutine.                   *)
AllDoneEarly == done[call] < total[call]

(* fmi->done == fmi->total, after the increment.                           *)
AllDone == done[call] + 1 = total[call]

(* ts_lua_fetch_multi_handler counts; after the last client it fills in    *)
(* the results of all and continues the coroutine.                         *)
Over ==
  /\ handler = "over" /\ state[call] # "lost"
  /\ done' = [done EXCEPT ![call] = @ + 1]
  /\ IF AllDone
     THEN /\ state' = [state EXCEPT ![call] = "resumed"]
          /\ crt' = "run"
          /\ handler' = "lua"
     ELSE handler' = "back" /\ UNCHANGED <<state, crt>>
  /\ UNCHANGED <<call, item, cur, closed, total, launched, ended, clients, destroyed>>

(* For a call that is lost it reads through the NULL it finds as the data  *)
(* of its continuation.                                                    *)
Crash ==
  /\ handler = "over" /\ state[call] = "lost"
  /\ handler' = "crash"
  /\ UNCHANGED <<call, item, crt, cur, closed, callVars>>

(* ts_lua_http_cont_handler returns, to a client or to Traffic Server.     *)
Leave ==
  /\ handler = "leave"
  /\ handler' = IF call = NoCall THEN "idle" ELSE "back"
  /\ UNCHANGED <<call, item, crt, cur, closed, callVars>>

(* The callback returns to its client, which is released now if it was     *)
(* destroyed meanwhile.                                                    *)
Back ==
  /\ handler = "back"
  /\ clients' = [clients EXCEPT ![call] = @ \ (destroyed[call] \cap {item})]
  /\ call' = NoCall /\ item' = 0
  /\ handler' = "idle"
  /\ UNCHANGED <<crt, cur, closed, state, total, done, launched, ended, destroyed>>

-----------------------------------------------------------------------------
Script  == Finish \/ Launch \/ BadItem \/ BadHeader \/ Suspend \/ \E c \in Calls, n \in 0 .. MaxItems : Fetch(c, n)
Handlers == Over \/ Crash \/ Leave \/ Back
Event(terminal) == \E c \in Calls, i \in Items : ClientCalls(c, i, terminal)

MultiNext == Hook \/ Close \/ Script \/ Handlers \/ Event(TRUE) \/ Event(FALSE)

(* Handlers run on, functions of the script end or call, and every client  *)
(* is told the end (EndIsTold of Fetcher).                                 *)
MultiFairness == WF_multiVars(Script) /\ WF_multiVars(Handlers) /\ SF_multiVars(Event(TRUE))

MultiSpec == MultiInit /\ [][MultiNext]_multiVars
MultiFairSpec == MultiSpec /\ MultiFairness

-----------------------------------------------------------------------------
(* Properties.                                                             *)

(* The coroutine is resumed only by the call it waits for, once, with the  *)
(* results of all its clients.                                             *)
ResumedWithAll ==
  [][handler = "over" /\ handler' = "lua" =>
       crt = "yield" /\ cur = call /\ ended[call] = 1 .. total[call]]_multiVars

(* No client outlives its call but the one whose callback is on the stack, *)
(* and that one is not released there; the end of the transaction releases *)
(* the clients of all calls; handlers find their call allocated, and the   *)
(* process stops only there.  All this does not hold of the calls that an  *)
(* error in a header has lost: their clients run on and are never          *)
(* released, and the first to end finds no call.                           *)
NoStrayClient ==
  /\ \A c \in Calls : state[c] = "freed" => clients[c] \subseteq OnStack(c)
  /\ closed /\ handler = "idle" => \A c \in Calls : state[c] # "lost" => clients[c] = {}
  /\ call # NoCall => item \in clients[call]
  /\ handler = "over" => state[call] \in {"waiting", "lost"}
  /\ handler = "crash" => state[call] = "lost"

(* The parts of the inductive invariant.                                   *)
Pending(c) == IF handler \in {"over", "crash"} /\ call = c THEN 1 ELSE 0
Counted    == \A c \in Calls : done[c] + Pending(c) = Cardinality(ended[c])

Nesting ==
  /\ handler \in {"over", "crash", "back"} => call # NoCall
  /\ handler = "idle" => call = NoCall
  /\ call = NoCall <=> item = 0
  /\ handler \in {"over", "crash"} => item \in ended[call]
  /\ handler \in {"lua", "launch"} <=> crt = "run"
  /\ handler = "launch" => cur \in Calls /\ state[cur] = "launching"

CallStates ==
  \A c \in Calls :
    /\ state[c] = "new" => launched[c] = 0
    /\ state[c] = "launching" => handler = "launch" /\ cur = c
    /\ state[c] = "waiting" => crt = "yield" /\ cur = c /\ launched[c] = total[c]
    /\ state[c] \in {"new", "launching"} => ended[c] = {}
    /\ state[c] = "resumed" => ended[c] = 1 .. total[c] /\ launched[c] = total[c]
    /\ state[c] \notin {"freed", "lost"} => clients[c] = 1 .. launched[c]
    /\ state[c] # "freed" => 1 .. launched[c] \subseteq clients[c] /\ destroyed[c] = {}
    /\ state[c] = "freed" => clients[c] \subseteq destroyed[c]
    /\ launched[c] <= total[c]
    /\ ended[c] \subseteq 1 .. launched[c]

(* After the end of the transaction nothing is launched any more.          *)
Ended == closed =>
  /\ handler \notin {"lua", "launch"}
  /\ \A c \in Calls : state[c] \in {"new", "freed", "lost"}

MultiInv == MultiTypeOK /\ Counted /\ Nesting /\ CallStates /\ Ended /\ NoStrayClient

(* A call with at least one item resumes its coroutine, unless the         *)
(* transaction ends before, or the process is stopped by a call that is    *)
(* lost.  (One without items never does.)                                  *)
CallResumes ==
  \A c \in Calls :
    state[c] = "waiting" /\ total[c] > 0 ~> state[c] # "waiting" \/ handler = "crash"
=============================================================================
