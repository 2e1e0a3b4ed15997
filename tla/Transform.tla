------------------------------ MODULE Transform ------------------------------
(***************************************************************************)
(* A body transform (ts_lua_transform.c): TS_LUA_RESPONSE_TRANSFORM and    *)
(* TS_LUA_REQUEST_TRANSFORM.                                               *)
(*                                                                         *)
(* A function of the script is called for one block of the body after the  *)
(* other, told whether it is the last, and returns what is written in its  *)
(* place and whether it has finished.  It may suspend its coroutine.  The  *)
(* same handler runs for new input, for demand of the output and when an   *)
(* operation is done, also while the coroutine is suspended.  Everything   *)
(* is under the mutex of the transaction; the lock of the VM, which other  *)
(* transactions may hold, only delays a call and is left out.  Bytes are   *)
(* counted.                                                                *)
(***************************************************************************)
EXTENDS Integers, SequencesExt

CONSTANTS
  Blocks,   \* lengths of the blocks of the body
  MaxBody,  \* bound: bytes of a body
  Results,  \* lengths of what the function may return ...
  MaxResult,\* ... and a bound of them
  MaxOps,   \* bound: how often the function suspends its coroutine
  Endless,  \* INT64_MAX, downstream_bytes unless the script sets it ...
  Promises  \* ... to one of these

(* A call returns at most MaxResult bytes, and there are no more calls than*)
(* blocks nor more resumptions than operations: the last line says that no *)
(* output reaches INT64_MAX bytes.                                         *)

ASSUME TransformAssumption ==
  /\ Blocks \subseteq Nat \ {0} /\ MaxBody \in Nat
  /\ Results \subseteq 0 .. MaxResult /\ MaxResult \in Nat /\ MaxOps \in Nat
  /\ Promises \subseteq Nat
  /\ Endless \in Nat /\ MaxResult * (MaxBody + MaxOps) <= Endless

NoVio == -1

(* set_downstream_bytes.                                                   *)
Downstream == Promises \cup {Endless}

VARIABLES
  body,      \* bytes the upstream will send, which it knows ...
  early,     \* ... when it starts or only when it has sent them
  promise,   \* downstream_bytes as the first result finds it
  known,     \* nbytes of the input VIO is set
  written,   \* bytes written to the input VIO
  input,     \* lengths of the blocks that are there
  open,      \* the input VIO has its buffer
  pending,   \* an event for new input is scheduled
  asked,     \* the upstream was asked for more
  told,      \* what else the upstream was told: "nothing", "eos", "complete"
  reserved,  \* lengths of the blocks in reserved.buffer
  given,     \* bytes passed to calls of the function
  mark,      \* the last call was told that the data is finished
  co,        \* the coroutine: "ready", "running", "suspended" or "dead"
  ops,       \* operations under way (async_chain)
  begun,     \* how many there were
  stopped,   \* the function has returned 1 or failed
  crossed,   \* a suspended call was resumed with new data or left behind
  total,     \* bytes written to output.buffer
  size,      \* nbytes of output.vio, or NoVio
  shown,     \* bytes written when output.vio was last reenabled
  pc,        \* the handler: "idle", "loop", "run" or "end"
  finished,  \* its variables: toread <= input_avail ...
  eos,       \* ... the same, or the function has finished ...
  write_down,
  closed     \* the context is gone

source == <<body, early, promise>>
inputVars  == <<known, written, input, pending, reserved>>
answerVars == <<open, asked, told>>
luaVars    == <<given, mark, co, ops, begun, stopped, crossed>>
outputVars == <<total, size, shown>>
localVars  == <<finished, eos, write_down>>
vars == <<source, inputVars, answerVars, luaVars, outputVars, pc, localVars, closed>>

Flags ==
  /\ early \in BOOLEAN /\ known \in BOOLEAN /\ open \in BOOLEAN /\ pending \in BOOLEAN
  /\ asked \in BOOLEAN /\ mark \in BOOLEAN /\ stopped \in BOOLEAN /\ crossed \in BOOLEAN
  /\ finished \in BOOLEAN /\ eos \in BOOLEAN /\ write_down \in BOOLEAN /\ closed \in BOOLEAN

TypeOK ==
  /\ body \in 0 .. MaxBody /\ written \in 0 .. body /\ promise \in Downstream
  /\ input \in Seq(Blocks) /\ reserved \in Seq(Blocks)
  /\ given \in 0 .. body /\ ops \in 0 .. MaxOps /\ begun \in 0 .. MaxOps
  /\ total \in Nat /\ size \in Nat \cup {NoVio} /\ shown \in Nat
  /\ told \in {"nothing", "eos", "complete"}
  /\ co \in {"ready", "running", "suspended", "dead"}
  /\ pc \in {"idle", "loop", "run", "end"}
  /\ Flags

(* The upstream has opened the transform, which schedules an event.  What  *)
(* the function will call set_downstream_bytes with is chosen here; the    *)
(* first result is all that looks at it.                                   *)
Init ==
  /\ body \in 0 .. MaxBody /\ early \in BOOLEAN /\ known = early
  /\ promise \in Downstream
  /\ written = 0 /\ input = <<>> /\ reserved = <<>>
  /\ open = TRUE /\ pending = TRUE /\ asked = TRUE /\ told = "nothing"
  /\ given = 0 /\ mark = FALSE /\ co = "ready" /\ ops = 0 /\ begun = 0
  /\ stopped = FALSE /\ crossed = FALSE
  /\ total = 0 /\ size = NoVio /\ shown = 0
  /\ pc = "idle" /\ finished = FALSE /\ eos = FALSE /\ write_down = FALSE
  /\ closed = FALSE

-----------------------------------------------------------------------------
(* The upstream, outside the plugin.  It writes when it is asked to, and   *)
(* may write and schedule events when it is not.                           *)
Idle == pc = "idle" /\ ~closed

Write(n) ==
  /\ Idle /\ open /\ written + n <= body
  /\ written' = written + n
  /\ input' = Append(input, n)
  /\ pending' = TRUE
  /\ asked' = FALSE
  /\ UNCHANGED <<source, known, reserved, open, told, luaVars, outputVars, pc, localVars, closed>>

Reenable ==
  /\ Idle /\ open
  /\ known' = (known \/ written = body)
  /\ pending' = TRUE
  /\ UNCHANGED <<source, written, input, reserved, answerVars, luaVars, outputVars, pc, localVars, closed>>

-----------------------------------------------------------------------------
(* The handler.  All input is moved to reserved.buffer.  When the upstream *)
(* has taken its buffer away, an operation that is done resumes nobody.    *)
Finished == known /\ written = body

MoveInput(next) ==
  IF open
  THEN /\ reserved' = reserved \o input /\ input' = <<>>
       /\ finished' = Finished /\ eos' = Finished /\ pc' = next
       /\ UNCHANGED <<size, shown>>
  ELSE /\ IF size = NoVio THEN UNCHANGED <<size, shown>>
                          ELSE size' = total /\ shown' = total
       /\ UNCHANGED <<reserved, input, finished, eos, pc>>

InputEvent ==
  /\ Idle /\ pending
  /\ pending' = FALSE
  /\ MoveInput("loop")
  /\ UNCHANGED <<source, known, written, answerVars, luaVars, total, write_down, closed>>

(* The consumer of the output wants more.                                  *)
OutputEvent ==
  /\ Idle /\ size # NoVio
  /\ MoveInput("loop")
  /\ UNCHANGED <<source, known, written, pending, answerVars, luaVars, total, write_down, closed>>

(* An operation is done: the coroutine is resumed.  One that has returned  *)
(* cannot be.                                                              *)
Resumed == [ready |-> "dead", suspended |-> "running", dead |-> "dead"]

OpDone ==
  /\ Idle /\ ops > 0
  /\ ops' = ops - 1
  /\ co' = IF open THEN Resumed[co] ELSE co
  /\ MoveInput("run")
  /\ UNCHANGED <<source, known, written, pending, answerVars, given, mark, begun, stopped,
                 crossed, total, write_down, closed>>

(* Mutant: any block of an input that has ended is the last one.           *)
AnyBlock == eos

LastBlock == eos /\ Len(reserved) = 1

(* The loop: the next block goes to a call of the function or, if one is   *)
(* suspended, to that one, as the result of the operation it waits for.    *)
NextBlock ==
  /\ pc = "loop" /\ reserved # <<>>
  /\ reserved' = Tail(reserved)
  /\ IF co = "ready" THEN given' = given + Head(reserved) /\ mark' = LastBlock
                     ELSE UNCHANGED <<given, mark>>
  /\ co' = IF co = "dead" THEN "dead" ELSE "running"
  /\ crossed' = (crossed \/ co = "suspended")
  /\ pc' = "run"
  /\ UNCHANGED <<source, known, written, input, pending, answerVars, ops, begun, stopped,
                 outputVars, localVars, closed>>

NoBlock ==
  /\ pc = "loop" /\ reserved = <<>>
  /\ pc' = "end"
  /\ UNCHANGED <<source, inputVars, answerVars, luaVars, outputVars, localVars, closed>>

-----------------------------------------------------------------------------
(* The function suspends its coroutine and the handler returns at once ... *)
Forget == finished' = FALSE /\ eos' = FALSE /\ write_down' = FALSE

Suspend ==
  /\ pc = "run" /\ co = "running" /\ begun < MaxOps
  /\ co' = "suspended"
  /\ ops' = ops + 1 /\ begun' = begun + 1
  /\ pc' = "idle" /\ Forget
  /\ UNCHANGED <<source, inputVars, answerVars, given, mark, stopped, crossed, outputVars, closed>>

After(ret) ==
  /\ stopped' = (stopped \/ ret)
  /\ eos' = (eos \/ ret)
  /\ pc' = IF ret \/ reserved = <<>> THEN "end" ELSE "loop"
  /\ UNCHANGED <<source, inputVars, answerVars, given, mark, ops, begun, crossed, shown,
                 finished, closed>>

(* Mutant: the first result is taken for the only one.                     *)
FirstOnly(n, ret) == n

(* Nbytes of output.vio when it is opened for the first n bytes.           *)
FirstSize(n, ret) == IF ret THEN n ELSE promise

(* ... or returns n bytes and whether it has finished ...                  *)
Return(n, ret) ==
  /\ pc = "run" /\ co = "running"
  /\ co' = "ready"
  /\ total' = total + n
  /\ size' = IF size = NoVio /\ n > 0 THEN FirstSize(n, ret) ELSE size
  /\ write_down' = (write_down \/ n > 0)
  /\ After(ret)

(* ... or raises, as every resumption does afterwards.                     *)
Fail ==
  /\ pc = "run"
  /\ co' = "dead"
  /\ After(TRUE)
  /\ UNCHANGED <<total, size, write_down>>

(* Mutant: the upstream is asked only when something was written.          *)
AsksIfWritten == ~eos /\ write_down

Asks == ~eos

(* After the loop: the size of the output is set at the end, and the       *)
(* upstream is asked for more or told to stop; it then takes its buffer    *)
(* away.                                                                   *)
Answer ==
  /\ pc = "end"
  /\ size' = IF eos THEN total ELSE size
  /\ shown' = IF write_down \/ eos THEN total ELSE shown
  /\ told' = CASE finished -> "complete" [] eos /\ ~finished -> "eos" [] OTHER -> told
  /\ open' = ~eos
  /\ asked' = (asked \/ Asks)
  /\ crossed' = (crossed \/ (eos /\ co = "suspended"))
  /\ pc' = "idle" /\ Forget
  /\ UNCHANGED <<source, inputVars, given, mark, co, ops, begun, stopped, total, closed>>

(* The transform is closed, by its upstream or with the transaction.       *)
Close ==
  /\ Idle
  /\ closed' = TRUE
  /\ ops' = 0 /\ pending' = FALSE
  /\ UNCHANGED <<source, known, written, input, reserved, answerVars, given, mark, co, begun,
                 stopped, crossed, outputVars, pc, localVars>>

-----------------------------------------------------------------------------
Script  == Suspend \/ Fail \/ \E n \in Results, ret \in BOOLEAN : Return(n, ret)
Handler == NextBlock \/ NoBlock \/ Script \/ Answer
Feed    == \E n \in Blocks : Write(n)

Next == Feed \/ Reenable \/ InputEvent \/ OutputEvent \/ OpDone \/ Handler \/ Close

Spec == Init /\ [][Next]_vars

(* The handler runs to its end.  An event that is scheduled is dispatched, *)
(* an operation is done and an upstream that was asked goes on, however    *)
(* many other events there are.                                            *)
Fairness ==
  /\ WF_vars(Handler)
  /\ SF_vars(InputEvent) /\ SF_vars(OpDone)
  /\ SF_vars(asked /\ Feed) /\ SF_vars(~known /\ written = body /\ Reenable)

FairSpec == Spec /\ Fairness

-----------------------------------------------------------------------------
(* Properties.  An event may find the coroutine suspended: if the handler  *)
(* then has a block or ends the body, the function is resumed with data it *)
(* did not ask for or its result is lost.  They say what holds otherwise,  *)
(* for every event that does neither included.                             *)

(* When the upstream is told that its body is done, the function has had   *)
(* all of it and has returned, and the last call, and no other, was told   *)
(* so, if the length was known from the start and the function did not     *)
(* finish earlier.                                                         *)
BodyWhole ==
  /\ ~crossed /\ mark => given = body
  /\ ~crossed /\ told = "complete" /\ ~stopped =>
       given = body /\ co = "ready" /\ (early /\ body > 0 => mark)

(* The size of the output is never less than what was written, unless the  *)
(* script has promised less, and exact once the upstream was told to stop, *)
(* whatever it has promised; the consumer was told of all of it.           *)
OutputSized ==
  /\ size # NoVio /\ promise = Endless => total <= size
  /\ told # "nothing" => size = total /\ shown = total

(* The body ends or the transform is closed.                               *)
BodyEnds == <>(told # "nothing" \/ crossed \/ closed)

-----------------------------------------------------------------------------
(* Parts of the inductive invariant.                                       *)

(* What each part of the handler finds.                                    *)
HandlerInv ==
  /\ pc # "idle" => open /\ input = <<>> /\ finished = Finished
  /\ pc \in {"loop", "run"} => eos = finished
  /\ pc = "end" => eos = (finished \/ stopped) /\ (stopped \/ reserved = <<>>)
  /\ pc = "run" => co \in {"running", "dead"}
  /\ pc = "loop" \/ (pc = "idle" /\ open) \/ (pc = "end" /\ ~stopped) =>
       co \in {"ready", "suspended"}
  /\ stopped => pc = "end" \/ ~open
  /\ ops <= begun /\ (early => known)

(* The blocks that are left to the function follow one another from where  *)
(* it stands in the body, or further, to what was written: Ends holds the  *)
(* offsets at which they begin and end.                                    *)
Todo == reserved \o input
Ends(q, w) == {e \in [0 .. Len(q) -> 0 .. MaxBody] :
                 /\ e[Len(q)] = w
                 /\ \A i \in 1 .. Len(q) : e[i] = e[i - 1] + q[i]
                 /\ \A i, j \in 0 .. Len(q) : i < j => e[i] < e[j]}
BlocksCounted == \E e \in Ends(Todo, written) :
  given <= e[0] /\ (~crossed => given = e[0])

(* The last call is the one that reaches the end of the body.              *)
MarkInv == ~crossed => /\ mark => given = body
                       /\ early /\ body > 0 /\ given = body => mark

(* Every call has returned once, for a block or for an operation, or is    *)
(* left.                                                                   *)
Left == Len(Todo) + ops + (IF pc = "run" THEN 1 ELSE 0)
RunsCounted == \E r \in 0 .. MaxBody + MaxOps :
  total <= MaxResult * r /\ r + Left <= written + begun

SizeInv ==
  /\ size = NoVio => total = 0
  /\ size # NoVio /\ promise = Endless =>
       size = Endless \/ (size = total /\ (~open \/ (pc = "end" /\ eos)))
  /\ told # "nothing" => ~open
  /\ ~open => size = total /\ shown = total
=============================================================================
