-------------------------- MODULE Transform_proofs --------------------------
(***************************************************************************)
(* Theorems about Transform, for every body, every partition of it into    *)
(* blocks and everything the function may return.                          *)
(***************************************************************************)
EXTENDS Transform, SequenceTheorems, TLAPS

(* The constants.                                                          *)
LEMMA Constants ==
  /\ MaxBody \in Nat /\ MaxOps \in Nat /\ Endless \in Nat /\ MaxResult \in Nat
  /\ \A b \in Blocks : b \in Nat /\ b > 0
  /\ \A n \in Results : n \in Nat /\ n <= MaxResult
  /\ \A n \in Promises : n \in Nat
  BY TransformAssumption DEF TransformAssumption

-----------------------------------------------------------------------------
(* Sequences of blocks, and where they end.                                *)
LEMMA NothingTodo ==
  ASSUME NEW w \in 0 .. MaxBody, NEW q, q = <<>>
  PROVE  \E e \in Ends(q, w) : e[0] = w
<1> DEFINE e == [i \in 0 .. 0 |-> w]
<1>1. Len(q) = 0
  OBVIOUS
<1>2. e \in Ends(q, w) /\ e[0] = w
  BY <1>1, Constants DEF Ends
<1> QED
  BY <1>2

LEMMA BlockAdded ==
  ASSUME NEW q \in Seq(Blocks), NEW n \in Blocks, NEW w \in Nat, w + n <= MaxBody,
         NEW e \in Ends(q, w)
  PROVE  \E f \in Ends(Append(q, n), w + n) : f[0] = e[0]
<1> DEFINE p == Append(q, n)
           f == [i \in 0 .. Len(p) |-> IF i = Len(p) THEN w + n ELSE e[i]]
<1>1. /\ Len(p) = Len(q) + 1 /\ Len(q) \in Nat /\ p[Len(p)] = n
      /\ \A i \in 1 .. Len(q) : p[i] = q[i]
  BY AppendProperties
<1>e. e \in [0 .. Len(q) -> 0 .. MaxBody] /\ MaxBody \in Nat
  BY Constants DEF Ends
<1>2. /\ e[Len(q)] = w
      /\ \A i \in 1 .. Len(q) : e[i] = e[i - 1] + q[i]
      /\ \A i, j \in 0 .. Len(q) : i < j => e[i] < e[j]
  BY DEF Ends
<1> HIDE DEF p
<1>n. n \in Nat /\ n > 0 /\ MaxBody \in Nat
  BY Constants
<1>3. f \in [0 .. Len(p) -> 0 .. MaxBody] /\ f[Len(p)] = w + n /\ f[0] = e[0]
  BY <1>1, <1>2, <1>e, <1>n
<1>4. ASSUME NEW i \in 1 .. Len(p) PROVE f[i] = f[i - 1] + p[i]
  <2>1. PICK j \in 0 .. Len(q) : i - 1 = j /\ i = j + 1
    BY <1>1
  <2>2. f[j] = e[j]
    BY <1>1, <2>1
  <2>3. CASE i = Len(p)
    <3>1. j = Len(q) /\ f[i] = w + n /\ f[j] = w /\ p[i] = n
      BY <1>1, <1>2, <2>1, <2>2, <2>3
    <3> QED
      BY <2>1, <3>1
  <2>4. CASE i # Len(p)
    <3>1. i \in 1 .. Len(q)
      BY <1>1, <2>4
    <3>2. f[i] = e[i] /\ e[i] = e[i - 1] + q[i] /\ p[i] = q[i]
      BY <1>1, <1>2, <3>1
    <3> QED
      BY <2>1, <2>2, <3>2
  <2> QED
    BY <2>3, <2>4
<1>5. ASSUME NEW i \in 0 .. Len(p), NEW j \in 0 .. Len(p), i < j PROVE f[i] < f[j]
  <2>1. i \in 0 .. Len(q) /\ f[i] = e[i] /\ e[i] \in Nat
    BY <1>1, <1>e, <1>5
  <2>2. CASE j = Len(p)
    <3>1. e[i] <= w
      BY <1>1, <1>2, <1>e, <2>1, <1>n
    <3>2. f[j] = w + n
      BY <2>2
    <3> HIDE DEF f
    <3> QED
      BY <2>1, <3>1, <3>2, <1>n
  <2>3. CASE j # Len(p)
    BY <1>1, <1>2, <1>e, <1>5, <2>1, <2>3
  <2> QED
    BY <2>2, <2>3
<1>6. f \in Ends(p, w + n)
  <2> HIDE DEF f
  <2> QED
    BY <1>3, <1>4, <1>5 DEF Ends
<1> QED
  BY <1>3, <1>6 DEF p

(* The offset after the next block is within what was written, and is all  *)
(* of it only if there is no other block.                                  *)
LEMMA BlockTaken ==
  ASSUME NEW q \in Seq(Blocks), q # <<>>, NEW w \in Nat, NEW e \in Ends(q, w)
  PROVE  /\ \E f \in Ends(Tail(q), w) : f[0] = e[0] + Head(q)
         /\ e[0] + Head(q) <= w
         /\ e[0] + Head(q) = w <=> Len(q) = 1
<1> DEFINE p == Tail(q)
           f == [i \in 0 .. Len(p) |-> e[i + 1]]
<1>1. /\ Len(p) = Len(q) - 1 /\ Len(q) \in Nat /\ Len(q) > 0 /\ Head(q) = q[1]
      /\ \A i \in 1 .. Len(p) : p[i] = q[i + 1]
  OBVIOUS
<1>q. \A i \in 1 .. Len(q) : q[i] \in Nat /\ q[i] > 0
  <2> TAKE i \in 1 .. Len(q)
  <2>1. q[i] \in Blocks
    BY ElementOfSeq
  <2> QED
    BY <2>1, Constants
<1>e. e \in [0 .. Len(q) -> 0 .. MaxBody] /\ MaxBody \in Nat
  BY Constants DEF Ends
<1>2. /\ e[Len(q)] = w
      /\ \A i \in 1 .. Len(q) : e[i] = e[i - 1] + q[i]
      /\ \A i, j \in 0 .. Len(q) : i < j => e[i] < e[j]
  BY DEF Ends
<1> HIDE DEF p
<1>3. e[1] = e[0] + Head(q) /\ e[0] \in Nat /\ e[1] \in Nat
  <2>1. 1 \in 1 .. Len(q) /\ 0 \in 0 .. Len(q) /\ 1 \in 0 .. Len(q) /\ 1 - 1 = 0
    BY <1>1
  <2>2. e[1] = e[0] + q[1]
    BY <1>2, <2>1
  <2>3. e[0] \in Nat /\ e[1] \in Nat
    BY <1>e, <2>1
  <2> QED
    BY <1>1, <2>2, <2>3
<1>4. f \in [0 .. Len(p) -> 0 .. MaxBody] /\ f[Len(p)] = w /\ f[0] = e[1]
  BY <1>1, <1>2, <1>e
<1>5. ASSUME NEW i \in 1 .. Len(p) PROVE f[i] = f[i - 1] + p[i]
  <2>1. PICK j \in 0 .. Len(p) : i - 1 = j /\ i = j + 1
    BY <1>1
  <2>2. PICK k \in 1 .. Len(q) : k = i + 1 /\ k - 1 = i
    BY <1>1
  <2>3. f[i] = e[k] /\ f[j] = e[i] /\ p[i] = q[k]
    BY <1>1, <2>1, <2>2
  <2>4. e[k] = e[i] + q[k]
    BY <1>2, <2>2
  <2> HIDE DEF f
  <2> QED
    BY <2>1, <2>3, <2>4
<1>6. ASSUME NEW i \in 0 .. Len(p), NEW j \in 0 .. Len(p), i < j PROVE f[i] < f[j]
  BY <1>1, <1>2, <1>e, <1>6
<1>7. f \in Ends(p, w)
  <2> HIDE DEF f
  <2> QED
    BY <1>4, <1>5, <1>6 DEF Ends
<1>8. e[1] <= w /\ (e[1] = w <=> Len(q) = 1)
  <2>1. CASE Len(q) = 1
    BY <1>2, <1>3, <2>1
  <2>2. CASE Len(q) # 1
    <3>1. 1 \in 0 .. Len(q) /\ Len(q) \in 0 .. Len(q) /\ 1 < Len(q)
      BY <1>1, <2>2
    <3>2. e[1] < w
      BY <1>2, <3>1
    <3> QED
      BY <1>3, <2>2, <3>2
  <2> QED
    BY <2>1, <2>2
<1> HIDE DEF f
<1> QED
  BY <1>3, <1>4, <1>7, <1>8 DEF p

LEMMA TodoType == TypeOK => Todo \in Seq(Blocks) /\ Len(Todo) = Len(reserved) + Len(input)
  BY DEF TypeOK, Todo

-----------------------------------------------------------------------------
(* The handler.                                                            *)
LEMMA InitHandler == Init => HandlerInv
  BY DEF Init, HandlerInv

LEMMA NextHandler == TypeOK /\ HandlerInv /\ [Next]_vars => HandlerInv'
<1> SUFFICES ASSUME TypeOK, HandlerInv, [Next]_vars PROVE HandlerInv'
  OBVIOUS
<1> USE DEF TypeOK, HandlerInv, Finished, source, inputVars, answerVars, luaVars, outputVars, localVars
<1>1. CASE UNCHANGED vars
  BY <1>1 DEF vars
<1>2. ASSUME NEW n \in Blocks, Write(n) PROVE HandlerInv'
  BY <1>2 DEF Write, Idle
<1>3. CASE Reenable
  BY <1>3 DEF Reenable, Idle
<1>4. CASE InputEvent
  BY <1>4 DEF InputEvent, MoveInput, Idle
<1>5. CASE OutputEvent
  BY <1>5 DEF OutputEvent, MoveInput, Idle
<1>6. CASE OpDone
  BY <1>6 DEF OpDone, MoveInput, Idle, Resumed
<1>7. CASE NextBlock
  BY <1>7 DEF NextBlock
<1>8. CASE NoBlock
  BY <1>8 DEF NoBlock
<1>9. CASE Suspend
  BY <1>9 DEF Suspend, Forget
<1>10. ASSUME NEW n \in Results, NEW ret \in BOOLEAN, Return(n, ret) PROVE HandlerInv'
  <2>1. /\ pc = "run" /\ co' = "ready" /\ pc' = IF ret \/ reserved = <<>> THEN "end" ELSE "loop"
        /\ UNCHANGED <<open, input, finished, known, written, body, reserved, ops, begun, early>>
        /\ eos' = (eos \/ ret) /\ stopped' = (stopped \/ ret)
    BY <1>10 DEF Return, After
  <2>2. CASE ret
    BY <2>1, <2>2
  <2>3. CASE ~ret
    <3>1. eos' = eos /\ stopped' = stopped
      BY <2>1, <2>3, Zenon DEF Flags
    <3> QED
      BY <2>1, <2>3, <3>1
  <2> QED
    BY <2>2, <2>3
<1>11. CASE Fail
  BY <1>11 DEF Fail, After
<1>12. CASE Answer
  BY <1>12 DEF Answer, Forget
<1>13. CASE Close
  <2>1. UNCHANGED <<pc, open, input, finished, eos, stopped, reserved, co, begun, early, known, written, body>>
    BY <1>13 DEF Close
  <2>2. ops' = 0
    BY <1>13 DEF Close
  <2> QED
    BY <2>1, <2>2
<1> QED
  BY <1>1, <1>2, <1>3, <1>4, <1>5, <1>6, <1>7, <1>8, <1>9, <1>10, <1>11, <1>12, <1>13
     DEF Next, Feed, Handler, Script

-----------------------------------------------------------------------------
(* Types.                                                                  *)
LEMMA InitFlags == Init => Flags
  BY Zenon DEF Init, Flags

LEMMA NextFlags == Flags /\ [Next]_vars => Flags'
<1> SUFFICES ASSUME Flags, [Next]_vars PROVE Flags'
  OBVIOUS
<1> USE DEF Flags, Finished, source, inputVars, answerVars, luaVars, outputVars, localVars
<1>m. ASSUME NEW next, MoveInput(next) PROVE finished' \in BOOLEAN /\ eos' \in BOOLEAN
  BY <1>m, Zenon DEF MoveInput
<1>1. CASE UNCHANGED vars
  BY <1>1, Zenon DEF vars
<1>2. ASSUME NEW n \in Blocks, Write(n) PROVE Flags'
  BY <1>2, Zenon DEF Write
<1>3. CASE Reenable
  BY <1>3, Zenon DEF Reenable
<1>4. CASE InputEvent
  BY <1>4, <1>m, Zenon DEF InputEvent
<1>5. CASE OutputEvent
  BY <1>5, <1>m, Zenon DEF OutputEvent
<1>6. CASE OpDone
  BY <1>6, <1>m, Zenon DEF OpDone
<1>7. CASE NextBlock
  BY <1>7, Zenon DEF NextBlock, LastBlock
<1>8. CASE NoBlock
  BY <1>8, Zenon DEF NoBlock
<1>9. CASE Suspend
  BY <1>9, Zenon DEF Suspend, Forget
<1>10. ASSUME NEW n \in Results, NEW ret \in BOOLEAN, Return(n, ret) PROVE Flags'
  BY <1>10, Zenon DEF Return, After
<1>11. CASE Fail
  BY <1>11, Zenon DEF Fail, After
<1>12. CASE Answer
  BY <1>12, Zenon DEF Answer, Forget, Asks
<1>13. CASE Close
  BY <1>13, Zenon DEF Close
<1> QED
  BY <1>1, <1>2, <1>3, <1>4, <1>5, <1>6, <1>7, <1>8, <1>9, <1>10, <1>11, <1>12, <1>13
     DEF Next, Feed, Handler, Script

LEMMA InitType == Init => TypeOK
  BY InitFlags, Constants DEF Init, TypeOK, Downstream

LEMMA Moved ==
  ASSUME TypeOK, reserved' = reserved \o input, input' = <<>>
  PROVE  Todo' = Todo
  BY DEF TypeOK, Todo

LEMMA NextType == TypeOK /\ HandlerInv /\ BlocksCounted /\ [Next]_vars => TypeOK'
<1> SUFFICES ASSUME TypeOK, HandlerInv, BlocksCounted, [Next]_vars, Flags' PROVE TypeOK'
  BY NextFlags DEF TypeOK
<1> USE DEF TypeOK, Finished, source, inputVars, answerVars, luaVars, outputVars, localVars
<1>m. ASSUME NEW next, MoveInput(next), next \in {"loop", "run"}, pc = "idle"
      PROVE  /\ reserved' \in Seq(Blocks) /\ input' \in Seq(Blocks)
             /\ size' \in Nat \cup {NoVio} /\ shown' \in Nat
             /\ pc' \in {"idle", "loop", "run", "end"}
  <2>1. CASE open
    <3>1. reserved' = reserved \o input /\ input' = <<>>
      BY <1>m, <2>1 DEF MoveInput
    <3>2. reserved' \in Seq(Blocks) /\ input' \in Seq(Blocks)
      BY <3>1
    <3> QED
      BY <1>m, <2>1, <3>2 DEF MoveInput
  <2>2. CASE ~open
    BY <1>m, <2>2 DEF MoveInput
  <2> QED
    BY <2>1, <2>2
<1>1. CASE UNCHANGED vars
  BY <1>1 DEF vars
<1>2. ASSUME NEW n \in Blocks, Write(n) PROVE TypeOK'
  BY <1>2, Constants DEF Write, Idle
<1>3. CASE Reenable
  BY <1>3 DEF Reenable, Idle
<1>4. CASE InputEvent
  BY <1>4, <1>m DEF InputEvent, Idle
<1>5. CASE OutputEvent
  BY <1>5, <1>m DEF OutputEvent, Idle
<1>6. CASE OpDone
  <2>1. ops' \in 0 .. MaxOps
    BY <1>6, Constants DEF OpDone
  <2>2. co' \in {"ready", "running", "suspended", "dead"}
    BY <1>6 DEF OpDone, HandlerInv, Resumed, Idle
  <2> QED
    BY <1>6, <1>m, <2>1, <2>2 DEF OpDone, Idle
<1>7. CASE NextBlock
  <2>1. given' \in 0 .. body
    <3>1. CASE co = "ready"
      <4>1. Todo = reserved /\ reserved \in Seq(Blocks) /\ written \in 0 .. body
        BY <1>7 DEF NextBlock, HandlerInv, Todo
      <4>2. PICK e \in Ends(Todo, written) : given <= e[0]
        BY DEF BlocksCounted
      <4>3. e[0] + Head(reserved) <= written
        BY <1>7, <4>1, <4>2, BlockTaken DEF NextBlock
      <4>4. e[0] \in Nat /\ Head(reserved) \in Nat
        <5>1. Head(reserved) \in Blocks
          BY <1>7 DEF NextBlock
        <5>2. e[0] \in 0 .. MaxBody
          BY <4>1 DEF Ends
        <5> QED
          BY <5>1, <5>2, Constants
      <4>5. given' = given + Head(reserved)
        BY <1>7, <3>1 DEF NextBlock
      <4> QED
        BY <4>1, <4>2, <4>3, <4>4, <4>5, Constants
    <3>2. CASE co # "ready"
      BY <1>7, <3>2 DEF NextBlock
    <3> QED
      BY <3>1, <3>2
  <2>2. reserved' \in Seq(Blocks)
    BY <1>7 DEF NextBlock
  <2> QED
    BY <1>7, <2>1, <2>2 DEF NextBlock
<1>8. CASE NoBlock
  BY <1>8 DEF NoBlock
<1>9. CASE Suspend
  BY <1>9, Constants DEF Suspend, Forget, HandlerInv
<1>10. ASSUME NEW n \in Results, NEW ret \in BOOLEAN, Return(n, ret) PROVE TypeOK'
  <2>1. total' \in Nat
    BY <1>10, Constants DEF Return
  <2>2. size' \in Nat \cup {NoVio}
    BY <1>10, Constants DEF Return, FirstSize, Downstream
  <2> QED
    BY <1>10, <2>1, <2>2 DEF Return, After
<1>11. CASE Fail
  BY <1>11 DEF Fail, After
<1>12. CASE Answer
  <2>1. told' \in {"nothing", "eos", "complete"}
    BY <1>12 DEF Answer
  <2> QED
    BY <1>12, <2>1 DEF Answer, Forget, Asks
<1>13. CASE Close
  BY <1>13, Constants DEF Close, Idle
<1> QED
  BY <1>1, <1>2, <1>3, <1>4, <1>5, <1>6, <1>7, <1>8, <1>9, <1>10, <1>11, <1>12, <1>13
     DEF Next, Feed, Handler, Script

-----------------------------------------------------------------------------
(* The blocks.                                                             *)
LEMMA InitBlocks == Init => BlocksCounted
<1> SUFFICES ASSUME Init PROVE BlocksCounted
  OBVIOUS
<1>1. Todo = <<>> /\ written = 0 /\ given = 0
  BY DEF Init, Todo
<1>2. \E e \in Ends(Todo, 0) : e[0] = 0
  BY <1>1, NothingTodo, Constants
<1> QED
  BY <1>1, <1>2 DEF BlocksCounted

LEMMA BlocksKept ==
  ASSUME BlocksCounted, Todo' = Todo, written' = written, given' = given, crossed => crossed'
  PROVE  BlocksCounted'
<1>1. PICK e \in Ends(Todo, written) : given <= e[0] /\ (~crossed => given = e[0])
  BY DEF BlocksCounted
<1>2. e \in Ends(Todo', written') /\ given' <= e[0] /\ (~crossed' => given' = e[0])
  BY <1>1
<1> QED
  BY <1>2 DEF BlocksCounted, Ends

LEMMA NextBlocks == TypeOK /\ HandlerInv /\ BlocksCounted /\ [Next]_vars => BlocksCounted'
<1> SUFFICES ASSUME TypeOK, HandlerInv, BlocksCounted, [Next]_vars PROVE BlocksCounted'
  OBVIOUS
<1> USE DEF source, inputVars, answerVars, luaVars, outputVars, localVars
<1>0. ASSUME UNCHANGED <<reserved, input, written, given>>, crossed => crossed'
      PROVE  BlocksCounted'
  BY <1>0, BlocksKept DEF Todo
<1>m. ASSUME NEW next, MoveInput(next), UNCHANGED <<written, given, crossed>>
      PROVE  BlocksCounted'
  <2>1. Todo' = Todo
    BY <1>m, Moved DEF MoveInput, Todo
  <2> QED
    BY <1>m, <2>1, BlocksKept
<1>p. PICK e \in Ends(Todo, written) : given <= e[0] /\ (~crossed => given = e[0])
  BY DEF BlocksCounted
<1>t. /\ Todo \in Seq(Blocks) /\ written \in Nat /\ body \in Nat /\ body <= MaxBody
      /\ e[0] \in Nat /\ given \in Nat
  <2>1. Todo \in Seq(Blocks) /\ Len(Todo) \in Nat
    BY TodoType
  <2>2. written \in Nat /\ body \in Nat /\ body <= MaxBody /\ given \in Nat
    BY Constants DEF TypeOK
  <2>3. e \in [0 .. Len(Todo) -> 0 .. MaxBody]
    BY DEF Ends
  <2> DEFINE w == Len(Todo)
  <2>4. e \in [0 .. w -> 0 .. MaxBody] /\ w \in Nat
    BY <2>1, <2>3
  <2> HIDE DEF w
  <2>5. e[0] \in 0 .. MaxBody
    BY <2>4
  <2> QED
    BY <2>1, <2>2, <2>5, Constants
<1>1. CASE UNCHANGED vars
  BY <1>0, <1>1 DEF vars
<1>2. ASSUME NEW n \in Blocks, Write(n) PROVE BlocksCounted'
  <2>1. Todo' = Append(Todo, n)
    BY <1>2 DEF Write, Todo, TypeOK
  <2>2. written' = written + n /\ written + n <= MaxBody
    BY <1>2, <1>t, Constants DEF Write
  <2>3. PICK f \in Ends(Append(Todo, n), written + n) : f[0] = e[0]
    BY <1>t, <2>2, BlockAdded
  <2>4. f \in Ends(Todo', written') /\ given' <= f[0] /\ (~crossed' => given' = f[0])
    BY <1>2, <1>p, <2>1, <2>2, <2>3 DEF Write
  <2> QED
    BY <2>4 DEF BlocksCounted, Ends
<1>3. CASE Reenable
  BY <1>0, <1>3 DEF Reenable
<1>4. CASE InputEvent
  BY <1>m, <1>4 DEF InputEvent
<1>5. CASE OutputEvent
  BY <1>m, <1>5 DEF OutputEvent
<1>6. CASE OpDone
  BY <1>m, <1>6 DEF OpDone
<1>7. CASE NextBlock
  <2>1. Todo = reserved /\ Todo' = Tail(reserved) /\ Todo # <<>> /\ written' = written
    BY <1>7 DEF NextBlock, HandlerInv, Todo, TypeOK
  <2>2. PICK f \in Ends(Tail(Todo), written) : f[0] = e[0] + Head(Todo)
    BY <1>t, <2>1, BlockTaken
  <2>3. Head(Todo) \in Nat
    <3>1. Head(Todo) \in Blocks
      BY <1>t, <2>1
    <3> QED
      BY <3>1, Constants
  <2>4. /\ given' <= given + Head(Todo) /\ given' \in Nat
        /\ ~crossed' => ~crossed /\ given' = given + Head(Todo)
    <3>1. CASE co = "ready"
      <4>1. given' = given + Head(Todo) /\ crossed' = crossed
        BY <1>7, <2>1, <3>1 DEF NextBlock, TypeOK, Flags
      <4> QED
        BY <1>t, <2>3, <4>1
    <3>2. CASE co # "ready"
      <4>1. co = "suspended"
        BY <1>7, <3>2 DEF NextBlock, HandlerInv
      <4>2. crossed' /\ given' = given
        BY <1>7, <4>1 DEF NextBlock
      <4> QED
        BY <1>t, <2>3, <4>2
    <3> QED
      BY <3>1, <3>2
  <2>5. given' <= f[0] /\ (~crossed' => given' = f[0])
    BY <1>t, <1>p, <2>2, <2>3, <2>4
  <2>6. f \in Ends(Todo', written')
    BY <2>1, <2>2
  <2> QED
    BY <2>5, <2>6 DEF BlocksCounted, Ends
<1>8. CASE NoBlock
  BY <1>0, <1>8 DEF NoBlock
<1>9. CASE Suspend
  BY <1>0, <1>9 DEF Suspend
<1>10. ASSUME NEW n \in Results, NEW ret \in BOOLEAN, Return(n, ret) PROVE BlocksCounted'
  BY <1>0, <1>10 DEF Return, After
<1>11. CASE Fail
  BY <1>0, <1>11 DEF Fail, After
<1>12. CASE Answer
  BY <1>0, <1>12 DEF Answer
<1>13. CASE Close
  BY <1>0, <1>13 DEF Close
<1> QED
  BY <1>1, <1>2, <1>3, <1>4, <1>5, <1>6, <1>7, <1>8, <1>9, <1>10, <1>11, <1>12, <1>13
     DEF Next, Feed, Handler, Script

-----------------------------------------------------------------------------
(* What the function is given and told.                                    *)
LEMMA InitMark == Init => MarkInv /\ BodyWhole
  BY Constants DEF Init, MarkInv, BodyWhole

(* A handler that has nothing left to do has passed on what was written.   *)
LEMMA NothingLeft ==
  ASSUME TypeOK, BlocksCounted, ~crossed, reserved = <<>>, input = <<>>
  PROVE  given = written
<1>1. PICK e \in Ends(Todo, written) : given = e[0]
  BY DEF BlocksCounted
<1>2. Len(Todo) = 0
  BY TodoType
<1> QED
  BY <1>1, <1>2 DEF Ends

LEMMA NextMark ==
  TypeOK /\ HandlerInv /\ BlocksCounted /\ MarkInv /\ BodyWhole /\ SizeInv /\ [Next]_vars
    => MarkInv' /\ BodyWhole'
<1> SUFFICES ASSUME TypeOK, HandlerInv, BlocksCounted, MarkInv, BodyWhole, SizeInv, [Next]_vars
             PROVE  MarkInv' /\ BodyWhole'
  OBVIOUS
<1> USE DEF source, inputVars, answerVars, luaVars, outputVars, localVars
<1>0. ASSUME UNCHANGED <<body, early, given, mark, crossed>>,
             told = "nothing" \/ co' = co, UNCHANGED told, stopped => stopped'
      PROVE  MarkInv' /\ BodyWhole'
  BY <1>0 DEF MarkInv, BodyWhole
<1>1. CASE UNCHANGED vars
  BY <1>0, <1>1 DEF vars
<1>2. ASSUME NEW n \in Blocks, Write(n) PROVE MarkInv' /\ BodyWhole'
  BY <1>0, <1>2 DEF Write
<1>3. CASE Reenable
  BY <1>0, <1>3 DEF Reenable
<1>4. CASE InputEvent
  BY <1>0, <1>4 DEF InputEvent
<1>5. CASE OutputEvent
  BY <1>0, <1>5 DEF OutputEvent
<1>6. CASE OpDone
  <2>1. told = "nothing" \/ co' = co
    BY <1>6 DEF OpDone, SizeInv
  <2> QED
    BY <1>0, <1>6, <2>1 DEF OpDone
<1>7. CASE NextBlock
  <2>1. told = "nothing" /\ told' = told
    BY <1>7 DEF NextBlock, HandlerInv, SizeInv
  <2>2. BodyWhole' <=> (~crossed' /\ mark' => given' = body')
    BY <2>1 DEF BodyWhole
  <2> SUFFICES ASSUME ~crossed'
               PROVE  /\ mark' => given' = body'
                      /\ early' /\ body' > 0 /\ given' = body' => mark'
    BY <2>2 DEF MarkInv
  <2>3. /\ co = "ready" /\ ~crossed /\ body' = body /\ early' = early
        /\ given' = given + Head(reserved) /\ mark' = LastBlock
    BY <1>7 DEF NextBlock, HandlerInv
  <2>4. /\ Todo = reserved /\ reserved \in Seq(Blocks) /\ reserved # <<>>
        /\ written \in Nat /\ body \in Nat /\ written <= body
    BY <1>7, Constants DEF NextBlock, HandlerInv, Todo, TypeOK
  <2>5. PICK e \in Ends(reserved, written) : given = e[0]
    BY <2>3, <2>4 DEF BlocksCounted
  <2>6. given' <= written /\ (given' = written <=> Len(reserved) = 1)
    BY <2>3, <2>4, <2>5, BlockTaken
  <2>7. eos = Finished
    BY <1>7 DEF NextBlock, HandlerInv
  <2>8. given' \in Nat
    <3>1. given \in Nat
      BY Constants DEF TypeOK
    <3>2. Head(reserved) \in Blocks
      BY <2>4
    <3> QED
      BY <2>3, <3>1, <3>2, Constants
  <2>9. mark' => given' = body
    BY <2>3, <2>4, <2>6, <2>7 DEF LastBlock, Finished
  <2>10. ASSUME early, given' = body PROVE mark'
    <3>1. written = body /\ Len(reserved) = 1
      BY <2>4, <2>6, <2>8, <2>10
    <3>2. known
      BY <2>10 DEF HandlerInv
    <3> QED
      BY <2>3, <2>7, <3>1, <3>2 DEF LastBlock, Finished
  <2> QED
    BY <2>3, <2>9, <2>10
<1>8. CASE NoBlock
  BY <1>0, <1>8 DEF NoBlock
<1>9. CASE Suspend
  <2>1. told = "nothing"
    BY <1>9 DEF Suspend, HandlerInv, SizeInv
  <2> QED
    BY <1>0, <1>9, <2>1 DEF Suspend
<1>10. ASSUME NEW n \in Results, NEW ret \in BOOLEAN, Return(n, ret) PROVE MarkInv' /\ BodyWhole'
  <2>1. told = "nothing"
    BY <1>10 DEF Return, HandlerInv, SizeInv
  <2> QED
    BY <1>0, <1>10, <2>1 DEF Return, After
<1>11. CASE Fail
  <2>1. told = "nothing"
    BY <1>11 DEF Fail, HandlerInv, SizeInv
  <2> QED
    BY <1>0, <1>11, <2>1 DEF Fail, After
<1>12. CASE Answer
  <2>1. /\ UNCHANGED <<body, early, given, mark, co, stopped>> /\ pc = "end"
        /\ crossed' = (crossed \/ (eos /\ co = "suspended"))
    BY <1>12 DEF Answer
  <2>2. MarkInv'
    BY <2>1 DEF MarkInv
  <2>3. told = "nothing"
    BY <1>12 DEF Answer, HandlerInv, SizeInv
  <2>4. ASSUME ~crossed', told' = "complete", ~stopped'
        PROVE  given' = body' /\ co' = "ready" /\ (early' /\ body' > 0 => mark')
    <3>1. finished
      BY <1>12, <2>3, <2>4 DEF Answer
    <3>2. eos /\ written = body /\ reserved = <<>> /\ input = <<>>
      BY <2>1, <2>4, <3>1 DEF HandlerInv, Finished
    <3>3. ~crossed /\ co # "suspended"
      BY <2>1, <2>4, <3>2
    <3>4. co = "ready"
      BY <2>1, <2>4, <3>3 DEF HandlerInv
    <3>5. given = body
      BY <3>2, <3>3, NothingLeft
    <3> QED
      BY <2>1, <3>3, <3>4, <3>5 DEF MarkInv
  <2>5. ~crossed' /\ mark' => given' = body'
    BY <2>1 DEF BodyWhole
  <2> QED
    BY <2>2, <2>4, <2>5 DEF BodyWhole
<1>13. CASE Close
  BY <1>0, <1>13 DEF Close
<1> QED
  BY <1>1, <1>2, <1>3, <1>4, <1>5, <1>6, <1>7, <1>8, <1>9, <1>10, <1>11, <1>12, <1>13
     DEF Next, Feed, Handler, Script

-----------------------------------------------------------------------------
(* The calls of the function.                                              *)
LEMMA OneMore == ASSUME NEW k \in Nat, NEW r \in Nat PROVE k * (r + 1) = k * r + k
  OBVIOUS

LEMMA AtMost == ASSUME NEW k \in Nat, NEW r \in Nat, NEW q \in Nat, r <= q PROVE k * r <= k * q
<1>1. PICK d \in Nat : q = r + d
  <2>1. q - r \in Nat /\ q = r + (q - r)
    OBVIOUS
  <2> QED
    BY <2>1
<1>2. k * (r + d) = k * r + k * d /\ k * d \in Nat /\ k * r \in Nat
  OBVIOUS
<1> QED
  BY <1>1, <1>2

LEMMA LeftType == TypeOK => /\ Left \in Nat /\ total \in Nat
                            /\ written \in Nat /\ written <= MaxBody
                            /\ begun \in Nat /\ begun <= MaxOps
<1> SUFFICES ASSUME TypeOK PROVE /\ Left \in Nat /\ total \in Nat
                                 /\ written \in Nat /\ written <= MaxBody
                                 /\ begun \in Nat /\ begun <= MaxOps
  OBVIOUS
<1>1. Len(Todo) \in Nat
  BY TodoType
<1>2. ops \in Nat
  BY Constants DEF TypeOK
<1>3. Left \in Nat
  BY <1>1, <1>2 DEF Left
<1> QED
  BY <1>3, Constants DEF TypeOK

LEMMA InitRuns == Init => RunsCounted
<1> SUFFICES ASSUME Init PROVE RunsCounted
  OBVIOUS
<1>1. Left = 0 /\ total = 0 /\ written = 0 /\ begun = 0
  BY DEF Init, Todo, Left
<1>2. 0 \in 0 .. MaxBody + MaxOps /\ MaxResult * 0 = 0
  BY Constants
<1> QED
  BY <1>1, <1>2 DEF RunsCounted

LEMMA NextRuns ==
  TypeOK /\ HandlerInv /\ RunsCounted /\ TypeOK' /\ [Next]_vars => RunsCounted'
<1> SUFFICES ASSUME TypeOK, HandlerInv, RunsCounted, TypeOK', [Next]_vars PROVE RunsCounted'
  OBVIOUS
<1> USE DEF source, inputVars, answerVars, luaVars, outputVars, localVars
<1>p. PICK r \in 0 .. MaxBody + MaxOps : total <= MaxResult * r /\ r + Left <= written + begun
  BY DEF RunsCounted
<1>t. /\ Left \in Nat /\ total \in Nat /\ written \in Nat /\ begun \in Nat /\ r \in Nat
      /\ Len(Todo) \in Nat /\ ops \in Nat /\ MaxResult * r \in Nat
  <2>1. r \in Nat /\ MaxResult * r \in Nat
    BY Constants
  <2>2. Len(Todo) \in Nat
    BY TodoType
  <2> QED
    BY <2>1, <2>2, LeftType, Constants DEF TypeOK
<1>k. ASSUME total' = total, NEW l \in Int, Left' = l, NEW w \in Nat, written' = w,
             NEW b \in Nat, begun' = b, l + written + begun <= Left + w + b
      PROVE  RunsCounted'
  <2>1. r + l <= w + b
    BY <1>k, <1>p, <1>t
  <2> QED
    BY <1>k, <1>p, <2>1 DEF RunsCounted
<1>0. ASSUME UNCHANGED <<total, reserved, input, ops, written, begun>>, pc = "run" <=> pc' = "run"
      PROVE  RunsCounted'
  <2>1. Left' = Left
    BY <1>0 DEF Left, Todo
  <2> QED
    BY <1>0, <1>k, <1>t, <2>1
<1>m. ASSUME NEW next, MoveInput(next), next # "run", pc = "idle",
             UNCHANGED <<total, ops, written, begun>>
      PROVE  RunsCounted'
  <2>1. Todo' = Todo
    BY <1>m, Moved DEF MoveInput, Todo
  <2>2. pc' # "run"
    BY <1>m DEF MoveInput
  <2>3. Left' = Left
    BY <1>m, <2>1, <2>2 DEF Left
  <2> QED
    BY <1>m, <1>k, <1>t, <2>3
<1>1. CASE UNCHANGED vars
  BY <1>0, <1>1 DEF vars
<1>2. ASSUME NEW n \in Blocks, Write(n) PROVE RunsCounted'
  <2>1. Todo' = Append(Todo, n)
    BY <1>2 DEF Write, Todo, TypeOK
  <2>2. Len(Todo') = Len(Todo) + 1
    BY <2>1, TodoType
  <2>3. Left' = Left + 1
    BY <1>2, <1>t, <2>2 DEF Write, Idle, Left
  <2>4. n \in Nat /\ n > 0
    BY Constants
  <2>5. total' = total /\ written' = written + n /\ begun' = begun
    BY <1>2 DEF Write
  <2>6. Left + 1 \in Int /\ written + n \in Nat /\ (Left + 1) + written + begun <= Left + (written + n) + begun
    BY <1>t, <2>4
  <2> QED
    BY <1>k, <1>t, <2>3, <2>5, <2>6
<1>3. CASE Reenable
  BY <1>0, <1>3 DEF Reenable
<1>4. CASE InputEvent
  BY <1>m, <1>4 DEF InputEvent, Idle
<1>5. CASE OutputEvent
  BY <1>m, <1>5 DEF OutputEvent, Idle
<1>6. CASE OpDone
  <2>1. Todo' = Todo
    BY <1>6, Moved DEF OpDone, MoveInput, Todo
  <2>2. pc = "idle" /\ ops' = ops - 1 /\ UNCHANGED <<total, written, begun>>
    BY <1>6 DEF OpDone, Idle
  <2>3. Left' \in {Left, Left - 1}
    BY <1>t, <2>1, <2>2 DEF Left
  <2>4. PICK l \in {Left, Left - 1} : Left' = l
    BY <2>3
  <2>5. l \in Int /\ l + written + begun <= Left + written + begun
    BY <1>t
  <2> QED
    BY <1>k, <1>t, <2>2, <2>4, <2>5
<1>7. CASE NextBlock
  <2>1. Todo = reserved /\ Todo' = Tail(reserved) /\ reserved # <<>>
    BY <1>7 DEF NextBlock, HandlerInv, Todo, TypeOK
  <2>2. Len(Todo') = Len(Todo) - 1
    <3>1. reserved \in Seq(Blocks)
      BY DEF TypeOK
    <3>2. Len(Tail(reserved)) = Len(reserved) - 1
      BY <2>1, <3>1, HeadTailProperties
    <3> QED
      BY <2>1, <3>2
  <2>3. Left' = Left
    BY <1>7, <1>t, <2>2 DEF NextBlock, Left
  <2> QED
    BY <1>7, <1>k, <1>t, <2>3 DEF NextBlock
<1>8. CASE NoBlock
  BY <1>0, <1>8 DEF NoBlock
<1>9. CASE Suspend
  <2>1. Left' = Left
    BY <1>9, <1>t DEF Suspend, Left, Todo
  <2>2. total' = total /\ written' = written /\ begun' = begun + 1
    BY <1>9 DEF Suspend
  <2>3. begun + 1 \in Nat /\ Left + written + begun <= Left + written + (begun + 1)
    BY <1>t
  <2> QED
    BY <1>k, <1>t, <2>1, <2>2, <2>3
<1>r. ASSUME pc = "run", After(TRUE) \/ After(FALSE) PROVE Left' = Left - 1
  <2>1. pc' # "run" /\ UNCHANGED <<reserved, input, ops>>
    BY <1>r DEF After
  <2> QED
    BY <1>r, <1>t, <2>1 DEF Left, Todo
<1>10. ASSUME NEW n \in Results, NEW ret \in BOOLEAN, Return(n, ret) PROVE RunsCounted'
  <2>1. Left' = Left - 1
    <3>1. pc = "run" /\ (After(TRUE) \/ After(FALSE))
      BY <1>10 DEF Return
    <3> QED
      BY <1>r, <3>1
  <2>2. written' = written /\ begun' = begun /\ total' = total + n
    BY <1>10 DEF Return, After
  <2>3. (r + 1) + (Left - 1) <= written + begun
    BY <1>p, <1>t
  <2>4. Left - 1 \in Nat
    BY <1>10, <1>t DEF Return, Left
  <2>5. r + 1 \in 0 .. MaxBody + MaxOps
    BY <1>t, <2>3, <2>4, LeftType, Constants
  <2>6. total + n <= MaxResult * (r + 1)
    BY <1>p, <1>t, OneMore, Constants
  <2> QED
    BY <2>1, <2>2, <2>3, <2>5, <2>6 DEF RunsCounted
<1>11. CASE Fail
  <2>1. Left' = Left - 1 /\ UNCHANGED <<total, written, begun>>
    BY <1>11, <1>r DEF Fail, After
  <2>2. Left - 1 \in Int /\ (Left - 1) + written + begun <= Left + written + begun
    BY <1>t
  <2> QED
    BY <1>k, <1>t, <2>1, <2>2
<1>12. CASE Answer
  BY <1>0, <1>12 DEF Answer
<1>13. CASE Close
  <2>1. Left' = Left - ops /\ UNCHANGED <<total, written, begun>>
    BY <1>13, <1>t DEF Close, Idle, Left, Todo
  <2>2. Left - ops \in Int /\ (Left - ops) + written + begun <= Left + written + begun
    BY <1>t
  <2> QED
    BY <1>k, <1>t, <2>1, <2>2
<1> QED
  BY <1>1, <1>2, <1>3, <1>4, <1>5, <1>6, <1>7, <1>8, <1>9, <1>10, <1>11, <1>12, <1>13
     DEF Next, Feed, Handler, Script

(* All the calls together return no more than Endless bytes.               *)
LEMMA OutputBounded == TypeOK /\ RunsCounted => total <= Endless
<1> SUFFICES ASSUME TypeOK, RunsCounted PROVE total <= Endless
  OBVIOUS
<1>1. PICK r \in 0 .. MaxBody + MaxOps : total <= MaxResult * r
  BY DEF RunsCounted
<1>2. r \in Nat /\ MaxBody + MaxOps \in Nat /\ r <= MaxBody + MaxOps
  BY Constants
<1>3. MaxResult * r <= MaxResult * (MaxBody + MaxOps)
  BY <1>2, AtMost, Constants
<1>4. MaxResult * (MaxBody + MaxOps) <= Endless
  BY TransformAssumption DEF TransformAssumption
<1>5. PICK a \in Nat, b \in Nat : a = MaxResult * r /\ b = MaxResult * (MaxBody + MaxOps)
  BY <1>2, Constants
<1> QED
  BY <1>1, <1>3, <1>4, <1>5, Constants DEF TypeOK

-----------------------------------------------------------------------------
(* The size of the output.                                                 *)
LEMMA InitSize == Init => SizeInv
  BY DEF Init, SizeInv

LEMMA NextSize ==
  TypeOK /\ HandlerInv /\ SizeInv /\ [Next]_vars => SizeInv'
<1> SUFFICES ASSUME TypeOK, HandlerInv, SizeInv, [Next]_vars PROVE SizeInv'
  OBVIOUS
<1> USE DEF source, inputVars, answerVars, luaVars, outputVars, localVars, SizeInv
<1>b. open \in BOOLEAN /\ eos \in BOOLEAN /\ total # NoVio
  BY DEF TypeOK, Flags, NoVio
<1>0. ASSUME UNCHANGED <<promise, size, total, shown, open, told>>, pc # "end"
      PROVE  SizeInv'
  BY <1>0
<1>m. ASSUME NEW next, MoveInput(next), UNCHANGED <<promise, total, open, told>>, pc = "idle"
      PROVE  SizeInv'
  <2>1. CASE open
    BY <1>m, <2>1 DEF MoveInput
  <2>2. CASE ~open
    BY <1>m, <1>b, <2>2 DEF MoveInput
  <2> QED
    BY <2>1, <2>2
<1>1. CASE UNCHANGED vars
  BY <1>1 DEF vars
<1>2. ASSUME NEW n \in Blocks, Write(n) PROVE SizeInv'
  BY <1>0, <1>2 DEF Write, Idle
<1>3. CASE Reenable
  BY <1>0, <1>3 DEF Reenable, Idle
<1>4. CASE InputEvent
  BY <1>m, <1>4 DEF InputEvent, Idle
<1>5. CASE OutputEvent
  BY <1>m, <1>5 DEF OutputEvent, Idle
<1>6. CASE OpDone
  BY <1>m, <1>6 DEF OpDone, Idle
<1>7. CASE NextBlock
  BY <1>0, <1>7 DEF NextBlock
<1>8. CASE NoBlock
  BY <1>0, <1>8 DEF NoBlock
<1>9. CASE Suspend
  BY <1>0, <1>9 DEF Suspend
<1>10. ASSUME NEW n \in Results, NEW ret \in BOOLEAN, Return(n, ret) PROVE SizeInv'
  <2>1. /\ open /\ told = "nothing" /\ UNCHANGED <<open, told, promise, shown>> /\ pc = "run"
        /\ total' = total + n /\ size' = IF size = NoVio /\ n > 0 THEN FirstSize(n, ret) ELSE size
    BY <1>10 DEF Return, After, HandlerInv
  <2>2. n \in Nat /\ total \in Nat
    BY Constants DEF TypeOK
  <2>3. CASE size = NoVio /\ n > 0
    <3>1. total' = n
      BY <2>1, <2>2, <2>3
    <3>2. CASE ret
      <4>1. pc' = "end" /\ eos' /\ size' = n
        BY <1>10, <2>1, <2>3, <3>2 DEF Return, After, FirstSize
      <4>2. n # NoVio
        BY <2>2 DEF NoVio
      <4> QED
        BY <2>1, <3>1, <4>1, <4>2
    <3>3. CASE ~ret
      <4>1. size' = promise /\ promise # NoVio
        BY <2>1, <2>3, <3>3, Constants DEF FirstSize, TypeOK, Downstream, NoVio
      <4> QED
        BY <2>1, <4>1
    <3> QED
      BY <3>2, <3>3
  <2>4. CASE ~(size = NoVio /\ n > 0)
    <3>1. size' = size
      BY <2>1, <2>4
    <3>2. size = NoVio => total' = 0
      BY <2>1, <2>2, <2>4
    <3> QED
      BY <2>1, <3>1, <3>2
  <2> QED
    BY <2>3, <2>4
<1>11. CASE Fail
  BY <1>0, <1>11 DEF Fail, After
<1>12. CASE Answer
  <2>1. /\ open /\ told = "nothing" /\ UNCHANGED <<promise, total>> /\ open' = ~eos
        /\ size' = IF eos THEN total ELSE size
        /\ shown' = IF write_down \/ eos THEN total ELSE shown
        /\ finished => eos
    BY <1>12 DEF Answer, HandlerInv
  <2>2. told' # "nothing" => eos
    BY <1>12, <2>1 DEF Answer
  <2>3. CASE eos
    BY <1>b, <2>1, <2>2, <2>3
  <2>4. CASE ~eos
    <3>1. size' = size /\ open' /\ told' = "nothing"
      BY <2>1, <2>2, <2>4
    <3> QED
      BY <2>1, <2>4, <3>1
  <2> QED
    BY <2>3, <2>4
<1>13. CASE Close
  BY <1>0, <1>13 DEF Close, Idle
<1> QED
  BY <1>1, <1>2, <1>3, <1>4, <1>5, <1>6, <1>7, <1>8, <1>9, <1>10, <1>11, <1>12, <1>13
     DEF Next, Feed, Handler, Script

-----------------------------------------------------------------------------
(* The inductive invariant.  No part of it is inductive without the others:*)
(* that blocks are left to the function needs the state of the handler,    *)
(* and the type of given that they end within the body.                    *)
Inv == TypeOK /\ HandlerInv /\ BlocksCounted /\ MarkInv /\ BodyWhole /\ RunsCounted /\ SizeInv

THEOREM Inductive == Spec => []Inv
<1>1. Init => Inv
  BY InitType, InitHandler, InitBlocks, InitMark, InitRuns, InitSize DEF Inv
<1>2. Inv /\ [Next]_vars => Inv'
  BY NextType, NextHandler, NextBlocks, NextMark, NextRuns, NextSize DEF Inv
<1> QED
  BY <1>1, <1>2, PTL DEF Spec

(* TypeOK is an invariant: the function is never given more than there is. *)
THEOREM TypeCorrect == Spec => []TypeOK
<1>1. Inv => TypeOK
  BY DEF Inv
<1> QED
  BY <1>1, Inductive, PTL

(* Unless a suspended call was resumed with data or left behind: a call is *)
(* told that the data is finished only with the last block of the body,    *)
(* and when the upstream is told that the body is complete the function    *)
(* has had every byte of it and has returned.                              *)
THEOREM WholeBody == Spec => []BodyWhole
<1>1. Inv => BodyWhole
  BY DEF Inv
<1> QED
  BY <1>1, Inductive, PTL

(* The output is never shorter than what was written to it, and once the   *)
(* upstream was told to stop its size is what was written and the consumer *)
(* has been told of it.                                                    *)
THEOREM SizedOutput == Spec => []OutputSized
<1>1. Inv => OutputSized
  <2> SUFFICES ASSUME Inv PROVE OutputSized
    OBVIOUS
  <2>1. total <= Endless /\ total \in Nat
    BY OutputBounded DEF Inv, TypeOK
  <2> QED
    BY <2>1 DEF Inv, SizeInv, OutputSized
<1> QED
  BY <1>1, Inductive, PTL
=============================================================================
