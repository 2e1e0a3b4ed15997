-------------------------- MODULE Intercept_proofs --------------------------
(***************************************************************************)
(* Theorems about Intercept, for every amount of output.                   *)
(***************************************************************************)
EXTENDS Intercept, TLAPS

USE InterceptAssumption DEF InterceptAssumption

LEMMA InitIInv == Init => IInv
<1> SUFFICES ASSUME Init PROVE IInv
  OBVIOUS
<1>1. TypeOK
  <2>1. /\ said \in 0 .. MaxSaid /\ sent \in 0 .. said /\ nbytes \in 0 .. MaxSaid \cup {Endless}
        /\ to_flush \in 0 .. MaxSaid /\ mark \in 0 .. MaxSaid
    BY DEF Init
  <2> QED
    BY <2>1 DEF Init, TypeOK
<1>2. Locking /\ Flags
  BY DEF Init, Locking, InLua, Flags
<1>3. WholeSent /\ WokenRightly /\ GoneIsQuiet
  BY DEF Init, WholeSent, WokenRightly, GoneIsQuiet
<1> QED
  BY <1>1, <1>2, <1>3 DEF IInv

(* A step keeps the invariant: one case for each action.                   *)
LEMMA StepIInv == IInv /\ [Next]_vars => IInv'
<1> SUFFICES ASSUME IInv, [Next]_vars PROVE IInv'
  OBVIOUS
<1> USE DEF IInv, TypeOK, ctxVars, connVars
<1>1. CASE Accept
  <2> USE <1>1 DEF Accept
  <2>1. TypeOK'
    BY DEF Avail, GoneIsQuiet
  <2>2. Locking'
    BY DEF Locking, InLua
  <2>3. Flags'
    BY DEF Flags, Locking, InLua, Avail, WokenRightly, GoneIsQuiet
  <2>4. WholeSent' /\ WokenRightly' /\ GoneIsQuiet'
    BY DEF Flags, Locking, InLua, Avail, WholeSent, WokenRightly, GoneIsQuiet
  <2> QED
    BY <2>1, <2>2, <2>3, <2>4
<1>2. CASE AcceptFailed
  <2> USE <1>2 DEF AcceptFailed
  <2>1. TypeOK'
    BY DEF Avail, GoneIsQuiet
  <2>2. Locking'
    BY DEF Locking, InLua
  <2>3. Flags'
    BY DEF Flags, Locking, InLua, Avail, WokenRightly, GoneIsQuiet
  <2>4. WholeSent' /\ WokenRightly' /\ GoneIsQuiet'
    BY DEF Flags, Locking, InLua, Avail, WholeSent, WokenRightly, GoneIsQuiet
  <2> QED
    BY <2>1, <2>2, <2>3, <2>4
<1>3. CASE EntryLeaves
  <2> USE <1>3 DEF EntryLeaves
  <2>1. TypeOK'
    BY DEF Avail, GoneIsQuiet
  <2>2. Locking'
    BY DEF Locking, InLua
  <2>3. Flags'
    BY DEF Flags, Locking, InLua, Avail, WokenRightly, GoneIsQuiet
  <2>4. WholeSent' /\ WokenRightly' /\ GoneIsQuiet'
    BY DEF Flags, Locking, InLua, Avail, WholeSent, WokenRightly, GoneIsQuiet
  <2> QED
    BY <2>1, <2>2, <2>3, <2>4
<1>4. CASE Flush
  <2> USE <1>4 DEF Flush, LeaveLua
  <2>1. TypeOK'
    BY DEF InLua, Avail, GoneIsQuiet
  <2>2. Locking'
    BY DEF Locking, InLua
  <2>3. Flags'
    BY DEF Flags, Locking, InLua, Avail, WokenRightly, GoneIsQuiet
  <2>4. WholeSent' /\ WokenRightly' /\ GoneIsQuiet'
    BY DEF Flags, Locking, InLua, Avail, WholeSent, WokenRightly, GoneIsQuiet
  <2> QED
    BY <2>1, <2>2, <2>3, <2>4
<1>5. CASE Sleep
  <2> USE <1>5 DEF Sleep, LeaveLua
  <2>1. TypeOK'
    BY DEF InLua, Avail, GoneIsQuiet
  <2>2. Locking'
    BY DEF Locking, InLua
  <2>3. Flags'
    BY DEF Flags, Locking, InLua, Avail, WokenRightly, GoneIsQuiet
  <2>4. WholeSent' /\ WokenRightly' /\ GoneIsQuiet'
    BY DEF Flags, Locking, InLua, Avail, WholeSent, WokenRightly, GoneIsQuiet
  <2> QED
    BY <2>1, <2>2, <2>3, <2>4
<1>6. CASE Finish
  <2> USE <1>6 DEF Finish, Total, LeaveLua
  <2>1. TypeOK'
    <3>1. /\ said' \in 0 .. MaxSaid /\ sent' \in 0 .. said'
          /\ nbytes' \in 0 .. MaxSaid \cup {Endless}
          /\ to_flush' \in 0 .. MaxSaid /\ mark' \in 0 .. MaxSaid
      BY DEF Flags, Avail
    <3>2. /\ entry' \in {"accept", "lua", "unlock", "gone"}
          /\ handler' \in {"idle", "lock", "lua", "unlock", "check"}
          /\ reason' \in {"none", "flush", "sleep"}
          /\ vm' \in {"free", "entry", "handler"}
          /\ crt' \in {"ready", "run", "flush", "sleep", "over", "dead"}
      BY DEF LeaveLua
    <3>3. /\ ret' \in BOOLEAN /\ vio' \in BOOLEAN /\ readOpen' \in BOOLEAN
          /\ all_ready' \in BOOLEAN /\ send_complete' \in BOOLEAN /\ recv_complete' \in BOOLEAN
          /\ timer' \in BOOLEAN /\ wakeup' \in BOOLEAN /\ destroyed' \in BOOLEAN
      BY Zenon
    <3> QED
      BY <3>1, <3>2, <3>3
  <2>2. Locking'
    BY DEF Locking, InLua
  <2>3. Flags'
    BY DEF Flags, Locking, InLua, Avail, WokenRightly, GoneIsQuiet
  <2>4. WholeSent'
    <3>1. crt = "run" /\ ~send_complete
      BY DEF WholeSent, Locking
    <3>2. Avail > 0 => ~send_complete'
      BY <3>1
    <3>3. ~(Avail > 0) => sent = said
      BY DEF Avail
    <3> QED
      BY <3>2, <3>3 DEF WholeSent
  <2>5. WokenRightly'
    BY DEF Locking, InLua, WokenRightly
  <2>6. GoneIsQuiet'
    BY DEF Locking, InLua, Flags, GoneIsQuiet
  <2> QED
    BY <2>1, <2>2, <2>3, <2>4, <2>5, <2>6
<1>7. CASE Raise
  <2> USE <1>7 DEF Raise, LeaveLua
  <2>1. TypeOK'
    BY DEF InLua, Avail, GoneIsQuiet
  <2>2. Locking'
    BY DEF Locking, InLua
  <2>3. Flags'
    BY DEF Flags, Locking, InLua, Avail, WokenRightly, GoneIsQuiet
  <2>4. WholeSent' /\ WokenRightly' /\ GoneIsQuiet'
    BY DEF Flags, Locking, InLua, Avail, WholeSent, WokenRightly, GoneIsQuiet
  <2> QED
    BY <2>1, <2>2, <2>3, <2>4
<1>8. CASE Continue
  <2> USE <1>8 DEF Continue
  <2>1. TypeOK'
    BY DEF Avail, GoneIsQuiet
  <2>2. Locking'
    <3>1. entry = "gone"
      BY DEF Locking, Flags
    <3> QED
      BY <3>1 DEF Locking, InLua
  <2>3. Flags'
    BY DEF Flags, Locking, InLua, Avail, WokenRightly, GoneIsQuiet
  <2>4. WholeSent' /\ WokenRightly' /\ GoneIsQuiet'
    <3>1. crt \in {"flush", "sleep"} /\ ~destroyed
      BY DEF Locking, WokenRightly, GoneIsQuiet
    <3>2. ~send_complete /\ ~timer /\ ~wakeup
      <4>1. ~send_complete
        BY <3>1 DEF WholeSent
      <4> QED
        BY <4>1 DEF Flags
    <3> QED
      BY <3>1, <3>2 DEF WholeSent, WokenRightly, GoneIsQuiet
  <2> QED
    BY <2>1, <2>2, <2>3, <2>4
<1>9. CASE HandlerLeaves
  <2> USE <1>9 DEF HandlerLeaves
  <2>1. TypeOK'
    BY DEF Avail, GoneIsQuiet
  <2>2. Locking'
    BY DEF Locking, InLua
  <2>3. Flags'
    BY DEF Flags, Locking, InLua, Avail, WokenRightly, GoneIsQuiet
  <2>4. WholeSent' /\ WokenRightly' /\ GoneIsQuiet'
    BY DEF Flags, Locking, InLua, Avail, WholeSent, WokenRightly, GoneIsQuiet
  <2> QED
    BY <2>1, <2>2, <2>3, <2>4
<1>10. CASE Read
  <2> USE <1>10 DEF Read, Served, Quiet
  <2>1. TypeOK'
    <3>1. /\ said' \in 0 .. MaxSaid /\ sent' \in 0 .. said'
          /\ nbytes' \in 0 .. MaxSaid \cup {Endless}
          /\ to_flush' \in 0 .. MaxSaid /\ mark' \in 0 .. MaxSaid
      BY DEF Flags, Avail
    <3>2. /\ entry' \in {"accept", "lua", "unlock", "gone"}
          /\ handler' \in {"idle", "lock", "lua", "unlock", "check"}
          /\ reason' \in {"none", "flush", "sleep"}
          /\ vm' \in {"free", "entry", "handler"}
          /\ crt' \in {"ready", "run", "flush", "sleep", "over", "dead"}
      BY DEF LeaveLua
    <3>3. /\ ret' \in BOOLEAN /\ vio' \in BOOLEAN /\ readOpen' \in BOOLEAN
          /\ all_ready' \in BOOLEAN /\ send_complete' \in BOOLEAN /\ recv_complete' \in BOOLEAN
          /\ timer' \in BOOLEAN /\ wakeup' \in BOOLEAN /\ destroyed' \in BOOLEAN
      BY Zenon
    <3> QED
      BY <3>1, <3>2, <3>3
  <2>2. Locking'
    BY DEF Locking, InLua
  <2>3. Flags'
    BY DEF Flags, Locking, InLua, Avail, WokenRightly, GoneIsQuiet
  <2>4. WholeSent' /\ WokenRightly' /\ GoneIsQuiet'
    BY DEF Flags, Locking, InLua, Avail, WholeSent, WokenRightly, GoneIsQuiet
  <2> QED
    BY <2>1, <2>2, <2>3, <2>4
<1>11. CASE WriteComplete
  <2> USE <1>11 DEF WriteComplete, Served, Quiet
  <2>1. TypeOK'
    <3>1. /\ said' \in 0 .. MaxSaid /\ sent' \in 0 .. said'
          /\ nbytes' \in 0 .. MaxSaid \cup {Endless}
          /\ to_flush' \in 0 .. MaxSaid /\ mark' \in 0 .. MaxSaid
      BY DEF Flags, Avail
    <3>2. /\ entry' \in {"accept", "lua", "unlock", "gone"}
          /\ handler' \in {"idle", "lock", "lua", "unlock", "check"}
          /\ reason' \in {"none", "flush", "sleep"}
          /\ vm' \in {"free", "entry", "handler"}
          /\ crt' \in {"ready", "run", "flush", "sleep", "over", "dead"}
      BY DEF LeaveLua
    <3>3. /\ ret' \in BOOLEAN /\ vio' \in BOOLEAN /\ readOpen' \in BOOLEAN
          /\ all_ready' \in BOOLEAN /\ send_complete' \in BOOLEAN /\ recv_complete' \in BOOLEAN
          /\ timer' \in BOOLEAN /\ wakeup' \in BOOLEAN /\ destroyed' \in BOOLEAN
      BY Zenon
    <3> QED
      BY <3>1, <3>2, <3>3
  <2>2. Locking'
    BY DEF Locking, InLua
  <2>3. Flags'
    BY DEF Flags, Locking, InLua, Avail, WokenRightly, GoneIsQuiet
  <2>4. WholeSent' /\ WokenRightly' /\ GoneIsQuiet'
    BY DEF Flags, Locking, InLua, Avail, WholeSent, WokenRightly, GoneIsQuiet
  <2> QED
    BY <2>1, <2>2, <2>3, <2>4
<1>12. CASE NetError
  <2> USE <1>12 DEF NetError, Served, Quiet
  <2>1. TypeOK'
    BY DEF Avail, GoneIsQuiet
  <2>2. Locking'
    BY DEF Locking, InLua
  <2>3. Flags'
    BY DEF Flags, Locking, InLua, Avail, WokenRightly, GoneIsQuiet
  <2>4. WholeSent' /\ WokenRightly' /\ GoneIsQuiet'
    BY DEF Flags, Locking, InLua, Avail, WholeSent, WokenRightly, GoneIsQuiet
  <2> QED
    BY <2>1, <2>2, <2>3, <2>4
<1>13. CASE Check
  <2> USE <1>13 DEF Check, CleanChain
  <2>1. TypeOK'
    <3>1. /\ said' \in 0 .. MaxSaid /\ sent' \in 0 .. said'
          /\ nbytes' \in 0 .. MaxSaid \cup {Endless}
          /\ to_flush' \in 0 .. MaxSaid /\ mark' \in 0 .. MaxSaid
      BY DEF Flags, Avail
    <3>2. /\ entry' \in {"accept", "lua", "unlock", "gone"}
          /\ handler' \in {"idle", "lock", "lua", "unlock", "check"}
          /\ reason' \in {"none", "flush", "sleep"}
          /\ vm' \in {"free", "entry", "handler"}
          /\ crt' \in {"ready", "run", "flush", "sleep", "over", "dead"}
      BY DEF LeaveLua
    <3>3. /\ ret' \in BOOLEAN /\ vio' \in BOOLEAN /\ readOpen' \in BOOLEAN
          /\ all_ready' \in BOOLEAN /\ send_complete' \in BOOLEAN /\ recv_complete' \in BOOLEAN
          /\ timer' \in BOOLEAN /\ wakeup' \in BOOLEAN /\ destroyed' \in BOOLEAN
      BY Zenon
    <3> QED
      BY <3>1, <3>2, <3>3
  <2>2. Locking'
    BY DEF Locking, InLua
  <2>3. Flags'
    BY DEF Flags, Locking, InLua, Avail, WokenRightly, GoneIsQuiet
  <2>4. WholeSent'
    BY DEF WholeSent, Flags, Locking, InLua, Avail
  <2>5. WokenRightly'
    BY DEF Locking, InLua, WokenRightly
  <2>6. GoneIsQuiet'
    BY DEF Locking, InLua, Flags, GoneIsQuiet
  <2> QED
    BY <2>1, <2>2, <2>3, <2>4, <2>5, <2>6
<1>14. ASSUME NEW n \in 1 .. MaxSaid, Say(n) PROVE IInv'
  <2> USE <1>14 DEF Say
  <2>1. TypeOK'
    BY DEF Avail, GoneIsQuiet
  <2>2. Locking'
    BY DEF Locking, InLua
  <2>3. Flags'
    BY DEF Flags, Locking, InLua, Avail, WokenRightly, GoneIsQuiet
  <2>4. WholeSent' /\ WokenRightly' /\ GoneIsQuiet'
    BY DEF Flags, Locking, InLua, Avail, WholeSent, WokenRightly, GoneIsQuiet
  <2> QED
    BY <2>1, <2>2, <2>3, <2>4
<1>15. ASSUME NEW n \in 0 .. MaxSaid, WriteReady(n) PROVE IInv'
  <2> USE <1>15 DEF WriteReady, Served, Quiet, Reenables, Flushed, Flushing
  <2>1. TypeOK'
    <3>1. /\ said' \in 0 .. MaxSaid /\ sent' \in 0 .. said'
          /\ nbytes' \in 0 .. MaxSaid \cup {Endless}
          /\ to_flush' \in 0 .. MaxSaid /\ mark' \in 0 .. MaxSaid
      BY DEF Flags, Avail
    <3>2. /\ entry' \in {"accept", "lua", "unlock", "gone"}
          /\ handler' \in {"idle", "lock", "lua", "unlock", "check"}
          /\ reason' \in {"none", "flush", "sleep"}
          /\ vm' \in {"free", "entry", "handler"}
          /\ crt' \in {"ready", "run", "flush", "sleep", "over", "dead"}
      BY DEF LeaveLua
    <3>3. /\ ret' \in BOOLEAN /\ vio' \in BOOLEAN /\ readOpen' \in BOOLEAN
          /\ all_ready' \in BOOLEAN /\ send_complete' \in BOOLEAN /\ recv_complete' \in BOOLEAN
          /\ timer' \in BOOLEAN /\ wakeup' \in BOOLEAN /\ destroyed' \in BOOLEAN
      BY Zenon
    <3> QED
      BY <3>1, <3>2, <3>3
  <2>2. Locking'
    BY DEF Locking, InLua
  <2>3. Flags'
    BY DEF Flags, Locking, InLua, Avail, WokenRightly, GoneIsQuiet
  <2>4. WholeSent' /\ WokenRightly' /\ GoneIsQuiet'
    BY DEF Flags, Locking, InLua, Avail, WholeSent, WokenRightly, GoneIsQuiet
  <2> QED
    BY <2>1, <2>2, <2>3, <2>4
<1>16. ASSUME NEW r \in {"sleep", "flush"}, Fires(r) PROVE IInv'
  <2> USE <1>16 DEF Fires, Quiet
  <2>1. TypeOK'
    <3>1. /\ said' \in 0 .. MaxSaid /\ sent' \in 0 .. said'
          /\ nbytes' \in 0 .. MaxSaid \cup {Endless}
          /\ to_flush' \in 0 .. MaxSaid /\ mark' \in 0 .. MaxSaid
      BY DEF Flags, Avail
    <3>2. /\ entry' \in {"accept", "lua", "unlock", "gone"}
          /\ handler' \in {"idle", "lock", "lua", "unlock", "check"}
          /\ reason' \in {"none", "flush", "sleep"}
          /\ vm' \in {"free", "entry", "handler"}
          /\ crt' \in {"ready", "run", "flush", "sleep", "over", "dead"}
      BY DEF LeaveLua
    <3>3. /\ ret' \in BOOLEAN /\ vio' \in BOOLEAN /\ readOpen' \in BOOLEAN
          /\ all_ready' \in BOOLEAN /\ send_complete' \in BOOLEAN /\ recv_complete' \in BOOLEAN
          /\ timer' \in BOOLEAN /\ wakeup' \in BOOLEAN /\ destroyed' \in BOOLEAN
      BY Zenon
    <3> QED
      BY <3>1, <3>2, <3>3
  <2>2. Locking'
    BY DEF Locking, InLua
  <2>3. Flags'
    BY DEF Flags, Locking, InLua, Avail, WokenRightly, GoneIsQuiet
  <2>4. WholeSent' /\ WokenRightly' /\ GoneIsQuiet'
    BY DEF Flags, Locking, InLua, Avail, WholeSent, WokenRightly, GoneIsQuiet
  <2> QED
    BY <2>1, <2>2, <2>3, <2>4
<1>17. CASE UNCHANGED vars
  BY <1>17 DEF vars, Locking, InLua, Flags, WholeSent, WokenRightly, GoneIsQuiet
<1> QED
  BY <1>1, <1>2, <1>3, <1>4, <1>5, <1>6, <1>7, <1>8, <1>9, <1>10, <1>11, <1>12, <1>13, <1>14, <1>15, <1>16, <1>17
     DEF Next, Says, Ends, Leaves, Drained, Wakes

-----------------------------------------------------------------------------
(* The inductive invariant.                                                *)
THEOREM Inductive == Spec => []IInv
BY InitIInv, StepIInv, PTL DEF Spec

(* The types; the connection never sends more than the script said.        *)
THEOREM TypeCorrect == Spec => []TypeOK
<1>1. IInv => TypeOK
  BY DEF IInv
<1> QED
  BY <1>1, Inductive, PTL

(* The response is complete only with all that the script said.            *)
THEOREM ResponseWhole == Spec => []WholeSent
<1>1. IInv => WholeSent
  BY DEF IInv
<1> QED
  BY <1>1, Inductive, PTL

(* Each wakeup finds the coroutine waiting for it, and what was to be      *)
(* flushed sent.                                                           *)
THEOREM WakesWhatWaits == Spec => []WokenRightly
<1>1. IInv => WokenRightly
  BY DEF IInv
<1> QED
  BY <1>1, Inductive, PTL

(* No thread and no operation is left with a context that is gone.         *)
THEOREM NothingAfterEnd == Spec => []GoneIsQuiet
<1>1. IInv => GoneIsQuiet
  BY DEF IInv
<1> QED
  BY <1>1, Inductive, PTL
=============================================================================
