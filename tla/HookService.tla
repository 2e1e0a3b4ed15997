----------------------------- MODULE HookService -----------------------------
(***************************************************************************)
(* What the plugin promises Traffic Server: a transaction is served by one *)
(* Lua VM, a VM serves one transaction at a time, and every callout gets   *)
(* one answer, at once or after the script waited, unless the transaction  *)
(* is closed first.  Locks, coroutines, chains of asynchronous operations  *)
(* and nested handlers do not show.  A careless script forfeits the answer *)
(* of its own transaction, and no more.                                    *)
(***************************************************************************)
CONSTANTS
  Txns, VMs,
  Careless   \* transactions whose scripts break the rules of the protocol

VARIABLES phase, home

svars == <<phase, home>>

Init == phase = [t \in Txns |-> "absent"] /\ home \in [Txns -> VMs]

Move(t, from, to) == phase[t] \in from /\ phase' = [phase EXCEPT ![t] = to]

Inside(u) == phase[u] \in {"remap", "inside"}
Vacant(t) == \A u \in Txns \ {t} : ~(Inside(u) /\ home[u] = home[t])

Arrive(t) == /\ Move(t, {"absent"}, "arrived")
             /\ \E v \in VMs : home' = [home EXCEPT ![t] = v]

StartRemap(t) == Move(t, {"arrived"}, "remap") /\ Vacant(t) /\ UNCHANGED home
Forget(t)     == Move(t, {"remap"}, "closed") /\ UNCHANGED home
Serve(t)      == Move(t, {"remap"}, "running") /\ UNCHANGED home

Ask(t)    == Move(t, {"running"}, "asked") /\ UNCHANGED home
Enter(t)  == Move(t, {"asked"}, "inside") /\ Vacant(t) /\ UNCHANGED home
Refuse(t) == Move(t, {"asked"}, "answering") /\ Vacant(t) /\ UNCHANGED home
Decide(t) == Move(t, {"inside"}, "answering") /\ UNCHANGED home
Wait(t)   == Move(t, {"inside"}, "async") /\ UNCHANGED home
Answer(t) == Move(t, {"answering"}, "running") /\ UNCHANGED home
Wake(t)   == Move(t, {"async"}, "asked") /\ UNCHANGED home

Close(t)  == Move(t, {"running", "async"}, "closing") /\ UNCHANGED home
Closed(t) == Move(t, {"closing"}, "closed") /\ UNCHANGED home

(* A careless script is called, called back and answered in any order, but *)
(* it enters its VM like every other.                                      *)
Serving == {"running", "asked", "inside", "answering", "async"}
Drift(t) == /\ t \in Careless
            /\ \E to \in Serving : /\ Move(t, Serving, to)
                                  /\ to = "inside" => Vacant(t)
            /\ UNCHANGED home

Plugin(t) == \/ StartRemap(t) \/ Forget(t) \/ Serve(t)
             \/ Enter(t) \/ Refuse(t) \/ Decide(t) \/ Wait(t) \/ Answer(t)
             \/ Wake(t) \/ Closed(t)

Next == \E t \in Txns : Arrive(t) \/ Ask(t) \/ Close(t) \/ Plugin(t) \/ Drift(t)

SafeSpec == Init /\ [][Next]_svars
Spec == SafeSpec /\ \A t \in Txns \ Careless : WF_svars(Plugin(t))

=============================================================================
