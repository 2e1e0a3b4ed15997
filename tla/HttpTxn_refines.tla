--------------------------- MODULE HttpTxn_refines ---------------------------
(***************************************************************************)
(* HttpTxn implements HookService: the refinement mapping.                 *)
(***************************************************************************)
EXTENDS HttpTxn

(* The phase of a transaction, as Traffic Server sees it.                  *)
PhaseOf(t) ==
  CASE pc[t] = "new" -> "absent"
    [] pc[t] = "lockRemap" -> "arrived"
    [] pc[t] \in {"remap", "undo"} -> "remap"
    [] pc[t] \in {"lockHandler", "lockEvent"} -> "asked"
    [] pc[t] = "run" -> "inside"
    [] pc[t] = "unref" -> "closing"
    [] pc[t] = "gone" -> "closed"
    [] pc[t] \in {"idle", "unlock", "reenable"} ->
         IF sm[t] # "waiting" THEN sm[t]
         ELSE IF pc[t] # "idle" /\ rc[t] # "pos" THEN "answering" ELSE "async"

Service == INSTANCE HookService WITH phase <- [t \in Txns |-> PhaseOf(t)], home <- vm

(* HttpTxn keeps the promise of HookService, liveness included: locks,     *)
(* nested handlers and chains are invisible to the state machine, and a    *)
(* careless script disturbs no transaction but its own.                    *)
ImplementsService == Service!Spec

(* The same without liveness, which is what is proved.                     *)
ImplementsSafely == Service!SafeSpec
=============================================================================
