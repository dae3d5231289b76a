--------------------------- MODULE RetryContract ---------------------------
(***************************************************************************)
(* What BalancedNode.withRetry (packages/ddc/src/nodes/BalancedNode.ts)    *)
(* promises to its callers, with no word about nodes, routing or errors:   *)
(* an operation is a promise that is settled once.  It spends at most      *)
(* MaxAttempts attempts; an attempt either asks a node or finds nobody to  *)
(* ask.  A final answer (a value or an error no retry can cure) settles    *)
(* the promise at once and no node is asked after it.  Otherwise the       *)
(* operation is never given up while an attempt is left.                   *)
(***************************************************************************)
EXTENDS Naturals

CONSTANT MaxAttempts   \* a positive number

VARIABLES
    phase,      \* "ready": between attempts; "asking": a node works on it
    attempts,   \* attempts spent so far
    asks,       \* attempts that reached a node
    result      \* "none" until settled, then "value" or "error"

vars == <<phase, attempts, asks, result>>

Init ==
    /\ phase = "ready"
    /\ attempts = 0
    /\ asks = 0
    /\ result = "none"

(* An attempt that reaches a node. *)
Ask ==
    /\ phase = "ready"
    /\ attempts < MaxAttempts
    /\ phase' = "asking"
    /\ attempts' = attempts + 1
    /\ asks' = asks + 1
    /\ UNCHANGED result

(* The promise is settled as rejected once no attempt is left; before that
   a failed attempt makes the operation ready for the next one. *)
AfterFailure(spent) ==
    IF spent = MaxAttempts
        THEN phase' = "settled" /\ result' = "error"
        ELSE phase' = "ready" /\ UNCHANGED result

(* An attempt that finds nobody to ask. *)
FindNobody ==
    /\ phase = "ready"
    /\ attempts < MaxAttempts
    /\ attempts' = attempts + 1
    /\ AfterFailure(attempts + 1)
    /\ UNCHANGED asks

(* The node's answer is an error another attempt may cure. *)
FailForNow ==
    /\ phase = "asking"
    /\ AfterFailure(attempts)
    /\ UNCHANGED <<attempts, asks>>

(* The node's answer is final. *)
Answer(outcome) ==
    /\ phase = "asking"
    /\ phase' = "settled"
    /\ result' = outcome
    /\ UNCHANGED <<attempts, asks>>

Next ==
    \/ Ask
    \/ FindNobody
    \/ FailForNow
    \/ \E outcome \in {"value", "error"} : Answer(outcome)

SafetySpec == Init /\ [][Next]_vars

(* The promise is settled in the end. *)
Spec == SafetySpec /\ WF_vars(Next)
=============================================================================
