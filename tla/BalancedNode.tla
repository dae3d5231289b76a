---------------------------- MODULE BalancedNode ----------------------------
(***************************************************************************)
(* One operation of BalancedNode (packages/ddc/src/nodes/BalancedNode.ts): *)
(* withRetry asks the router for a node, runs the operation's body on it,  *)
(* and lets async-retry decide whether to run another attempt.  All the    *)
(* state below is local to one call of withRetry, so one operation is      *)
(* modelled; the body is a request to a node that ends in one of three     *)
(* ways (StorePiece opens the body up).                                    *)
(*                                                                         *)
(* async-retry is external: it runs 1 + retries attempts, waits between    *)
(* them, rejects with the most frequent error, and `bail` rejects at once. *)
(***************************************************************************)
EXTENDS Naturals, Sequences, FiniteSetsExt, SequencesExt

CONSTANTS
    Eligible,        \* nodes the routing strategy offers for the operation
    Retries,         \* retryOptions.retries
    RetryableErrors, \* node errors with a code of RETRYABLE_GRPC_ERROR_CODES
    FatalErrors,     \* every other error the body can throw
    NoNodes,         \* the router error "No nodes available ..."
    RouterFaults,    \* router errors of another cause (chain, signer, ...)
    MaxFaults,       \* bound: router faults in a behaviour
    None

ASSUME RetriesAssumption == Retries \in Nat

ASSUME ErrorsAssumption ==
    /\ RetryableErrors \cap FatalErrors = {}
    /\ ({NoNodes} \cup RouterFaults) \cap (RetryableErrors \cup FatalErrors) = {}
    /\ None \notin Eligible \cup RetryableErrors \cup FatalErrors
                   \cup {NoNodes} \cup RouterFaults

ASSUME MaxFaultsAssumption == MaxFaults \in Nat

VARIABLES
    pc,                 \* "routing" | "calling" | "backoff" | "done"
    attempt,            \* number async-retry passes to the attempt, from 1
    exclude,            \* nodes not to be offered again, latest first
    node,               \* the node of the current attempt, or None
    lastOperationError,
    lastRouterError,
    errors,             \* errors of the failed attempts, as async-retry keeps them
    outcome,            \* the promise: pending, fulfilled or rejected
    asked,              \* history: the nodes asked, in order
    faults              \* history: router faults so far

vars == <<pc, attempt, exclude, node, lastOperationError, lastRouterError,
          errors, outcome, asked, faults>>

RouterErrors == {NoNodes} \cup RouterFaults
Errors == RouterErrors \cup RetryableErrors \cup FatalErrors

Pending == [state |-> "pending", error |-> None]
Fulfilled == [state |-> "fulfilled", error |-> None]
Rejected(e) == [state |-> "rejected", error |-> e]

-----------------------------------------------------------------------------
Occurrences(s, x) == Cardinality({i \in DOMAIN s : s[i] = x})

(* operation.mainError() of async-retry: the most frequent error, the later
   one when two are equally frequent. *)
MainError(s) ==
    LET best == CHOOSE i \in DOMAIN s :
                    \A j \in DOMAIN s :
                        \/ Occurrences(s, s[j]) < Occurrences(s, s[i])
                        \/ Occurrences(s, s[j]) = Occurrences(s, s[i]) /\ j <= i
    IN  s[best]

(* exclude.unshift(node) *)
Unshift(s, n) == <<n>> \o s

(* The error thrown by an attempt that has no node:
   lastOperationError ?? lastRouterError. *)
NoNodeError_RouterFirst(opError, routerError) == routerError

NoNodeError(opError, routerError) ==
    IF opError # None THEN opError ELSE routerError

-----------------------------------------------------------------------------
Init ==
    /\ pc = "routing"
    /\ attempt = 1
    /\ exclude = <<>>
    /\ node = None
    /\ lastOperationError = None
    /\ lastRouterError = None
    /\ errors = <<>>
    /\ outcome = Pending
    /\ asked = <<>>
    /\ faults = 0

(* The attempt throws e: async-retry records it and either schedules the
   next attempt or, with no attempt left, rejects with the main error. *)
AttemptThrows(e) ==
    /\ errors' = Append(errors, e)
    /\ IF attempt <= Retries
        THEN pc' = "backoff" /\ UNCHANGED outcome
        ELSE pc' = "done" /\ outcome' = Rejected(MainError(errors'))

(* router.getNode answers with a node that is not excluded. *)
RouterSelects(n) ==
    /\ pc = "routing"
    /\ n \in Eligible \ ToSet(exclude)
    /\ node' = n
    /\ exclude' = Unshift(exclude, n)
    /\ asked' = Append(asked, n)
    /\ pc' = "calling"
    /\ UNCHANGED <<attempt, lastOperationError, lastRouterError, errors,
                   outcome, faults>>

(* The errors router.getNode can reject with now: it has no node to offer,
   or something on its way failed. *)
RouterRejections ==
    {e \in RouterErrors :
        IF e = NoNodes THEN Eligible \subseteq ToSet(exclude)
                       ELSE faults < MaxFaults}

(* router.getNode rejects with e, and an earlier node is reused. *)
ReusePrevious_Latest(e) ==
    /\ exclude # <<>>
    /\ node' = Head(exclude)
    /\ exclude' = Tail(exclude)
    /\ asked' = Append(asked, Head(exclude))
    /\ pc' = "calling"
    /\ lastRouterError' = e
    /\ UNCHANGED <<attempt, lastOperationError, errors, outcome>>

ReusePrevious(e) ==
    /\ exclude # <<>>
    /\ node' = Last(exclude)
    /\ exclude' = Front(exclude)
    /\ asked' = Append(asked, Last(exclude))
    /\ pc' = "calling"
    /\ lastRouterError' = e
    /\ UNCHANGED <<attempt, lastOperationError, errors, outcome>>

(* router.getNode rejects with e, and there is no earlier node. *)
NobodyToAsk(e) ==
    /\ exclude = <<>>
    /\ node' = None
    /\ lastRouterError' = e
    /\ AttemptThrows(NoNodeError(lastOperationError, e))
    /\ UNCHANGED <<attempt, exclude, lastOperationError, asked>>

RouterFails(e) ==
    /\ pc = "routing"
    /\ e \in RouterRejections
    /\ ReusePrevious(e) \/ NobodyToAsk(e)
    /\ faults' = faults + (IF e = NoNodes THEN 0 ELSE 1)

(* The body resolves: so does the operation. *)
NodeSucceeds ==
    /\ pc = "calling"
    /\ pc' = "done"
    /\ outcome' = Fulfilled
    /\ UNCHANGED <<attempt, exclude, node, lastOperationError,
                   lastRouterError, errors, asked, faults>>

(* The body throws.  A retryable node error is remembered and thrown on;
   any other error bails: the promise is rejected with it at once. *)
NodeFails_GoesOn(e) ==
    /\ pc = "calling"
    /\ \/ /\ e \in RetryableErrors
          /\ lastOperationError' = e
          /\ AttemptThrows(e)
       \/ /\ e \in FatalErrors
          /\ pc' = "backoff"
          /\ outcome' = Rejected(e)
          /\ errors' = Append(errors, e)
          /\ UNCHANGED lastOperationError
    /\ UNCHANGED <<attempt, exclude, node, lastRouterError, asked, faults>>

NodeFails(e) ==
    /\ pc = "calling"
    /\ \/ /\ e \in RetryableErrors
          /\ lastOperationError' = e
          /\ AttemptThrows(e)
       \/ /\ e \in FatalErrors
          /\ pc' = "done"
          /\ outcome' = Rejected(e)
          /\ UNCHANGED <<lastOperationError, errors>>
    /\ UNCHANGED <<attempt, exclude, node, lastRouterError, asked, faults>>

(* The delay between two attempts is over. *)
Retry ==
    /\ pc = "backoff"
    /\ pc' = "routing"
    /\ attempt' = attempt + 1
    /\ node' = None
    /\ UNCHANGED <<exclude, lastOperationError, lastRouterError, errors,
                   outcome, asked, faults>>

Settled == pc = "done" /\ UNCHANGED vars

Step ==
    \/ \E n \in Eligible : RouterSelects(n)
    \/ \E e \in RouterErrors : RouterFails(e)
    \/ NodeSucceeds
    \/ \E e \in RetryableErrors \cup FatalErrors : NodeFails(e)
    \/ Retry

Next == Step \/ Settled

Spec == Init /\ [][Next]_vars

(* The router and the nodes answer, and the timer of the delay fires.  That a
   node answers, or the connection to it breaks, is an assumption about the
   world: see StorePiece for what the SDK's own timers bound. *)
FairSpec == Spec /\ WF_vars(Step)

-----------------------------------------------------------------------------
TypeOK ==
    /\ pc \in {"routing", "calling", "backoff", "done"}
    /\ attempt \in 1..(Retries + 1)
    /\ exclude \in Seq(Eligible)
    /\ node \in Eligible \cup {None}
    /\ lastOperationError \in RetryableErrors \cup {None}
    /\ lastRouterError \in RouterErrors \cup {None}
    /\ errors \in Seq(RetryableErrors \cup RouterErrors)
    /\ outcome \in {Pending, Fulfilled} \cup {Rejected(e) : e \in Errors}
    /\ asked \in Seq(Eligible)
    /\ faults \in Nat

(* As long as the router fails only for want of nodes, a node is asked a
   second time only after every eligible node has been asked once: a retry
   moves on to another node first (BalancedNode.ts:122-134). *)
ReuseOnlyAfterAll ==
    \A i, j \in DOMAIN asked :
        (i < j /\ asked[i] = asked[j] /\ faults = 0)
            => Eligible \subseteq ToSet(SubSeq(asked, 1, j - 1))

(* Retries spread over the nodes: as long as the router fails only for want of
   nodes, no eligible node is asked three times more than another one (the
   class comment: operations are distributed "to balance the load"). *)
LoadIsBalanced ==
    faults = 0 =>
        \A m, n \in Eligible : Occurrences(asked, m) <= Occurrences(asked, n) + 2

(* The error of a failed operation is a router error only if the first
   attempt found no node: once a node has failed, attempts without a node
   repeat the node's error (BalancedNode.ts:150-152). *)
NodeErrorIsReported ==
    /\ outcome.state = "rejected"
    /\ outcome.error \in RouterErrors
    => errors[1] \in RouterErrors

(* The operation keeps the contract of its callers, progress included. *)
Contract == INSTANCE RetryContract WITH
    MaxAttempts <- Retries + 1,
    phase <- CASE pc = "calling" -> "asking"
               [] pc = "done" -> "settled"
               [] OTHER -> "ready",
    attempts <- IF pc = "routing" THEN attempt - 1 ELSE attempt,
    asks <- Len(asked),
    result <- CASE outcome.state = "pending" -> "none"
                [] outcome.state = "fulfilled" -> "value"
                [] OTHER -> "error"

KeepsContract == Contract!Spec
=============================================================================
