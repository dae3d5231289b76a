---------------------------- MODULE Transactions ----------------------------
(***************************************************************************)
(* Transactions of one account sent by the SDK: Blockchain.send and its    *)
(* batches (packages/blockchain/src/Blockchain.ts), and the operations of  *)
(* DdcClient that build them from what they read of the chain              *)
(* (depositBalance, removeBuckets).                                        *)
(*                                                                         *)
(* The chain is external: a best chain whose last blocks may be retracted, *)
(* a finalized part, a pool with one transaction for a nonce, and the      *)
(* pallets as far as the operations tell them apart.  A block holds one    *)
(* transaction.  Each inclusion is notified before the finality of it.     *)
(***************************************************************************)
EXTENDS Naturals, FiniteSets, Sequences, SequencesExt

CONSTANTS
    Sends,              \* operations of the account
    Foreign,            \* a deposit for the account by somebody else
    Requests,           \* what the operations may ask for
    MaxRetractions,     \* bound: forks of the chain
    MaxForeign          \* bound: deposits by somebody else

Deposit(allowExtra) == [kind |-> "deposit", allowExtra |-> allowExtra]
Calls(mode, calls) == [kind |-> "calls", mode |-> mode, calls |-> calls]
Modes == {"single", "batch", "batchAll"}

removeBucket(b) == [call |-> "removeBucket", bucket |-> b]
deposit == [call |-> "deposit"]
depositExtra == [call |-> "depositExtra"]

(* The pallet's extrinsic for the buckets: one call, or a batch of them. *)
removeBuckets(bucketIds) ==
    Calls(IF Len(bucketIds) = 1 THEN "single" ELSE "batch",
          [k \in DOMAIN bucketIds |-> removeBucket(bucketIds[k])])

ASSUME TransactionsAssumption ==
    /\ Foreign \notin Sends
    /\ MaxRetractions \in Nat /\ MaxForeign \in Nat
    /\ \A r \in Requests :
           \/ \E x \in BOOLEAN : r = Deposit(x)
           \/ r.kind = "calls" /\ r.mode \in Modes

VARIABLES
    send,           \* the operations: what they sent and what their promise says
    reported,       \* what removeBuckets of the operations resolved with
    pool,           \* transactions accepted and not in the best chain
    best,           \* the best chain
    final,          \* how much of it is final
    retractions,
    foreign         \* deposits by somebody else that may still come

chain == <<pool, best, final, retractions, foreign>>
vars == <<send, reported, chain>>

-----------------------------------------------------------------------------
(* External: the pallets.  A deposit creates a ledger and fails when there is
   one, an extra deposit needs one, a bucket is removed once. *)
GenesisState == [deposits |-> 0, removed |-> {}]

Fails(s, c) ==
    \/ c.call = "deposit" /\ s.deposits > 0
    \/ c.call = "depositExtra" /\ s.deposits = 0
    \/ c.call = "removeBucket" /\ c.bucket \in s.removed

Apply(s, c) ==
    IF c.call = "removeBucket"
      THEN [s EXCEPT !.removed = @ \cup {c.bucket}]
      ELSE [s EXCEPT !.deposits = @ + 1]

(* External: an extrinsic of its own has its call dispatched; utility.batch stops
   at the first call that fails and succeeds, utility.batchAll fails as a whole. *)
Run(s, calls) ==
    FoldLeft(LAMBDA r, c : IF r.failed \/ Fails(r.state, c)
                             THEN [r EXCEPT !.failed = TRUE]
                             ELSE [r EXCEPT !.state = Apply(r.state, c)],
             [state |-> s, failed |-> FALSE], calls)

Outcome(s, mode, calls) ==
    LET r == Run(s, calls)
        ok == /\ mode = "single" => ~Fails(s, calls[1])
              /\ mode = "batchAll" => ~r.failed
    IN [ok |-> ok, state |-> IF ok THEN r.state ELSE s]

StateAt(n) == IF n = 0 THEN GenesisState ELSE best[n].state
BestState == StateAt(Len(best))

(* External: the nonce of the account in the best chain. *)
AccountNonce == Cardinality({n \in DOMAIN best : best[n].by # Foreign})

InFlight(i) ==
    \/ send[i].promise = "pending"
    \/ i \in pool
    \/ \E n \in (final + 1)..Len(best) : best[n].by = i

-----------------------------------------------------------------------------
Init ==
    /\ send = [i \in Sends |-> [phase |-> "idle", allowExtra |-> FALSE, mode |-> "single",
                                calls |-> <<>>, nonce |-> 0, promise |-> "none",
                                lost |-> FALSE, disturbed |-> FALSE]]
    /\ reported = [i \in Sends |-> {}]
    /\ pool = {}
    /\ best = <<>>
    /\ final = 0
    /\ retractions = 0
    /\ foreign = MaxForeign

Disturbed(S) == [i \in Sends |-> IF i \in S THEN [send[i] EXCEPT !.disturbed = TRUE] ELSE send[i]]

(* An operation is called: depositBalance reads the deposit first, the others
   have their calls. *)
Begin(i, r) ==
    /\ send[i].phase = "idle"
    /\ send' = [Disturbed(Sends \ {i}) EXCEPT ![i] =
                   [@ EXCEPT !.phase = IF r.kind = "deposit" THEN "reading" ELSE "ready",
                             !.allowExtra = r.kind = "deposit" /\ r.allowExtra,
                             !.mode = IF r.kind = "deposit" THEN "single" ELSE r.mode,
                             !.calls = IF r.kind = "deposit" THEN <<>> ELSE r.calls,
                             !.promise = "pending",
                             !.disturbed = \/ \E j \in Sends \ {i} : InFlight(j)
                                           \/ final # Len(best)]]
    /\ UNCHANGED <<chain, reported>>

(* depositBalance chooses the call by what it read. *)
ChooseDeposit_Always(i) ==
    /\ send[i].phase = "reading"
    /\ send' = [send EXCEPT ![i] = [@ EXCEPT !.phase = "ready", !.calls = <<deposit>>]]
    /\ UNCHANGED <<chain, reported>>

ChooseDeposit(i) ==
    /\ send[i].phase = "reading"
    /\ send' = [send EXCEPT ![i] =
                   [@ EXCEPT !.phase = "ready",
                             !.calls = IF send[i].allowExtra /\ BestState.deposits > 0
                                         THEN <<depositExtra>> ELSE <<deposit>>]]
    /\ UNCHANGED <<chain, reported>>

(* The query, the signer or the submission throws. *)
SubmitThrows_NotCaught(i) ==
    /\ send[i].phase \in {"reading", "ready", "signing"}
    /\ send' = [send EXCEPT ![i] =
                   [@ EXCEPT !.phase = "over",
                             !.promise = IF send[i].phase = "signing" THEN @ ELSE "rejected"]]
    /\ UNCHANGED <<chain, reported>>

SubmitThrows(i) ==
    /\ send[i].phase \in {"reading", "ready", "signing"}
    /\ send' = [send EXCEPT ![i] = [@ EXCEPT !.phase = "over", !.promise = "rejected"]]
    /\ UNCHANGED <<chain, reported>>

(* signAndSend: the nonce of the best chain, then the signer, then the pool. *)
ReadNonce(i) ==
    /\ send[i].phase = "ready"
    /\ send' = [send EXCEPT ![i] = [@ EXCEPT !.phase = "signing", !.nonce = AccountNonce]]
    /\ UNCHANGED <<chain, reported>>

Submit(i) ==
    /\ send[i].phase = "signing"
    /\ send[i].nonce >= AccountNonce
    /\ ~\E j \in pool : send[j].nonce = send[i].nonce
    /\ pool' = pool \cup {i}
    /\ send' = [send EXCEPT ![i].phase = "submitted"]
    /\ UNCHANGED <<best, final, retractions, foreign, reported>>

(* Of two transactions with one nonce the pool may keep the later one. *)
Usurp(i, j) ==
    /\ send[i].phase = "signing"
    /\ j \in pool /\ send[j].nonce = send[i].nonce
    /\ pool' = (pool \ {j}) \cup {i}
    /\ send' = [send EXCEPT ![i].phase = "submitted", ![j].lost = TRUE]
    /\ UNCHANGED <<best, final, retractions, foreign, reported>>

(* External: the pool drops a transaction, or its subscription is lost. *)
Drop(i) ==
    /\ i \in pool
    /\ pool' = pool \ {i}
    /\ send' = [send EXCEPT ![i].lost = TRUE]
    /\ UNCHANGED <<best, final, retractions, foreign, reported>>

Unsubscribed(i) ==
    /\ send[i].phase = "submitted" /\ send[i].promise = "pending" /\ ~send[i].lost
    /\ send' = [send EXCEPT ![i].lost = TRUE]
    /\ UNCHANGED <<chain, reported>>

Listening(i) == send[i].promise = "pending" /\ ~send[i].lost

(* A block: the callback of send rejects when the dispatch failed. *)
Include_Resolves(i) ==
    /\ i \in pool /\ send[i].nonce = AccountNonce
    /\ LET out == Outcome(BestState, send[i].mode, send[i].calls)
       IN /\ best' = Append(best, [by |-> i, ok |-> out.ok, state |-> out.state])
          /\ send' = [send EXCEPT ![i].promise =
                         IF Listening(i) THEN (IF out.ok THEN "resolved" ELSE "refused") ELSE @]
    /\ pool' = pool \ {i}
    /\ UNCHANGED <<final, retractions, foreign, reported>>

Include(i) ==
    /\ i \in pool /\ send[i].nonce = AccountNonce
    /\ LET out == Outcome(BestState, send[i].mode, send[i].calls)
       IN /\ best' = Append(best, [by |-> i, ok |-> out.ok, state |-> out.state])
          /\ send' = [send EXCEPT ![i].promise =
                         IF Listening(i) /\ ~out.ok THEN "refused" ELSE @]
    /\ pool' = pool \ {i}
    /\ UNCHANGED <<final, retractions, foreign, reported>>

(* External: the buckets of the BucketRemoved events of block n. *)
RemovedIn(n) == best[n].state.removed \ StateAt(n - 1).removed

(* The SDK's reading of these events: an id that is a falsy number is filtered
   out with the events that have none, and that is the id 0. *)
extractRemovedBucketIds(n) == RemovedIn(n) \ {0}

(* The next block is final: send resolves, and removeBuckets reports. *)
Finalize_Requested ==
    /\ final < Len(best)
    /\ final' = final + 1
    /\ LET i == best[final + 1].by
       IN IF i \in Sends /\ Listening(i)
            THEN /\ send' = [send EXCEPT ![i].promise = "resolved"]
                 /\ reported' = [reported EXCEPT ![i] =
                        {c.bucket : c \in {c \in ToSet(send[i].calls) : c.call = "removeBucket"}}]
            ELSE UNCHANGED <<send, reported>>
    /\ UNCHANGED <<pool, best, retractions, foreign>>

Finalize ==
    /\ final < Len(best)
    /\ final' = final + 1
    /\ LET i == best[final + 1].by
       IN IF i \in Sends /\ Listening(i)
            THEN /\ send' = [send EXCEPT ![i].promise = "resolved"]
                 /\ reported' = [reported EXCEPT ![i] =
                                   extractRemovedBucketIds(final + 1)]
            ELSE UNCHANGED <<send, reported>>
    /\ UNCHANGED <<pool, best, retractions, foreign>>

(* External: a fork takes the last blocks back, and their transactions wait
   again.  Retracted, like every other status, means nothing to send. *)
Retract(n) ==
    /\ retractions < MaxRetractions
    /\ retractions' = retractions + 1
    /\ best' = SubSeq(best, 1, n)
    /\ LET back == {best[m].by : m \in (n + 1)..Len(best)}
       IN /\ pool' = pool \cup (back \ {Foreign})
          /\ foreign' = foreign + (IF Foreign \in back THEN 1 ELSE 0)
    /\ send' = Disturbed(Sends)
    /\ UNCHANGED <<final, reported>>

(* External: somebody deposits for the account. *)
ForeignDeposit ==
    /\ foreign > 0
    /\ foreign' = foreign - 1
    /\ best' = Append(best, [by |-> Foreign, ok |-> TRUE, state |-> Apply(BestState, deposit)])
    /\ send' = Disturbed(Sends)
    /\ UNCHANGED <<pool, final, retractions, reported>>

ClientStep(i) ==
    \/ ChooseDeposit(i)
    \/ ReadNonce(i)
    \/ Submit(i)
    \/ \E j \in Sends : Usurp(i, j)
    \/ SubmitThrows(i)

ChainStep ==
    \/ \E i \in Sends : Include(i) \/ Drop(i) \/ Unsubscribed(i)
    \/ Finalize
    \/ \E n \in final..(Len(best) - 1) : Retract(n)
    \/ ForeignDeposit

(* Nothing is in flight and nobody asks for more. *)
Over ==
    /\ \A i \in Sends : send[i].phase \in {"idle", "over", "submitted"}
    /\ UNCHANGED vars

Next ==
    \/ \E i \in Sends : ClientStep(i) \/ \E r \in Requests : Begin(i, r)
    \/ ChainStep
    \/ Over

Spec == Init /\ [][Next]_vars

(* The client goes on, and the chain includes and finalizes what can be. *)
FairSpec ==
    /\ Spec
    /\ \A i \in Sends : WF_vars(ClientStep(i)) /\ WF_vars(Include(i))
    /\ WF_vars(Finalize)

-----------------------------------------------------------------------------
CallLists ==
    {<<>>, <<deposit>>, <<depositExtra>>}
        \cup {r.calls : r \in Requests \ {Deposit(x) : x \in BOOLEAN}}

SendRecord == [phase : {"idle", "reading", "ready", "signing", "submitted", "over"},
               allowExtra : BOOLEAN,
               mode : Modes,
               calls : CallLists,
               nonce : Nat,
               promise : {"none", "pending", "resolved", "refused", "rejected"},
               lost : BOOLEAN,
               disturbed : BOOLEAN]

TypeOK ==
    /\ send \in [Sends -> SendRecord]
    /\ \A i \in Sends : send[i].promise = "none" <=> send[i].phase = "idle"
    /\ DOMAIN reported = Sends
    /\ pool \subseteq Sends
    /\ \A n \in DOMAIN best : best[n].by \in Sends \cup {Foreign} /\ best[n].ok \in BOOLEAN
    /\ final \in 0..Len(best)
    /\ retractions \in 0..MaxRetractions
    /\ foreign \in Nat

(* What send resolves with is final and was not refused, whatever forks the
   transaction went through (Blockchain.ts:193-217: finality is tested before
   the error, and the error of an earlier block has rejected). *)
ResolvedIsFinal ==
    \A i \in Sends : send[i].promise = "resolved" =>
        \E n \in 1..final : best[n].by = i /\ best[n].ok

(* removeBuckets reports the buckets that its transaction removed in the final
   chain, those of an interrupted batch too, and no others; of the bucket with
   the id 0 it says nothing (DdcClient.ts:371-378, DDCCustomersPallet.ts:318). *)
RemovedIsReported ==
    \A i \in Sends : \A n \in 1..final :
        (best[n].by = i /\ send[i].promise = "resolved") =>
            reported[i] = RemovedIn(n) \ {0}

(* A deposit is refused by the pallet only if something else happened to the
   account or the chain while it was made (DdcClient.ts:160-171). *)
DepositIsRefusedForAReason ==
    \A i \in Sends :
        (send[i].allowExtra /\ send[i].promise = "refused") => send[i].disturbed

(* A send settles unless the pool or the connection lost a transaction. *)
SettlesUnlessLost ==
    \A i \in Sends : (send[i].promise = "pending")
                         ~> (send[i].promise # "pending" \/ \E j \in Sends : send[j].lost)

(* Not kept by the code (README, section 4). Claimed by
   DDCCustomersPallet.ts:301 ("Extracts the IDs of the removed buckets from the
   given events"): every bucket that was removed is reported. *)
EveryRemovedIsReported ==
    \A i \in Sends : \A n \in 1..final :
        (best[n].by = i /\ send[i].promise = "resolved") => reported[i] = RemovedIn(n)

(* Not kept by the code (README, section 4). Claimed by Blockchain.ts:164 ("A
   promise that resolves to the result of the transaction"): the promise of a
   send settles. *)
SendSettles ==
    \A i \in Sends : (send[i].promise = "pending") ~> (send[i].promise # "pending")
=============================================================================
