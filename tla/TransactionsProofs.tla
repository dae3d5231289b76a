------------------------- MODULE TransactionsProofs -------------------------
(***************************************************************************)
(* Theorems of Transactions, for any number of operations, any requests,   *)
(* forks and deposits of others.                                           *)
(*                                                                         *)
(* Why what resolves is final and was not refused: a transaction in the    *)
(* best chain whose promise still listens did not fail (NotFailed), since  *)
(* the block that had it failing has settled the promise; and what is      *)
(* final is never taken back.                                              *)
(*                                                                         *)
(* Why the buckets reported are those removed: an operation has at most    *)
(* one transaction in the chain (Once), so what the callback reads at      *)
(* finality is the record of that transaction and not of a retracted one.  *)
(***************************************************************************)
EXTENDS Transactions, TLAPS, SequenceTheorems, FiniteSetTheorems

BestIsSequence == best \in Seq(ToSet(best))

NotFailed ==
    \A n \in DOMAIN best : \A i \in Sends :
        best[n].by = i /\ Listening(i) => best[n].ok = TRUE

Reasons ==
    \A i \in Sends : send[i].promise = "resolved" =>
        \E n \in 1..final : best[n].by = i /\ best[n].ok = TRUE

Submitted ==
    /\ \A i \in pool : send[i].phase = "submitted"
    /\ \A n \in DOMAIN best : best[n].by \in Sends => send[best[n].by].phase = "submitted"

RInv == TypeOK /\ BestIsSequence /\ Submitted /\ NotFailed /\ Reasons

-----------------------------------------------------------------------------
(* Appending to a sequence, and taking a prefix of it. *)
LEMMA Appended ==
    ASSUME NEW s, s \in Seq(ToSet(s)), NEW x
    PROVE  /\ Append(s, x) \in Seq(ToSet(Append(s, x)))
           /\ Len(s) \in Nat
           /\ DOMAIN s = 1..Len(s)
           /\ Len(Append(s, x)) = Len(s) + 1
           /\ DOMAIN Append(s, x) = 1..(Len(s) + 1)
           /\ \A n \in 1..Len(s) : Append(s, x)[n] = s[n]
           /\ Append(s, x)[Len(s) + 1] = x
<1> DEFINE S == ToSet(s) \cup {x}
           t == Append(s, x)
<1>1. s \in Seq(S) /\ x \in S
  BY SeqMonotonic
<1>2. /\ t \in Seq(S)
      /\ Len(s) \in Nat
      /\ DOMAIN s = 1..Len(s)
      /\ Len(t) = Len(s) + 1
      /\ DOMAIN t = 1..(Len(s) + 1)
      /\ \A n \in 1..Len(s) : t[n] = s[n]
      /\ t[Len(s) + 1] = x
  <2> HIDE DEF S
  <2> QED BY <1>1
<1>3. t \in Seq(ToSet(t))
  <2> HIDE DEF S, t
  <2>1. t \in [1..Len(t) -> ToSet(t)] /\ Len(t) \in Nat
    BY <1>2 DEF ToSet
  <2> QED BY <2>1, SeqDef
<1> QED BY <1>2, <1>3

LEMMA Prefix ==
    ASSUME NEW s, s \in Seq(ToSet(s)), NEW n \in 0..Len(s)
    PROVE  /\ SubSeq(s, 1, n) \in Seq(ToSet(SubSeq(s, 1, n)))
           /\ DOMAIN s = 1..Len(s)
           /\ Len(SubSeq(s, 1, n)) = n
           /\ DOMAIN SubSeq(s, 1, n) = 1..n
           /\ \A m \in 1..n : SubSeq(s, 1, n)[m] = s[m]
<1> DEFINE t == SubSeq(s, 1, n)
           S == ToSet(s)
<1>1. Len(s) \in Nat /\ DOMAIN s = 1..Len(s) /\ n \in Nat
  BY LenProperties
<1>2. \A m \in 1..n : s[m] \in S
  BY <1>1 DEF ToSet
<1>3. /\ t \in Seq(S)
      /\ Len(t) = n
      /\ \A m \in 1..n : t[m] = s[m]
  <2> HIDE DEF S
  <2>1. /\ t \in Seq(S)
        /\ Len(t) = IF 1 <= n THEN n - 1 + 1 ELSE 0
        /\ \A m \in 1..(n - 1 + 1) : t[m] = s[1 + m - 1]
    BY <1>1, <1>2, SubSeqProperties
  <2> QED BY <2>1, <1>1
<1>4. DOMAIN t = 1..n
  <2> HIDE DEF S, t
  <2> QED BY <1>3
<1>5. t \in Seq(ToSet(t))
  <2> HIDE DEF S, t
  <2>1. t \in [1..Len(t) -> ToSet(t)] /\ Len(t) \in Nat
    BY <1>1, <1>3, <1>4 DEF ToSet
  <2> QED BY <2>1, SeqDef
<1> QED BY <1>1, <1>3, <1>4, <1>5

LEMMA NonceIsNumber == BestIsSequence => AccountNonce \in Nat
<1> SUFFICES ASSUME BestIsSequence PROVE AccountNonce \in Nat
  OBVIOUS
<1> DEFINE N == {n \in DOMAIN best : best[n].by # Foreign}
<1>1. N \subseteq 1..Len(best) /\ Len(best) \in Nat
  BY LenProperties DEF BestIsSequence
<1>2. IsFiniteSet(1..Len(best))
  BY <1>1, FS_Interval
<1>3. IsFiniteSet(N)
  BY <1>1, <1>2, FS_Subset
<1>4. Cardinality(N) \in Nat
  BY <1>3, FS_CardinalityType
<1> QED BY <1>4 DEF AccountNonce

-----------------------------------------------------------------------------
Answered == \A i \in Sends : send[i].promise = "none" <=> send[i].phase = "idle"

(* The part of the invariant that a change of one operation can disturb. *)
LEMMA OneSend ==
    ASSUME RInv, NEW i \in Sends, NEW r \in SendRecord,
           send' = [send EXCEPT ![i] = r],
           r.promise = "none" <=> r.phase = "idle"
    PROVE  /\ send' \in [Sends -> SendRecord] /\ Answered'
           /\ send'[i] = r
           /\ \A j \in Sends \ {i} : send'[j] = send[j]
<1>1. send \in [Sends -> SendRecord] /\ Answered
  BY DEF RInv, TypeOK, Answered
<1>2. /\ send' \in [Sends -> SendRecord]
      /\ send'[i] = r
      /\ \A j \in Sends \ {i} : send'[j] = send[j]
  BY <1>1
<1>3. Answered'
  BY <1>1, <1>2 DEF Answered
<1> QED BY <1>2, <1>3

(* A step of the operations alone, by which none that was submitted begins to
   listen, or resolves. *)
LEMMA QuietStep ==
    ASSUME RInv, UNCHANGED <<best, final, retractions>>,
           send' \in [Sends -> SendRecord], Answered', foreign' \in Nat,
           DOMAIN reported' = Sends,
           pool' \subseteq Sends, \A j \in pool' : send'[j].phase = "submitted",
           \A j \in Sends :
               /\ send[j].phase = "submitted" => send'[j].phase = "submitted"
               /\ send[j].phase = "submitted" /\ Listening(j)' => Listening(j)
               /\ send'[j].promise = "resolved" => send[j].promise = "resolved"
    PROVE  RInv'
<1>1. TypeOK'
  BY DEF RInv, TypeOK, Answered
<1>2. BestIsSequence'
  BY DEF RInv, BestIsSequence
<1>3. Submitted'
  BY DEF RInv, Submitted, TypeOK
<1>4. NotFailed'
  <2> SUFFICES ASSUME NEW n \in DOMAIN best, NEW j \in Sends,
                      best[n].by = j, Listening(j)'
               PROVE  best[n].ok = TRUE
    BY DEF NotFailed
  <2>1. send[j].phase = "submitted"
    BY DEF RInv, Submitted
  <2>2. Listening(j)
    BY <2>1
  <2> QED BY <2>2 DEF RInv, NotFailed
<1>5. Reasons'
  BY DEF RInv, Reasons
<1> QED BY <1>1, <1>2, <1>3, <1>4, <1>5 DEF RInv

LEMMA InitRInv == Init => RInv
<1> SUFFICES ASSUME Init PROVE RInv
  OBVIOUS
<1>1. best = <<>> /\ Len(<<>>) = 0 /\ DOMAIN best = {} /\ final = 0
  BY DEF Init
<1>2. send \in [Sends -> SendRecord]
  <2>1. [phase |-> "idle", allowExtra |-> FALSE, mode |-> "single", calls |-> <<>>,
         nonce |-> 0, promise |-> "none", lost |-> FALSE, disturbed |-> FALSE] \in SendRecord
    BY DEF SendRecord, CallLists, Modes
  <2> QED BY <2>1 DEF Init
<1>3. \A i \in Sends : send[i].promise = "none" /\ send[i].phase = "idle"
  BY DEF Init
<1>4. DOMAIN reported = Sends /\ pool = {} /\ retractions = 0 /\ foreign \in Nat
      /\ MaxRetractions \in Nat
  BY TransactionsAssumption DEF Init
<1>5. TypeOK
  BY <1>1, <1>2, <1>3, <1>4 DEF TypeOK
<1>6. BestIsSequence
  BY <1>1, EmptySeq DEF BestIsSequence
<1>7. Submitted /\ NotFailed /\ Reasons
  BY <1>1, <1>3, <1>4 DEF Submitted, NotFailed, Reasons
<1> QED BY <1>5, <1>6, <1>7 DEF RInv

(* A change of the history `disturbed` shows nowhere else. *)
LEMMA OnlyDisturbed ==
    ASSUME RInv, NEW S, S \subseteq Sends
    PROVE  /\ Disturbed(S) \in [Sends -> SendRecord]
           /\ \A j \in Sends :
                  /\ Disturbed(S)[j].promise = send[j].promise
                  /\ Disturbed(S)[j].phase = send[j].phase
                  /\ Disturbed(S)[j].lost = send[j].lost
<1>1. \A j \in Sends : send[j] \in SendRecord
  BY DEF RInv, TypeOK
<1>2. \A j \in Sends : [send[j] EXCEPT !.disturbed = TRUE] \in SendRecord
  BY <1>1 DEF SendRecord
<1>3. \A j \in Sends : Disturbed(S)[j] \in SendRecord
  BY <1>1, <1>2 DEF Disturbed
<1>4. Disturbed(S) \in [Sends -> SendRecord]
  BY <1>3 DEF Disturbed
<1>5. \A j \in Sends : /\ Disturbed(S)[j].promise = send[j].promise
                       /\ Disturbed(S)[j].phase = send[j].phase
                       /\ Disturbed(S)[j].lost = send[j].lost
  BY <1>1 DEF Disturbed, SendRecord
<1> QED BY <1>4, <1>5

LEMMA BeginKeeps ==
    ASSUME RInv, NEW i \in Sends, NEW r \in Requests, Begin(i, r)
    PROVE  RInv'
<1> DEFINE S == Sends \ {i}
           d == Disturbed(S)
           c == [d[i] EXCEPT !.phase = IF r.kind = "deposit" THEN "reading" ELSE "ready",
                             !.allowExtra = r.kind = "deposit" /\ r.allowExtra,
                             !.mode = IF r.kind = "deposit" THEN "single" ELSE r.mode,
                             !.calls = IF r.kind = "deposit" THEN <<>> ELSE r.calls,
                             !.promise = "pending",
                             !.disturbed = \/ \E j \in Sends \ {i} : InFlight(j)
                                           \/ final # Len(best)]
<1>1. /\ send[i].phase = "idle" /\ send' = [d EXCEPT ![i] = c]
      /\ UNCHANGED <<chain, reported>>
  BY DEF Begin
<1>2. d \in [Sends -> SendRecord]
      /\ \A j \in Sends : d[j].promise = send[j].promise /\ d[j].phase = send[j].phase
                          /\ d[j].lost = send[j].lost
  BY OnlyDisturbed
<1>3. r.kind = "deposit" => r = Deposit(TRUE) \/ r = Deposit(FALSE)
  BY TransactionsAssumption DEF Deposit
<1>4. r.kind # "deposit" => r.mode \in Modes /\ r.calls \in CallLists
  <2>1. ASSUME r.kind # "deposit" PROVE r \in Requests \ {Deposit(x) : x \in BOOLEAN}
    BY <2>1 DEF Deposit
  <2> QED BY <2>1, TransactionsAssumption DEF CallLists, Deposit
<1>5. c \in SendRecord /\ c.phase \in {"reading", "ready"} /\ c.promise = "pending"
  <2>1. d[i] \in SendRecord
    BY <1>2
  <2>2. (r.kind = "deposit" /\ r.allowExtra) \in BOOLEAN
        /\ (\/ \E j \in Sends \ {i} : InFlight(j)
            \/ final # Len(best)) \in BOOLEAN
    OBVIOUS
  <2>3. (IF r.kind = "deposit" THEN "single" ELSE r.mode) \in Modes
        /\ (IF r.kind = "deposit" THEN <<>> ELSE r.calls) \in CallLists
    BY <1>4 DEF Modes, CallLists
  <2> HIDE DEF d
  <2> QED BY <2>1, <2>2, <2>3 DEF SendRecord
<1>6. /\ send' \in [Sends -> SendRecord] /\ send'[i] = c
      /\ \A j \in Sends \ {i} : send'[j] = d[j]
  <2> HIDE DEF c, d
  <2> QED BY <1>1, <1>2, <1>5
<1>7. Answered'
  <2> HIDE DEF c, d
  <2> QED BY <1>2, <1>5, <1>6 DEF Answered, RInv, TypeOK
<1>8. \A j \in Sends :
          /\ send[j].phase = "submitted" => send'[j].phase = "submitted"
          /\ send[j].phase = "submitted" /\ Listening(j)' => Listening(j)
          /\ send'[j].promise = "resolved" => send[j].promise = "resolved"
  <2> HIDE DEF c, d
  <2> QED BY <1>1, <1>2, <1>5, <1>6 DEF Listening
<1>9. /\ UNCHANGED <<best, final, retractions>> /\ foreign' \in Nat
      /\ DOMAIN reported' = Sends /\ pool' \subseteq Sends
      /\ \A j \in pool' : send'[j].phase = "submitted"
  BY <1>1, <1>8 DEF chain, RInv, TypeOK, Submitted
<1> QED
  <2> HIDE DEF c, d, S
  <2> QED BY <1>6, <1>7, <1>8, <1>9, QuietStep

(* What one operation does between its call and its block. *)
LEMMA OwnStepKeeps ==
    ASSUME RInv, NEW i \in Sends, NEW r \in SendRecord,
           send' = [send EXCEPT ![i] = r],
           send[i].phase # "submitted" \/ r.phase = "submitted",
           send[i].phase # "submitted" \/ (r.promise = "pending" /\ ~r.lost => Listening(i)),
           r.promise = "resolved" => send[i].promise = "resolved",
           r.promise = "none" <=> r.phase = "idle",
           pool' \subseteq pool \cup {i},
           i \in pool' => r.phase = "submitted",
           UNCHANGED <<best, final, retractions, foreign, reported>>
    PROVE  RInv'
<1>1. /\ send' \in [Sends -> SendRecord] /\ Answered'
      /\ send'[i] = r
      /\ \A j \in Sends \ {i} : send'[j] = send[j]
  BY OneSend
<1>2. \A j \in Sends :
          /\ send[j].phase = "submitted" => send'[j].phase = "submitted"
          /\ send[j].phase = "submitted" /\ Listening(j)' => Listening(j)
          /\ send'[j].promise = "resolved" => send[j].promise = "resolved"
  BY <1>1 DEF Listening
<1>3. pool' \subseteq Sends /\ \A j \in pool' : send'[j].phase = "submitted"
  BY <1>1, <1>2 DEF RInv, TypeOK, Submitted
<1>4. foreign' \in Nat /\ DOMAIN reported' = Sends
  BY DEF RInv, TypeOK
<1> QED BY <1>1, <1>2, <1>3, <1>4, QuietStep

LEMMA ClientKeeps ==
    ASSUME RInv, NEW i \in Sends, ClientStep(i)
    PROVE  RInv'
<1>0. /\ send[i] \in SendRecord /\ \A j \in Sends : send[j] \in SendRecord
      /\ send[i].promise = "none" <=> send[i].phase = "idle"
      /\ pool \subseteq Sends
  BY DEF RInv, TypeOK
<1>1. CASE ChooseDeposit(i)
  <2> DEFINE r == [send[i] EXCEPT !.phase = "ready",
                       !.calls = IF send[i].allowExtra /\ BestState.deposits > 0
                                   THEN <<depositExtra>> ELSE <<deposit>>]
  <2>1. send[i].phase = "reading" /\ send' = [send EXCEPT ![i] = r]
        /\ UNCHANGED <<pool, best, final, retractions, foreign, reported>>
    BY <1>1 DEF ChooseDeposit, chain
  <2>2. /\ r \in SendRecord /\ r.phase = "ready"
        /\ r.promise = send[i].promise
    BY <1>0 DEF SendRecord, CallLists
  <2> HIDE DEF r
  <2>3. i \notin pool
    BY <2>1 DEF RInv, Submitted
  <2> QED BY <2>1, <2>2, <2>3, <1>0, OwnStepKeeps
<1>2. CASE ReadNonce(i)
  <2> DEFINE r == [send[i] EXCEPT !.phase = "signing", !.nonce = AccountNonce]
  <2>1. send[i].phase = "ready" /\ send' = [send EXCEPT ![i] = r]
        /\ UNCHANGED <<pool, best, final, retractions, foreign, reported>>
    BY <1>2 DEF ReadNonce, chain
  <2>2. AccountNonce \in Nat
    BY NonceIsNumber DEF RInv
  <2>3. /\ r \in SendRecord /\ r.phase = "signing" /\ r.promise = send[i].promise
    BY <1>0, <2>2 DEF SendRecord
  <2> HIDE DEF r
  <2>4. i \notin pool
    BY <2>1 DEF RInv, Submitted
  <2> QED BY <2>1, <2>3, <2>4, <1>0, OwnStepKeeps
<1>3. CASE Submit(i)
  <2> DEFINE r == [send[i] EXCEPT !.phase = "submitted"]
  <2>1. send[i].phase = "signing" /\ send' = [send EXCEPT ![i] = r]
        /\ pool' = pool \cup {i}
        /\ UNCHANGED <<best, final, retractions, foreign, reported>>
    BY <1>3, <1>0 DEF Submit
  <2>2. r \in SendRecord /\ r.phase = "submitted" /\ r.promise = send[i].promise
    BY <1>0 DEF SendRecord
  <2> HIDE DEF r
  <2> QED BY <2>1, <2>2, <1>0, OwnStepKeeps
<1>4. ASSUME NEW j \in Sends, Usurp(i, j) PROVE RInv'
  <2> DEFINE r == [send[i] EXCEPT !.phase = "submitted"]
             q == [send[j] EXCEPT !.lost = TRUE]
  <2>1. /\ send[i].phase = "signing" /\ j \in pool
        /\ send' = [send EXCEPT ![i].phase = "submitted", ![j].lost = TRUE]
        /\ pool' = (pool \ {j}) \cup {i}
        /\ UNCHANGED <<best, final, retractions, foreign, reported>>
    BY <1>4 DEF Usurp
  <2>2. send[j].phase = "submitted" /\ i # j
    BY <2>1 DEF RInv, Submitted
  <2>3. r \in SendRecord /\ r.phase = "submitted" /\ r.promise = send[i].promise
    BY <1>0 DEF SendRecord
  <2>4. q \in SendRecord /\ q.phase = send[j].phase /\ q.promise = send[j].promise /\ q.lost = TRUE
    BY <1>0 DEF SendRecord
  <2>5. send \in [Sends -> SendRecord] /\ Answered
    BY DEF RInv, TypeOK, Answered
  <2>6. send' = [send EXCEPT ![i] = r, ![j] = q]
    BY <2>1, <2>2, <2>5
  <2> HIDE DEF r, q
  <2>7. /\ send' \in [Sends -> SendRecord]
        /\ send'[i] = r /\ send'[j] = q
        /\ \A k \in Sends \ {i, j} : send'[k] = send[k]
    BY <2>2, <2>3, <2>4, <2>5, <2>6
  <2>8. Answered'
    BY <2>1, <2>2, <2>3, <2>4, <2>5, <2>7 DEF Answered
  <2>9. \A k \in Sends :
            /\ send[k].phase = "submitted" => send'[k].phase = "submitted"
            /\ send[k].phase = "submitted" /\ Listening(k)' => Listening(k)
            /\ send'[k].promise = "resolved" => send[k].promise = "resolved"
    BY <2>1, <2>2, <2>3, <2>4, <2>7 DEF Listening
  <2>10. pool' \subseteq Sends /\ \A k \in pool' : send'[k].phase = "submitted"
    BY <2>1, <2>3, <2>7, <2>9, <1>0 DEF RInv, Submitted
  <2>11. foreign' \in Nat /\ DOMAIN reported' = Sends
    BY <2>1 DEF RInv, TypeOK
  <2> QED BY <2>1, <2>7, <2>8, <2>9, <2>10, <2>11, QuietStep
<1>5. CASE SubmitThrows(i)
  <2> DEFINE r == [send[i] EXCEPT !.phase = "over", !.promise = "rejected"]
  <2>1. send[i].phase \in {"reading", "ready", "signing"} /\ send' = [send EXCEPT ![i] = r]
        /\ UNCHANGED <<pool, best, final, retractions, foreign, reported>>
    BY <1>5 DEF SubmitThrows, chain
  <2>2. r \in SendRecord /\ r.phase = "over" /\ r.promise = "rejected"
    BY <1>0 DEF SendRecord
  <2> HIDE DEF r
  <2>3. i \notin pool
    BY <2>1 DEF RInv, Submitted
  <2> QED BY <2>1, <2>2, <2>3, <1>0, OwnStepKeeps
<1> QED BY <1>1, <1>2, <1>3, <1>4, <1>5 DEF ClientStep

(* A transaction or its subscription is lost. *)
LEMMA LossKeeps ==
    ASSUME RInv, NEW i \in Sends, Drop(i) \/ Unsubscribed(i)
    PROVE  RInv'
<1> DEFINE r == [send[i] EXCEPT !.lost = TRUE]
<1>0. send[i] \in SendRecord /\ (send[i].promise = "none" <=> send[i].phase = "idle")
  BY DEF RInv, TypeOK
<1>1. /\ send' = [send EXCEPT ![i] = r]
      /\ pool' \subseteq pool
      /\ UNCHANGED <<best, final, retractions, foreign, reported>>
  BY <1>0 DEF Drop, Unsubscribed, chain
<1>2. /\ r \in SendRecord /\ r.phase = send[i].phase
      /\ r.promise = send[i].promise /\ r.lost = TRUE
  BY <1>0 DEF SendRecord
<1>3. i \in pool => send[i].phase = "submitted"
  BY DEF RInv, Submitted
<1> HIDE DEF r
<1> QED BY <1>0, <1>1, <1>2, <1>3, OwnStepKeeps

(* The chain grows by a block b; the operations keep what they are, but the
   one of the block may be told that it failed. *)
LEMMA BlockKeeps ==
    ASSUME RInv, NEW b, best' = Append(best, b),
           b.by \in Sends \cup {Foreign}, b.ok \in BOOLEAN,
           UNCHANGED <<final, retractions, reported>>, foreign' \in Nat,
           pool' \subseteq pool,
           b.by \in Sends => send[b.by].phase = "submitted" /\ (Listening(b.by)' => b.ok = TRUE),
           send' \in [Sends -> SendRecord], Answered',
           \A j \in Sends :
               /\ send'[j].phase = send[j].phase
               /\ Listening(j)' => Listening(j)
               /\ send'[j].promise = "resolved" => send[j].promise = "resolved"
    PROVE  RInv'
<1>1. /\ best' \in Seq(ToSet(best'))
      /\ Len(best) \in Nat /\ DOMAIN best = 1..Len(best)
      /\ Len(best') = Len(best) + 1
      /\ DOMAIN best' = 1..(Len(best) + 1)
      /\ \A n \in 1..Len(best) : best'[n] = best[n]
      /\ best'[Len(best) + 1] = b
  BY Appended DEF RInv, BestIsSequence
<1>2. \A n \in DOMAIN best' : \/ n \in DOMAIN best /\ best'[n] = best[n]
                              \/ n = Len(best) + 1 /\ best'[n] = b
  BY <1>1
<1>3. final \in 0..Len(best) /\ final' \in 0..Len(best')
  BY <1>1 DEF RInv, TypeOK
<1>4. TypeOK'
  <2>1. \A n \in DOMAIN best' : best'[n].by \in Sends \cup {Foreign} /\ best'[n].ok \in BOOLEAN
    BY <1>2 DEF RInv, TypeOK
  <2> QED BY <2>1, <1>3 DEF RInv, TypeOK, Answered
<1>5. Submitted'
  <2>1. \A n \in DOMAIN best' : best'[n].by \in Sends => send'[best'[n].by].phase = "submitted"
    BY <1>2 DEF RInv, Submitted
  <2> QED BY <2>1 DEF RInv, Submitted, TypeOK
<1>6. NotFailed'
  <2> SUFFICES ASSUME NEW n \in DOMAIN best', NEW j \in Sends,
                      best'[n].by = j, Listening(j)'
               PROVE  best'[n].ok = TRUE
    BY DEF NotFailed
  <2>1. CASE n = Len(best) + 1 /\ best'[n] = b
    BY <2>1
  <2>2. CASE n \in DOMAIN best /\ best'[n] = best[n]
    <3>1. Listening(j) /\ best[n].by = j
      BY <2>2
    <3> QED BY <2>2, <3>1 DEF RInv, NotFailed
  <2> QED BY <1>2, <2>1, <2>2
<1>7. Reasons'
  <2> SUFFICES ASSUME NEW j \in Sends, send'[j].promise = "resolved"
               PROVE  \E n \in 1..final' : best'[n].by = j /\ best'[n].ok = TRUE
    BY DEF Reasons
  <2>1. PICK n \in 1..final : best[n].by = j /\ best[n].ok = TRUE
    BY DEF RInv, Reasons
  <2>2. n \in 1..Len(best) /\ n \in 1..final'
    BY <1>1, <1>3
  <2> QED BY <2>1, <2>2, <1>1
<1> QED BY <1>1, <1>4, <1>5, <1>6, <1>7 DEF RInv, BestIsSequence

LEMMA IncludeKeeps ==
    ASSUME RInv, NEW i \in Sends, Include(i)
    PROVE  RInv'
<1> DEFINE out == Outcome(BestState, send[i].mode, send[i].calls)
           r == [send[i] EXCEPT !.promise = IF Listening(i) /\ ~out.ok THEN "refused" ELSE @]
<1>0. /\ send[i] \in SendRecord /\ (send[i].promise = "none" <=> send[i].phase = "idle")
      /\ send \in [Sends -> SendRecord] /\ foreign \in Nat
  BY DEF RInv, TypeOK
<1>a. PICK b : b = [by |-> i, ok |-> out.ok, state |-> out.state]
  OBVIOUS
<1>1. /\ i \in pool /\ best' = Append(best, b)
      /\ send' = [send EXCEPT ![i] = r]
      /\ pool' \subseteq pool
      /\ UNCHANGED <<final, retractions, foreign, reported>>
  BY <1>0, <1>a DEF Include
<1>2. out.ok = TRUE \/ out.ok = FALSE
  BY DEF Outcome
<1>3. b.by = i /\ b.ok = out.ok
  BY <1>a
<1>4. /\ r \in SendRecord /\ r.phase = send[i].phase /\ r.lost = send[i].lost
      /\ r.promise = IF Listening(i) /\ ~out.ok THEN "refused" ELSE send[i].promise
  <2> HIDE DEF out
  <2> QED BY <1>0 DEF SendRecord
<1>5. send[i].phase = "submitted"
  BY <1>1 DEF RInv, Submitted
<1> HIDE DEF out, r
<1>6. /\ send' \in [Sends -> SendRecord] /\ Answered'
      /\ send'[i] = r
      /\ \A j \in Sends \ {i} : send'[j] = send[j]
  <2>1. r.promise = "none" <=> r.phase = "idle"
    BY <1>0, <1>4, <1>5 DEF Listening
  <2> QED BY <1>1, <1>4, <2>1, OneSend
<1>7. Listening(i)' => Listening(i) /\ out.ok = TRUE
  BY <1>2, <1>4, <1>6 DEF Listening
<1>8. \A j \in Sends :
          /\ send'[j].phase = send[j].phase
          /\ Listening(j)' => Listening(j)
          /\ send'[j].promise = "resolved" => send[j].promise = "resolved"
  BY <1>4, <1>6, <1>7 DEF Listening
<1>9. b.by \in Sends \cup {Foreign} /\ b.ok \in BOOLEAN /\ foreign' \in Nat
  BY <1>0, <1>1, <1>2, <1>3
<1>10. b.by \in Sends => send[b.by].phase = "submitted" /\ (Listening(b.by)' => b.ok = TRUE)
  BY <1>3, <1>5, <1>7
<1> QED BY <1>1, <1>6, <1>8, <1>9, <1>10, BlockKeeps

LEMMA ForeignKeeps == ASSUME RInv, ForeignDeposit PROVE RInv'
<1>a. PICK b : b = [by |-> Foreign, ok |-> TRUE, state |-> Apply(BestState, deposit)]
  OBVIOUS
<1>1. /\ best' = Append(best, b)
      /\ send' = Disturbed(Sends)
      /\ pool' \subseteq pool
      /\ UNCHANGED <<final, retractions, reported>>
  BY <1>a DEF ForeignDeposit
<1>2. b.by = Foreign /\ b.ok = TRUE /\ Foreign \notin Sends
  BY <1>a, TransactionsAssumption
<1>3. foreign' \in Nat
  BY DEF ForeignDeposit, RInv, TypeOK
<1>4. /\ send' \in [Sends -> SendRecord]
      /\ \A j \in Sends : /\ send'[j].promise = send[j].promise
                          /\ send'[j].phase = send[j].phase
                          /\ send'[j].lost = send[j].lost
  BY <1>1, OnlyDisturbed
<1>5. Answered'
  BY <1>4 DEF RInv, TypeOK, Answered
<1>6. \A j \in Sends : /\ send'[j].phase = send[j].phase
                       /\ Listening(j)' => Listening(j)
                       /\ send'[j].promise = "resolved" => send[j].promise = "resolved"
  BY <1>4 DEF Listening
<1>7. b.by \in Sends \cup {Foreign} /\ b.ok \in BOOLEAN
  BY <1>2
<1>8. b.by \in Sends => send[b.by].phase = "submitted" /\ (Listening(b.by)' => b.ok = TRUE)
  BY <1>2
<1> QED BY <1>1, <1>3, <1>4, <1>5, <1>6, <1>7, <1>8, BlockKeeps

LEMMA FinalizeKeeps == ASSUME RInv, Finalize PROVE RInv'
<1> DEFINE i == best[final + 1].by
<1>0. /\ final < Len(best) /\ final' = final + 1
      /\ UNCHANGED <<pool, best, retractions, foreign>>
  BY DEF Finalize
<1>1. Len(best) \in Nat /\ DOMAIN best = 1..Len(best) /\ final \in 0..Len(best)
  BY LenProperties DEF RInv, TypeOK, BestIsSequence
<1>2. final + 1 \in DOMAIN best /\ final' \in 0..Len(best') /\ final \in Nat
  BY <1>0, <1>1
<1>3. CASE i \in Sends /\ Listening(i)
  <2> DEFINE r == [send[i] EXCEPT !.promise = "resolved"]
  <2>1. send' = [send EXCEPT ![i] = r] /\ DOMAIN reported' = Sends
    <3>1. /\ send' = [send EXCEPT ![i].promise = "resolved"]
          /\ reported' = [reported EXCEPT ![i] = RemovedIn(final + 1) \ {0}]
      BY <1>3 DEF Finalize, extractRemovedBucketIds
    <3> QED BY <3>1, <1>3 DEF RInv, TypeOK
  <2>2. send[i] \in SendRecord /\ send[i].phase = "submitted"
    BY <1>2, <1>3 DEF RInv, TypeOK, Submitted
  <2>3. r \in SendRecord /\ r.promise = "resolved" /\ r.phase = "submitted"
    BY <2>2 DEF SendRecord
  <2>4. best[final + 1].ok = TRUE
    BY <1>2, <1>3 DEF RInv, NotFailed
  <2> HIDE DEF r
  <2>5. /\ send' \in [Sends -> SendRecord] /\ Answered'
        /\ send'[i] = r
        /\ \A j \in Sends \ {i} : send'[j] = send[j]
    BY <1>3, <2>1, <2>3, OneSend
  <2>6. TypeOK'
    BY <1>0, <1>2, <2>1, <2>5 DEF RInv, TypeOK, Answered
  <2>7. BestIsSequence' /\ Submitted'
    BY <1>0, <2>2, <2>3, <2>5 DEF RInv, BestIsSequence, Submitted, TypeOK
  <2>8. NotFailed'
    <3> SUFFICES ASSUME NEW n \in DOMAIN best, NEW j \in Sends,
                        best[n].by = j, Listening(j)'
                 PROVE  best[n].ok = TRUE
      BY <1>0 DEF NotFailed
    <3>1. j # i
      BY <2>3, <2>5 DEF Listening
    <3>2. Listening(j)
      BY <3>1, <2>5 DEF Listening
    <3> QED BY <3>2 DEF RInv, NotFailed
  <2>9. Reasons'
    <3> SUFFICES ASSUME NEW j \in Sends, send'[j].promise = "resolved"
                 PROVE  \E n \in 1..(final + 1) : best[n].by = j /\ best[n].ok = TRUE
      BY <1>0 DEF Reasons
    <3>1. CASE j = i
      BY <3>1, <2>4, <1>2
    <3>2. CASE j # i
      <4>1. PICK n \in 1..final : best[n].by = j /\ best[n].ok = TRUE
        BY <2>5, <3>2 DEF RInv, Reasons
      <4> QED BY <4>1, <1>2
    <3> QED BY <3>1, <3>2
  <2> QED BY <2>6, <2>7, <2>8, <2>9 DEF RInv
<1>4. CASE ~(i \in Sends /\ Listening(i))
  <2>1. UNCHANGED <<send, reported>>
    BY <1>4 DEF Finalize
  <2>2. TypeOK'
    BY <1>0, <1>2, <2>1 DEF RInv, TypeOK
  <2>3. BestIsSequence' /\ Submitted' /\ NotFailed'
    BY <1>0, <2>1 DEF RInv, BestIsSequence, Submitted, NotFailed, Listening
  <2>4. Reasons'
    <3> SUFFICES ASSUME NEW j \in Sends, send[j].promise = "resolved"
                 PROVE  \E n \in 1..(final + 1) : best[n].by = j /\ best[n].ok = TRUE
      BY <1>0, <2>1 DEF Reasons
    <3>1. PICK n \in 1..final : best[n].by = j /\ best[n].ok = TRUE
      BY DEF RInv, Reasons
    <3> QED BY <3>1, <1>2
  <2> QED BY <2>2, <2>3, <2>4 DEF RInv
<1> QED BY <1>3, <1>4

(* A fork leaves what is final. *)
LEMMA RetractKeeps ==
    ASSUME RInv, NEW n \in final..(Len(best) - 1), Retract(n)
    PROVE  RInv'
<1>1. /\ best' = SubSeq(best, 1, n) /\ final' = final
      /\ send' = Disturbed(Sends) /\ reported' = reported
      /\ retractions' \in 0..MaxRetractions
  BY TransactionsAssumption DEF Retract, RInv, TypeOK
<1>2. Len(best) \in Nat /\ final \in 0..Len(best) /\ n \in 0..Len(best) /\ final <= n
  <2>1. Len(best) \in Nat /\ final \in 0..Len(best)
    BY LenProperties DEF RInv, TypeOK, BestIsSequence
  <2> QED BY <2>1
<1>3. /\ best' \in Seq(ToSet(best'))
      /\ DOMAIN best = 1..Len(best)
      /\ Len(best') = n
      /\ DOMAIN best' = 1..n
      /\ \A m \in 1..n : best'[m] = best[m]
  BY <1>1, <1>2, Prefix DEF RInv, BestIsSequence
<1>4. /\ send' \in [Sends -> SendRecord]
      /\ \A j \in Sends : /\ send'[j].promise = send[j].promise
                          /\ send'[j].phase = send[j].phase
                          /\ send'[j].lost = send[j].lost
  BY <1>1, OnlyDisturbed
<1>5. pool' \subseteq Sends /\ \A j \in pool' : send'[j].phase = "submitted"
  <2> DEFINE back == {best[m].by : m \in (n + 1)..Len(best)}
  <2>1. pool' = pool \cup (back \ {Foreign})
    BY DEF Retract
  <2>2. \A m \in (n + 1)..Len(best) : m \in DOMAIN best
    BY <1>2, <1>3
  <2>3. \A j \in back \ {Foreign} : j \in Sends /\ send[j].phase = "submitted"
    BY <2>2 DEF RInv, TypeOK, Submitted
  <2>4. \A j \in pool : j \in Sends /\ send[j].phase = "submitted"
    BY DEF RInv, TypeOK, Submitted
  <2> HIDE DEF back
  <2> QED BY <2>1, <2>3, <2>4, <1>4
<1>6. foreign' \in Nat
  BY DEF Retract, RInv, TypeOK
<1>7. \A m \in DOMAIN best' : m \in DOMAIN best /\ best'[m] = best[m]
  BY <1>2, <1>3
<1>8. TypeOK'
  <2>1. \A m \in DOMAIN best' : best'[m].by \in Sends \cup {Foreign} /\ best'[m].ok \in BOOLEAN
    BY <1>7 DEF RInv, TypeOK
  <2>2. \A j \in Sends : send'[j].promise = "none" <=> send'[j].phase = "idle"
    BY <1>4 DEF RInv, TypeOK
  <2>3. final' \in 0..Len(best')
    BY <1>1, <1>2, <1>3
  <2>4. DOMAIN reported' = Sends
    BY <1>1 DEF RInv, TypeOK
  <2> QED BY <1>1, <1>4, <1>5, <1>6, <2>1, <2>2, <2>3, <2>4 DEF TypeOK
<1>9. Submitted'
  <2>1. \A m \in DOMAIN best' : best'[m].by \in Sends => send'[best'[m].by].phase = "submitted"
    BY <1>4, <1>7 DEF RInv, Submitted
  <2> QED BY <1>5, <2>1 DEF Submitted
<1>10. NotFailed'
  <2> SUFFICES ASSUME NEW m \in DOMAIN best', NEW j \in Sends,
                      best'[m].by = j, Listening(j)'
               PROVE  best'[m].ok = TRUE
    BY DEF NotFailed
  <2>1. Listening(j)
    BY <1>4 DEF Listening
  <2> QED BY <2>1, <1>7 DEF RInv, NotFailed
<1>11. Reasons'
  <2> SUFFICES ASSUME NEW j \in Sends, send'[j].promise = "resolved"
               PROVE  \E m \in 1..final' : best'[m].by = j /\ best'[m].ok = TRUE
    BY DEF Reasons
  <2>1. PICK m \in 1..final : best[m].by = j /\ best[m].ok = TRUE
    BY <1>4 DEF RInv, Reasons
  <2>2. m \in 1..n
    BY <1>2
  <2> QED BY <2>1, <2>2, <1>1, <1>3
<1> QED BY <1>3, <1>8, <1>9, <1>10, <1>11 DEF RInv, BestIsSequence

LEMMA NextRInv == RInv /\ [Next]_vars => RInv'
<1> SUFFICES ASSUME RInv, [Next]_vars PROVE RInv'
  OBVIOUS
<1>1. ASSUME NEW i \in Sends, ClientStep(i) PROVE RInv'
  BY <1>1, ClientKeeps
<1>2. ASSUME NEW i \in Sends, NEW r \in Requests, Begin(i, r) PROVE RInv'
  BY <1>2, BeginKeeps
<1>3. ASSUME NEW i \in Sends, Include(i) PROVE RInv'
  BY <1>3, IncludeKeeps
<1>4. ASSUME NEW i \in Sends, Drop(i) \/ Unsubscribed(i) PROVE RInv'
  BY <1>4, LossKeeps
<1>5. CASE Finalize
  BY <1>5, FinalizeKeeps
<1>6. ASSUME NEW n \in final..(Len(best) - 1), Retract(n) PROVE RInv'
  BY <1>6, RetractKeeps
<1>7. CASE ForeignDeposit
  BY <1>7, ForeignKeeps
<1>8. CASE UNCHANGED vars
  BY <1>8 DEF vars, chain, RInv, TypeOK, BestIsSequence, Submitted, NotFailed, Reasons, Listening
<1> QED
  BY <1>1, <1>2, <1>3, <1>4, <1>5, <1>6, <1>7, <1>8 DEF Next, ChainStep, Over

-----------------------------------------------------------------------------
(* The types of the state, for any requests and any chain. *)
THEOREM TypeCorrect == Spec => []TypeOK
<1>1. RInv => TypeOK
  BY DEF RInv
<1> QED BY <1>1, InitRInv, NextRInv, PTL DEF Spec

(* A send resolves only with a transaction that is final and did not fail,
   whatever forks, replacements and losses it met (Blockchain.ts:193-217). *)
THEOREM ResolvedMeansFinal == Spec => []ResolvedIsFinal
<1>1. RInv => ResolvedIsFinal
  BY DEF RInv, Reasons, ResolvedIsFinal
<1> QED BY <1>1, InitRInv, NextRInv, PTL DEF Spec

-----------------------------------------------------------------------------
(* Why a report is complete: an operation has one block, so the one whose
   events it reported is the one that is final. *)
Once ==
    /\ \A m, n \in DOMAIN best : best[m].by = best[n].by /\ best[m].by \in Sends => m = n
    /\ \A n \in DOMAIN best : best[n].by \notin pool

QInv == Once /\ RemovedIsReported

LEMMA SameReports ==
    ASSUME RInv, \A n \in 1..final : best'[n] = best[n]
    PROVE  \A n \in 1..final : RemovedIn(n)' = RemovedIn(n)
<1> SUFFICES ASSUME NEW n \in 1..final PROVE RemovedIn(n)' = RemovedIn(n)
  OBVIOUS
<1>1. final \in Nat
  BY LenProperties DEF RInv, TypeOK, BestIsSequence
<1>2. n - 1 = 0 \/ n - 1 \in 1..final
  BY <1>1
<1>3. StateAt(n - 1)' = StateAt(n - 1)
  BY <1>2 DEF StateAt
<1> QED BY <1>3 DEF RemovedIn

LEMMA QuietReports ==
    ASSUME RInv, QInv, UNCHANGED <<best, final, reported>>,
           \A j \in pool' : j \in pool \/ (j \in Sends /\ send[j].phase # "submitted"),
           \A j \in Sends : send'[j].promise = "resolved" => send[j].promise = "resolved"
    PROVE  QInv'
<1>1. Once'
  BY DEF QInv, Once, RInv, Submitted
<1>2. RemovedIsReported'
  <2>1. \A n \in 1..final : RemovedIn(n)' = RemovedIn(n)
    BY SameReports
  <2> QED BY <2>1 DEF QInv, RemovedIsReported
<1> QED BY <1>1, <1>2 DEF QInv

LEMMA BlockReports ==
    ASSUME RInv, QInv, NEW b, best' = Append(best, b), UNCHANGED <<final, reported>>,
           b.by \in Sends => b.by \in pool /\ b.by \notin pool',
           b.by \notin Sends => b.by \notin pool',
           pool' \subseteq pool,
           \A j \in Sends : send'[j].promise = "resolved" => send[j].promise = "resolved"
    PROVE  QInv'
<1>1. /\ Len(best) \in Nat /\ DOMAIN best = 1..Len(best)
      /\ DOMAIN best' = 1..(Len(best) + 1)
      /\ \A n \in 1..Len(best) : best'[n] = best[n]
      /\ best'[Len(best) + 1] = b
  BY Appended DEF RInv, BestIsSequence
<1>2. \A n \in DOMAIN best' : \/ n \in DOMAIN best /\ best'[n] = best[n]
                              \/ n = Len(best) + 1 /\ best'[n] = b
  BY <1>1
<1>3. final \in 0..Len(best)
  BY DEF RInv, TypeOK
<1>4. \A n \in 1..final : best'[n] = best[n]
  BY <1>1, <1>3
<1>5. Once'
  <2>1. \A n \in DOMAIN best : best[n].by \notin pool
    BY DEF QInv, Once
  <2>2. \A m, n \in DOMAIN best' :
            best'[m].by = best'[n].by /\ best'[m].by \in Sends => m = n
    <3> SUFFICES ASSUME NEW m \in DOMAIN best', NEW n \in DOMAIN best',
                        best'[m].by = best'[n].by, best'[m].by \in Sends
                 PROVE  m = n
      OBVIOUS
    <3>1. CASE m \in DOMAIN best /\ best'[m] = best[m] /\ n \in DOMAIN best /\ best'[n] = best[n]
      BY <3>1 DEF QInv, Once
    <3>2. CASE m = Len(best) + 1 /\ best'[m] = b /\ n \in DOMAIN best /\ best'[n] = best[n]
      BY <3>2, <2>1
    <3>3. CASE n = Len(best) + 1 /\ best'[n] = b /\ m \in DOMAIN best /\ best'[m] = best[m]
      BY <3>3, <2>1
    <3> QED BY <1>2, <3>1, <3>2, <3>3
  <2>3. \A n \in DOMAIN best' : best'[n].by \notin pool'
    BY <1>2, <2>1
  <2> QED BY <2>2, <2>3 DEF Once
<1>6. RemovedIsReported'
  <2>1. \A n \in 1..final : RemovedIn(n)' = RemovedIn(n)
    BY <1>4, SameReports
  <2> QED BY <2>1, <1>4, ZenonT(40) DEF QInv, RemovedIsReported
<1> QED BY <1>5, <1>6 DEF QInv

LEMMA FinalizeReports == ASSUME RInv, QInv, Finalize PROVE QInv'
<1> DEFINE i == best[final + 1].by
<1>0. /\ final < Len(best) /\ final' = final + 1
      /\ UNCHANGED <<pool, best>>
  BY DEF Finalize
<1>1. Len(best) \in Nat /\ DOMAIN best = 1..Len(best) /\ final \in 0..Len(best)
  BY LenProperties DEF RInv, TypeOK, BestIsSequence
<1>2. /\ final + 1 \in DOMAIN best /\ final \in Nat
      /\ \A n \in 1..final' : n = final + 1 \/ n \in 1..final
      /\ \A n \in 1..final' : n \in DOMAIN best
  BY <1>0, <1>1
<1>3. Once'
  BY <1>0 DEF QInv, Once
<1>4. \A n : RemovedIn(n)' = RemovedIn(n)
  BY <1>0 DEF RemovedIn, StateAt
<1>5. CASE i \in Sends /\ Listening(i)
  <2>1. /\ send' = [send EXCEPT ![i].promise = "resolved"]
        /\ reported' = [reported EXCEPT ![i] = RemovedIn(final + 1) \ {0}]
    BY <1>5 DEF Finalize, extractRemovedBucketIds
  <2>2. send \in [Sends -> SendRecord] /\ DOMAIN reported = Sends
    BY DEF RInv, TypeOK
  <2>3. /\ reported'[i] = RemovedIn(final + 1) \ {0}
        /\ \A j \in Sends \ {i} : reported'[j] = reported[j] /\ send'[j] = send[j]
    BY <1>5, <2>1, <2>2
  <2>4. RemovedIsReported'
    <3> SUFFICES ASSUME NEW j \in Sends, NEW n \in 1..final',
                        best[n].by = j, send'[j].promise = "resolved"
                 PROVE  reported'[j] = RemovedIn(n) \ {0}
      BY <1>0, <1>4 DEF RemovedIsReported
    <3>1. CASE j = i
      <4>1. n = final + 1
        BY <3>1, <1>2 DEF QInv, Once
      <4> QED BY <3>1, <4>1, <2>3
    <3>2. CASE j # i
      <4>1. n \in 1..final
        BY <3>2, <1>2
      <4> QED BY <3>2, <4>1, <2>3 DEF QInv, RemovedIsReported
    <3> QED BY <3>1, <3>2
  <2> QED BY <1>3, <2>4 DEF QInv
<1>6. CASE ~(i \in Sends /\ Listening(i))
  <2>1. UNCHANGED <<send, reported>>
    BY <1>6 DEF Finalize
  <2>2. RemovedIsReported'
    <3> SUFFICES ASSUME NEW j \in Sends, NEW n \in 1..final',
                        best[n].by = j, send[j].promise = "resolved"
                 PROVE  reported[j] = RemovedIn(n) \ {0}
      BY <1>0, <1>4, <2>1 DEF RemovedIsReported
    <3>1. PICK m \in 1..final : best[m].by = j
      BY DEF RInv, Reasons
    <3>2. m \in DOMAIN best /\ n \in DOMAIN best
      BY <1>1, <1>2
    <3>3. m = n
      BY <3>1, <3>2 DEF QInv, Once
    <3> QED BY <3>1, <3>3 DEF QInv, RemovedIsReported
  <2> QED BY <1>3, <2>2 DEF QInv
<1> QED BY <1>5, <1>6

LEMMA RetractReports ==
    ASSUME RInv, QInv, NEW n \in final..(Len(best) - 1), Retract(n)
    PROVE  QInv'
<1>1. best' = SubSeq(best, 1, n) /\ UNCHANGED <<final, reported>> /\ send' = Disturbed(Sends)
  BY DEF Retract
<1>2. Len(best) \in Nat /\ final \in 0..Len(best) /\ n \in 0..Len(best) /\ final <= n
  <2>1. Len(best) \in Nat /\ final \in 0..Len(best)
    BY LenProperties DEF RInv, TypeOK, BestIsSequence
  <2> QED BY <2>1
<1>3. /\ DOMAIN best = 1..Len(best)
      /\ DOMAIN best' = 1..n
      /\ \A m \in 1..n : best'[m] = best[m]
  BY <1>1, <1>2, Prefix DEF RInv, BestIsSequence
<1>4. \A m \in 1..final : best'[m] = best[m]
  BY <1>2, <1>3
<1>5. \A m \in DOMAIN best' : m \in DOMAIN best /\ best'[m] = best[m] /\ m \in 1..n
  BY <1>2, <1>3
<1>6. Once'
  <2> DEFINE back == {best[m].by : m \in (n + 1)..Len(best)}
  <2>1. pool' = pool \cup (back \ {Foreign})
    BY DEF Retract
  <2>2. \A m, k \in DOMAIN best' :
            best'[m].by = best'[k].by /\ best'[m].by \in Sends => m = k
    BY <1>5 DEF QInv, Once
  <2>3. \A m \in DOMAIN best' : best'[m].by \notin pool'
    <3> SUFFICES ASSUME NEW m \in DOMAIN best', best'[m].by \in back \ {Foreign}
                 PROVE  FALSE
      BY <1>5, <2>1 DEF QInv, Once
    <3>1. PICK k \in (n + 1)..Len(best) : best[k].by = best[m].by
      BY <1>5
    <3>2. k \in DOMAIN best /\ m \in DOMAIN best /\ m # k
      BY <1>2, <1>3, <1>5
    <3>3. best[m].by \in Sends
      BY <1>5, <3>2 DEF RInv, TypeOK
    <3> QED BY <3>1, <3>2, <3>3 DEF QInv, Once
  <2> QED BY <2>2, <2>3 DEF Once
<1>7. RemovedIsReported'
  <2>1. \A m \in 1..final : RemovedIn(m)' = RemovedIn(m)
    BY <1>4, SameReports
  <2>2. \A j \in Sends : send'[j].promise = send[j].promise
    BY <1>1, OnlyDisturbed
  <2>3. RemovedIsReported /\ final' = final /\ reported' = reported
    BY <1>1 DEF QInv
  <2> SUFFICES ASSUME NEW j \in Sends, NEW m \in 1..final,
                      best'[m].by = j, send'[j].promise = "resolved"
               PROVE  reported[j] = RemovedIn(m)' \ {0}
    BY <2>3 DEF RemovedIsReported
  <2>4. best[m].by = j /\ send[j].promise = "resolved"
    BY <1>4, <2>2
  <2>5. reported[j] = RemovedIn(m) \ {0}
    BY <2>3, <2>4 DEF RemovedIsReported
  <2> QED BY <2>1, <2>5
<1> QED BY <1>6, <1>7 DEF QInv

LEMMA NextQInv == RInv /\ RInv' /\ QInv /\ [Next]_vars => QInv'
<1> SUFFICES ASSUME RInv, QInv, [Next]_vars PROVE QInv'
  OBVIOUS
<1>0. \A j \in Sends : send[j] \in SendRecord
  BY DEF RInv, TypeOK
<1>1. ASSUME NEW i \in Sends, ClientStep(i) PROVE QInv'
  <2>1. /\ UNCHANGED <<best, final, reported>>
        /\ \A j \in pool' : j \in pool \/ (j \in Sends /\ send[j].phase # "submitted")
    BY <1>1 DEF ClientStep, ChooseDeposit, ReadNonce, Submit, Usurp, SubmitThrows, chain
  <2>2. \A j \in Sends : send'[j].promise = "resolved" => send[j].promise = "resolved"
    <3>0. send \in [Sends -> SendRecord]
      BY DEF RInv, TypeOK
    <3>1. CASE ChooseDeposit(i)
      BY <3>0, <3>1, <1>0 DEF ChooseDeposit, SendRecord
    <3>2. CASE ReadNonce(i)
      BY <3>0, <3>2, <1>0 DEF ReadNonce, SendRecord
    <3>3. CASE Submit(i)
      BY <3>0, <3>3, <1>0 DEF Submit, SendRecord
    <3>4. ASSUME NEW k \in Sends, Usurp(i, k)
          PROVE  \A j \in Sends : send'[j].promise = "resolved" => send[j].promise = "resolved"
      BY <3>0, <3>4, <1>0 DEF Usurp, SendRecord
    <3>5. CASE SubmitThrows(i)
      BY <3>0, <3>5, <1>0 DEF SubmitThrows, SendRecord
    <3> QED BY <1>1, <3>1, <3>2, <3>3, <3>4, <3>5 DEF ClientStep
  <2> QED BY <2>1, <2>2, QuietReports
<1>2. ASSUME NEW i \in Sends, NEW r \in Requests, Begin(i, r) PROVE QInv'
  <2>1. UNCHANGED <<best, final, reported, pool>>
    BY <1>2 DEF Begin, chain
  <2>2. Disturbed(Sends \ {i}) \in [Sends -> SendRecord]
        /\ \A j \in Sends : Disturbed(Sends \ {i})[j].promise = send[j].promise
    BY OnlyDisturbed
  <2>3. \A j \in Sends : send'[j].promise = "resolved" => send[j].promise = "resolved"
    BY <1>2, <2>2 DEF Begin, SendRecord
  <2> QED BY <2>1, <2>3, QuietReports
<1>3. ASSUME NEW i \in Sends, Include(i) PROVE QInv'
  <2> DEFINE out == Outcome(BestState, send[i].mode, send[i].calls)
  <2>1. PICK b : b = [by |-> i, ok |-> out.ok, state |-> out.state]
    OBVIOUS
  <2>2. /\ b.by = i /\ i \in pool /\ pool' = pool \ {i} /\ best' = Append(best, b)
        /\ UNCHANGED <<final, reported>>
        /\ send' = [send EXCEPT ![i].promise = IF Listening(i) /\ ~out.ok THEN "refused" ELSE @]
    BY <1>3, <2>1 DEF Include
  <2> HIDE DEF out
  <2>3. \A j \in Sends : send'[j].promise = "resolved" => send[j].promise = "resolved"
    BY <2>2, <1>0 DEF RInv, TypeOK, SendRecord
  <2> QED BY <2>2, <2>3, BlockReports
<1>4. ASSUME NEW i \in Sends, Drop(i) \/ Unsubscribed(i) PROVE QInv'
  <2>1. UNCHANGED <<best, final, reported>> /\ pool' \subseteq pool
        /\ send' = [send EXCEPT ![i].lost = TRUE]
    BY <1>4 DEF Drop, Unsubscribed, chain
  <2>2. \A j \in Sends : send'[j].promise = "resolved" => send[j].promise = "resolved"
    BY <2>1, <1>0 DEF RInv, TypeOK, SendRecord
  <2> QED BY <2>1, <2>2, QuietReports
<1>5. CASE Finalize
  BY <1>5, FinalizeReports
<1>6. ASSUME NEW n \in final..(Len(best) - 1), Retract(n) PROVE QInv'
  BY <1>6, RetractReports
<1>7. CASE ForeignDeposit
  <2>1. PICK b : b = [by |-> Foreign, ok |-> TRUE, state |-> Apply(BestState, deposit)]
    OBVIOUS
  <2>2. /\ b.by = Foreign /\ best' = Append(best, b)
        /\ UNCHANGED <<final, reported, pool>> /\ send' = Disturbed(Sends)
    BY <1>7, <2>1 DEF ForeignDeposit
  <2>3. \A j \in Sends : send'[j].promise = "resolved" => send[j].promise = "resolved"
    BY <2>2, OnlyDisturbed
  <2>4. Foreign \notin Sends /\ pool \subseteq Sends
    BY TransactionsAssumption DEF RInv, TypeOK
  <2> QED BY <2>2, <2>3, <2>4, BlockReports
<1>8. CASE UNCHANGED vars
  BY <1>8, QuietReports DEF vars, chain
<1> QED
  BY <1>1, <1>2, <1>3, <1>4, <1>5, <1>6, <1>7, <1>8 DEF Next, ChainStep, Over

(* removeBuckets reports the buckets its final transaction removed, neither
   more nor less but for the id 0, also when a fork had it removing others
   (DdcClient.ts:371-378, DDCCustomersPallet.ts:314-320). *)
THEOREM RemovalsAreReported == Spec => []RemovedIsReported
<1>1. Init => QInv
  <2> SUFFICES ASSUME Init PROVE QInv
    OBVIOUS
  <2>1. best = <<>> /\ DOMAIN best = {} /\ final = 0 /\ 1..final = {}
    BY DEF Init
  <2> QED BY <2>1 DEF QInv, Once, RemovedIsReported
<1>2. QInv => RemovedIsReported
  BY DEF QInv
<1> QED BY <1>1, <1>2, InitRInv, NextRInv, NextQInv, PTL DEF Spec
-----------------------------------------------------------------------------
(* Why an undisturbed deposit is not refused: from the moment it is called no
   other operation of the account can act, so the chain is the one it read. *)
AtWork(j) == send[j].phase \in {"reading", "ready", "signing"}

WorkIsPending == \A j \in Sends : AtWork(j) => send[j].promise = "pending"

ChoiceFits(i) ==
    send[i].calls = IF BestState.deposits > 0 THEN <<depositExtra>> ELSE <<deposit>>

Undisturbed(i) ==
    send[i].allowExtra /\ ~send[i].disturbed /\ send[i].promise = "pending"

Calm(i) ==
    Undisturbed(i) =>
        /\ \A j \in Sends \ {i} : ~AtWork(j) /\ j \notin pool
        /\ AtWork(i) \/ i \in pool => send[i].mode = "single"
        /\ send[i].phase \in {"ready", "signing"} \/ i \in pool => ChoiceFits(i)

CInv == WorkIsPending /\ (\A i \in Sends : Calm(i)) /\ DepositIsRefusedForAReason

LEMMA WorkStays ==
    ASSUME RInv, WorkIsPending, [Next]_vars
    PROVE  WorkIsPending'
<1>0. send \in [Sends -> SendRecord]
  BY DEF RInv, TypeOK
<1>1. ASSUME NEW i \in Sends, ClientStep(i) PROVE WorkIsPending'
  <2> USE <1>0 DEF WorkIsPending, AtWork, SendRecord
  <2>1. CASE ChooseDeposit(i)
    BY <2>1 DEF ChooseDeposit
  <2>2. CASE ReadNonce(i)
    BY <2>2 DEF ReadNonce
  <2>3. CASE Submit(i)
    BY <2>3 DEF Submit
  <2>4. ASSUME NEW k \in Sends, Usurp(i, k) PROVE WorkIsPending'
    BY <2>4 DEF Usurp
  <2>5. CASE SubmitThrows(i)
    BY <2>5 DEF SubmitThrows
  <2>6. QED BY <1>1, <2>1, <2>2, <2>3, <2>4, <2>5 DEF ClientStep
<1>2. ASSUME NEW i \in Sends, NEW r \in Requests, Begin(i, r) PROVE WorkIsPending'
  <2>1. /\ Disturbed(Sends \ {i}) \in [Sends -> SendRecord]
        /\ \A j \in Sends : /\ Disturbed(Sends \ {i})[j].promise = send[j].promise
                            /\ Disturbed(Sends \ {i})[j].phase = send[j].phase
    BY OnlyDisturbed
  <2>2. /\ send'[i].promise = "pending"
        /\ \A j \in Sends \ {i} : send'[j] = Disturbed(Sends \ {i})[j]
    BY <1>2, <2>1 DEF Begin, SendRecord
  <2>3. QED BY <2>1, <2>2 DEF WorkIsPending, AtWork
<1>3. ASSUME NEW i \in Sends, Include(i) PROVE WorkIsPending'
  <2>1. /\ send[i].phase = "submitted"
        /\ \A j \in Sends : send'[j].phase = send[j].phase
        /\ \A j \in Sends \ {i} : send'[j] = send[j]
    BY <1>0, <1>3 DEF Include, RInv, Submitted, SendRecord
  <2>2. QED BY <2>1 DEF WorkIsPending, AtWork
<1>4. ASSUME NEW i \in Sends, Drop(i) \/ Unsubscribed(i) PROVE WorkIsPending'
  BY <1>0, <1>4 DEF Drop, Unsubscribed, WorkIsPending, AtWork, SendRecord
<1>5. CASE Finalize
  <2> DEFINE i == best[final + 1].by
  <2>1. CASE i \in Sends /\ Listening(i)
    <3>1. final + 1 \in DOMAIN best
      BY <1>5, LenProperties DEF Finalize, RInv, TypeOK, BestIsSequence
    <3>2. send[i].phase = "submitted"
      BY <2>1, <3>1 DEF RInv, Submitted
    <3>3. /\ send'[i].phase = "submitted"
          /\ \A j \in Sends \ {i} : send'[j] = send[j]
      BY <1>0, <1>5, <2>1, <3>2, SMTT(30) DEF Finalize, SendRecord
    <3>4. QED BY <3>3 DEF WorkIsPending, AtWork
  <2>2. CASE ~(i \in Sends /\ Listening(i))
    BY <1>5, <2>2 DEF Finalize, WorkIsPending, AtWork
  <2>3. QED BY <2>1, <2>2
<1>6. ASSUME send' = Disturbed(Sends) PROVE WorkIsPending'
  BY <1>6, OnlyDisturbed DEF WorkIsPending, AtWork
<1>7. CASE UNCHANGED vars
  BY <1>7 DEF vars, WorkIsPending, AtWork
<1>8. QED
  BY <1>1, <1>2, <1>3, <1>4, <1>5, <1>6, <1>7
  DEF Next, ChainStep, Over, Retract, ForeignDeposit

(* A fork, somebody's deposit or another operation disturbs every operation. *)
LEMMA AllDisturbed ==
    ASSUME RInv, NEW S, S \subseteq Sends, NEW i \in S
    PROVE  Disturbed(S)[i].disturbed = TRUE
<1>1. i \in Sends /\ send[i] \in SendRecord
  BY DEF RInv, TypeOK
<1>2. Disturbed(S)[i] = [send[i] EXCEPT !.disturbed = TRUE]
  BY <1>1 DEF Disturbed
<1>3. QED BY <1>1, <1>2 DEF SendRecord

LEMMA BeginIsCalm ==
    ASSUME RInv, WorkIsPending, NEW i \in Sends, NEW r \in Requests, Begin(i, r)
    PROVE  Calm(i)'
<1> SUFFICES ASSUME Undisturbed(i)' PROVE Calm(i)'
  BY DEF Calm
<1> DEFINE d == Disturbed(Sends \ {i})
           other == \/ \E j \in Sends \ {i} : InFlight(j)
                    \/ final # Len(best)
<1>1. /\ d \in [Sends -> SendRecord]
      /\ \A j \in Sends : d[j].phase = send[j].phase
  BY OnlyDisturbed
<1>2. /\ send'[i].allowExtra = (r.kind = "deposit" /\ r.allowExtra)
      /\ send'[i].phase = (IF r.kind = "deposit" THEN "reading" ELSE "ready")
      /\ send'[i].mode = (IF r.kind = "deposit" THEN "single" ELSE r.mode)
      /\ send'[i].disturbed = other
      /\ \A j \in Sends \ {i} : send'[j] = d[j]
      /\ pool' = pool /\ send[i].phase = "idle"
  <2> HIDE DEF other, d
  <2>1. PICK o : o = other
    OBVIOUS
  <2>2. d[i] \in SendRecord
    BY <1>1
  <2>3. QED BY <1>1, <2>1, <2>2 DEF Begin, other, d, SendRecord, chain
<1>3. r.kind = "deposit" /\ ~other
  BY <1>2 DEF Undisturbed
<1>4. /\ send'[i].phase = "reading" /\ send'[i].mode = "single"
      /\ i \notin pool'
  BY <1>2, <1>3 DEF RInv, Submitted
<1>5. ASSUME NEW j \in Sends \ {i} PROVE ~AtWork(j)' /\ j \notin pool'
  <2>1. j \notin pool /\ send[j].promise # "pending"
    BY <1>3, <1>5 DEF InFlight
  <2>2. ~AtWork(j)
    BY <1>5, <2>1 DEF WorkIsPending
  <2>3. QED BY <1>1, <1>2, <1>5, <2>1, <2>2 DEF AtWork
<1>6. QED BY <1>4, <1>5 DEF Calm

(* The call that was chosen for the chain that is still the best one. *)
LEMMA FittingCallSucceeds ==
    ASSUME NEW i \in Sends, send[i].mode = "single", ChoiceFits(i)
    PROVE  Outcome(BestState, send[i].mode, send[i].calls).ok = TRUE
<1>1. CASE BestState.deposits > 0
  <2>1. send[i].calls[1] = depositExtra /\ BestState.deposits # 0
    BY <1>1 DEF ChoiceFits
  <2>2. ~Fails(BestState, send[i].calls[1])
    BY <2>1 DEF Fails, depositExtra
  <2>3. QED BY <2>2 DEF Outcome
<1>2. CASE ~(BestState.deposits > 0)
  <2>1. send[i].calls[1] = deposit
    BY <1>2 DEF ChoiceFits
  <2>2. ~Fails(BestState, send[i].calls[1])
    BY <1>2, <2>1 DEF Fails, deposit
  <2>3. QED BY <2>2 DEF Outcome
<1>3. QED BY <1>1, <1>2
(* While an operation is undisturbed only its own steps are those of a client. *)
LEMMA ClientIsCalm ==
    ASSUME RInv, WorkIsPending, NEW i \in Sends, Calm(i), NEW k \in Sends, ClientStep(k)
    PROVE  Calm(i)'
<1> SUFFICES ASSUME Undisturbed(i)' PROVE Calm(i)'
  BY DEF Calm
<1>0. send \in [Sends -> SendRecord] /\ send[i] \in SendRecord /\ send[k] \in SendRecord
  BY DEF RInv, TypeOK
<1>1. AtWork(k) /\ BestState' = BestState
  BY DEF ClientStep, ChooseDeposit, ReadNonce, Submit, Usurp, SubmitThrows, AtWork, chain,
         BestState, StateAt
<1>2. Undisturbed(i)
  <2> USE <1>0 DEF Undisturbed, SendRecord
  <2>1. CASE ChooseDeposit(k)
    BY <2>1 DEF ChooseDeposit
  <2>2. CASE ReadNonce(k)
    BY <2>2 DEF ReadNonce
  <2>3. CASE Submit(k)
    BY <2>3 DEF Submit
  <2>4. ASSUME NEW j \in Sends, Usurp(k, j) PROVE Undisturbed(i)
    BY <2>4 DEF Usurp
  <2>5. CASE SubmitThrows(k)
    <3>1. CASE k = i
      BY <2>5, <3>1 DEF SubmitThrows
    <3>2. CASE k # i
      BY <2>5, <3>2 DEF SubmitThrows
    <3>3. QED BY <3>1, <3>2
  <2>6. QED BY <2>1, <2>2, <2>3, <2>4, <2>5 DEF ClientStep
<1>3. k = i /\ i \notin pool
  BY <1>1, <1>2 DEF Calm, RInv, Submitted, AtWork
<1>4. \A j \in Sends \ {i} : ~AtWork(j) /\ j \notin pool
  BY <1>2 DEF Calm
<1>5. send[i].mode = "single" /\ send[i].allowExtra = TRUE
  BY <1>0, <1>1, <1>2, <1>3 DEF Calm, Undisturbed, SendRecord
<1>6. ASSUME NEW f, send' = [send EXCEPT ![i] = f], f.mode = "single",
             pool' \subseteq pool \cup {i},
             f.phase \in {"ready", "signing"} \/ i \in pool' =>
                 f.calls = IF BestState.deposits > 0 THEN <<depositExtra>> ELSE <<deposit>>
      PROVE  Calm(i)'
  <2>1. send'[i] = f /\ \A j \in Sends \ {i} : send'[j] = send[j]
    BY <1>0, <1>6
  <2>2. QED BY <1>1, <1>4, <1>6, <2>1 DEF Calm, AtWork, ChoiceFits
<1>7. CASE ChooseDeposit(i)
  <2> DEFINE choice == IF BestState.deposits > 0 THEN <<depositExtra>> ELSE <<deposit>>
             f == [send[i] EXCEPT !.phase = "ready", !.calls = choice]
  <2>1. send' = [send EXCEPT ![i] = f] /\ pool' = pool
    BY <1>5, <1>7 DEF ChooseDeposit, chain
  <2>2. f.mode = "single" /\ f.calls = choice
    BY <1>0, <1>5 DEF SendRecord
  <2> HIDE DEF f
  <2>3. QED BY <1>6, <2>1, <2>2
<1>8. CASE ReadNonce(i)
  <2> DEFINE f == [send[i] EXCEPT !.phase = "signing", !.nonce = AccountNonce]
  <2>1. send' = [send EXCEPT ![i] = f] /\ pool' = pool
    BY <1>8 DEF ReadNonce, chain
  <2>2. f.mode = "single" /\ f.calls = send[i].calls
    BY <1>0, <1>5 DEF SendRecord
  <2>3. ChoiceFits(i)
    BY <1>2, <1>8 DEF Calm, ReadNonce
  <2> HIDE DEF f
  <2>4. QED BY <1>6, <2>1, <2>2, <2>3 DEF ChoiceFits
<1>9. CASE Submit(i)
  <2> DEFINE f == [send[i] EXCEPT !.phase = "submitted"]
  <2>1. send' = [send EXCEPT ![i] = f] /\ pool' = pool \cup {i}
    BY <1>9 DEF Submit
  <2>2. f.mode = "single" /\ f.calls = send[i].calls
    BY <1>0, <1>5 DEF SendRecord
  <2>3. ChoiceFits(i)
    BY <1>2, <1>9 DEF Calm, Submit
  <2> HIDE DEF f
  <2>4. QED BY <1>6, <2>1, <2>2, <2>3 DEF ChoiceFits
<1>10. ASSUME NEW j \in Sends, Usurp(i, j) PROVE Calm(i)'
  BY <1>3, <1>4, <1>10 DEF Usurp
<1>11. CASE SubmitThrows(i)
  BY <1>0, <1>11 DEF SubmitThrows, Undisturbed, SendRecord
<1>12. QED BY <1>3, <1>7, <1>8, <1>9, <1>10, <1>11 DEF ClientStep

(* What happens on the chain without a block: the operation stays as it is. *)
LEMMA SameChainIsCalm ==
    ASSUME NEW i \in Sends, Calm(i), UNCHANGED best, pool' \subseteq pool,
           \A j \in Sends : /\ send'[j].phase = send[j].phase
                            /\ send'[j].calls = send[j].calls
                            /\ send'[j].mode = send[j].mode,
           Undisturbed(i)' => Undisturbed(i)
    PROVE  Calm(i)'
<1>1. BestState' = BestState
  BY DEF BestState, StateAt
<1>2. QED BY <1>1 DEF Calm, AtWork, ChoiceFits

LEMMA IncludeIsCalm ==
    ASSUME RInv, NEW i \in Sends, Calm(i), NEW k \in Sends, Include(k),
           send[i].allowExtra /\ send[i].promise = "refused" => send[i].disturbed
    PROVE  /\ Calm(i)'
           /\ (send[i].allowExtra /\ send[i].promise = "refused" => send[i].disturbed)'
<1> DEFINE out == Outcome(BestState, send[k].mode, send[k].calls)
<1>0. send \in [Sends -> SendRecord] /\ send[i] \in SendRecord
  BY DEF RInv, TypeOK
<1>1. /\ k \in pool /\ pool' = pool \ {k}
      /\ send' = [send EXCEPT ![k].promise =
                     IF Listening(k) /\ ~out.ok THEN "refused" ELSE @]
  BY DEF Include
<1> HIDE DEF out
<1>2. /\ send'[k].promise = IF Listening(k) /\ ~out.ok THEN "refused" ELSE send[k].promise
      /\ \A j \in Sends : /\ send'[j].phase = send[j].phase
                          /\ send'[j].allowExtra = send[j].allowExtra
                          /\ send'[j].disturbed = send[j].disturbed
      /\ \A j \in Sends \ {k} : send'[j] = send[j]
  BY <1>0, <1>1 DEF SendRecord
<1>3. CASE k = i
  <2>1. i \notin pool' /\ send'[i].phase = "submitted"
    BY <1>1, <1>2, <1>3 DEF RInv, Submitted
  <2>2. Undisturbed(i)' => Undisturbed(i)
    BY <1>2, <1>3 DEF Undisturbed
  <2>3. Calm(i)'
    BY <1>1, <1>2, <2>1, <2>2 DEF Calm, AtWork
  <2>4. ASSUME send[i].allowExtra, send'[i].promise = "refused", ~send[i].disturbed
        PROVE  FALSE
    <3>1. send[i].promise # "refused"
      BY <2>4
    <3>2. Listening(i) /\ ~out.ok
      BY <1>2, <1>3, <2>4, <3>1
    <3>3. Undisturbed(i)
      BY <2>4, <3>2 DEF Undisturbed, Listening
    <3>4. out.ok = TRUE
      BY <1>1, <1>3, <3>3, FittingCallSucceeds DEF Calm, out
    <3>5. QED BY <3>2, <3>4
  <2>5. QED BY <1>2, <2>3, <2>4
<1>4. CASE k # i
  <2>1. ~Undisturbed(i)
    BY <1>1, <1>4 DEF Calm
  <2>2. send'[i] = send[i]
    BY <1>2, <1>4
  <2>3. QED BY <2>1, <2>2 DEF Calm, Undisturbed
<1>5. QED BY <1>3, <1>4

LEMMA NextCInv ==
    ASSUME RInv, CInv, [Next]_vars
    PROVE  CInv'
<1> DEFINE Refused(i) == send[i].allowExtra /\ send[i].promise = "refused" => send[i].disturbed
<1>w. WorkIsPending'
  BY WorkStays DEF CInv
<1>0. send \in [Sends -> SendRecord]
  BY DEF RInv, TypeOK
<1> SUFFICES ASSUME NEW i \in Sends PROVE Calm(i)' /\ Refused(i)'
  BY <1>w DEF CInv, DepositIsRefusedForAReason
<1>i. Calm(i) /\ Refused(i) /\ WorkIsPending
  BY DEF CInv, DepositIsRefusedForAReason
<1>1. ASSUME NEW k \in Sends, ClientStep(k) PROVE Calm(i)' /\ Refused(i)'
  <2>1. Calm(i)'
    BY <1>1, <1>i, ClientIsCalm
  <2>2. Refused(i)'
    <3> USE <1>0, <1>i DEF SendRecord
    <3>1. CASE ChooseDeposit(k)
      BY <3>1 DEF ChooseDeposit
    <3>2. CASE ReadNonce(k)
      BY <3>2 DEF ReadNonce
    <3>3. CASE Submit(k)
      BY <3>3 DEF Submit
    <3>4. ASSUME NEW j \in Sends, Usurp(k, j) PROVE Refused(i)'
      BY <3>4 DEF Usurp
    <3>5. CASE SubmitThrows(k)
      BY <3>5 DEF SubmitThrows
    <3>6. QED BY <1>1, <3>1, <3>2, <3>3, <3>4, <3>5 DEF ClientStep
  <2>3. QED BY <2>1, <2>2
<1>2. ASSUME send'[i].disturbed = TRUE PROVE Calm(i)' /\ Refused(i)'
  BY <1>2 DEF Calm, Undisturbed
<1>3. ASSUME NEW k \in Sends, NEW r \in Requests, Begin(k, r) PROVE Calm(i)' /\ Refused(i)'
  <2>0. Disturbed(Sends \ {k}) \in [Sends -> SendRecord]
    BY OnlyDisturbed
  <2>1. CASE k = i
    <3>1. send'[i].promise = "pending"
      BY <1>3, <2>0, <2>1 DEF Begin, SendRecord
    <3>2. QED BY <1>3, <1>i, <2>1, <3>1, BeginIsCalm
  <2>2. CASE k # i
    <3>1. send'[i] = Disturbed(Sends \ {k})[i]
      BY <1>3, <2>0, <2>2 DEF Begin
    <3>2. send'[i].disturbed = TRUE
      BY <2>2, <3>1, AllDisturbed
    <3>3. QED BY <1>2, <3>2
  <2>3. QED BY <2>1, <2>2
<1>4. ASSUME NEW k \in Sends, Include(k) PROVE Calm(i)' /\ Refused(i)'
  BY <1>4, <1>i, IncludeIsCalm
<1>5. ASSUME NEW k \in Sends, Drop(k) \/ Unsubscribed(k) PROVE Calm(i)' /\ Refused(i)'
  <2>1. /\ UNCHANGED best /\ pool' \subseteq pool
        /\ send' = [send EXCEPT ![k].lost = TRUE]
    BY <1>5 DEF Drop, Unsubscribed, chain
  <2>2. \A j \in Sends : /\ send'[j].phase = send[j].phase
                         /\ send'[j].calls = send[j].calls
                         /\ send'[j].mode = send[j].mode
                         /\ send'[j].promise = send[j].promise
                         /\ send'[j].allowExtra = send[j].allowExtra
                         /\ send'[j].disturbed = send[j].disturbed
    BY <1>0, <2>1 DEF SendRecord
  <2>3. QED BY <1>i, <2>1, <2>2, SameChainIsCalm DEF Undisturbed
<1>6. CASE Finalize
  <2> DEFINE k == best[final + 1].by
  <2>1. CASE k \in Sends /\ Listening(k)
    <3>1. /\ UNCHANGED <<best, pool>> /\ send' = [send EXCEPT ![k].promise = "resolved"]
      BY <1>6, <2>1 DEF Finalize
    <3> HIDE DEF k
    <3>2. \A j \in Sends : /\ send'[j].phase = send[j].phase
                           /\ send'[j].calls = send[j].calls
                           /\ send'[j].mode = send[j].mode
                           /\ send'[j].promise \in {send[j].promise, "resolved"}
                           /\ send'[j].allowExtra = send[j].allowExtra
                           /\ send'[j].disturbed = send[j].disturbed
      BY <1>0, <2>1, <3>1 DEF SendRecord
    <3>3. QED BY <1>i, <3>1, <3>2, SameChainIsCalm DEF Undisturbed
  <2>2. CASE ~(k \in Sends /\ Listening(k))
    <3>1. UNCHANGED <<best, pool, send>>
      BY <1>6, <2>2 DEF Finalize
    <3>2. QED BY <1>i, <3>1, SameChainIsCalm DEF Undisturbed
  <2>3. QED BY <2>1, <2>2
<1>7. CASE (\E n \in final..(Len(best) - 1) : Retract(n)) \/ ForeignDeposit
  <2>1. send' = Disturbed(Sends)
    BY <1>7 DEF Retract, ForeignDeposit
  <2>2. QED BY <1>2, <2>1, AllDisturbed
<1>8. CASE UNCHANGED vars
  BY <1>8, <1>i, SameChainIsCalm DEF vars, chain, Undisturbed
<1>9. QED
  BY <1>1, <1>3, <1>4, <1>5, <1>6, <1>7, <1>8 DEF Next, ChainStep, Over

(* The deposit that depositBalance chooses is refused only when the account or
   the chain changed meanwhile (DdcClient.ts:160-171). *)
THEOREM RefusalsHaveAReason == Spec => []DepositIsRefusedForAReason
<1>1. Init => CInv
  BY DEF Init, CInv, WorkIsPending, AtWork, Calm, Undisturbed, DepositIsRefusedForAReason
<1>2. RInv /\ CInv /\ [Next]_vars => CInv'
  BY NextCInv
<1>3. CInv => DepositIsRefusedForAReason
  BY DEF CInv
<1>4. QED BY <1>1, <1>2, <1>3, InitRInv, NextRInv, PTL DEF Spec
=============================================================================
