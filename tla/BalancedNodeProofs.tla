------------------------- MODULE BalancedNodeProofs -------------------------
(***************************************************************************)
(* Theorems of BalancedNode, for any number of nodes, retries and errors,  *)
(* and of the operations that go through it: StorePiece and ReadPiece.     *)
(*                                                                         *)
(* TypeInv adds to the types that an attempt is left while the operation   *)
(* is not settled; ErrorInv follows the errors that are remembered;        *)
(* AskedInv relates the nodes that were asked to the exclusion list, and   *)
(* LevelInv how often each was.  KeepsContractSafety maps every step to a  *)
(* step of RetryContract or a stutter.                                     *)
(*                                                                         *)
(* Storing and reading are shown to implement BalancedNode, so what is     *)
(* proved of an operation holds of them: a promise is settled exactly when *)
(* the operation is done.  StoreInv follows the requests for a piece and a *)
(* name to the nodes; ReadInv keeps what the step that settles a read      *)
(* relies on.                                                              *)
(*                                                                         *)
(* StepsLeft, with StoreStepsLeft and ReadStepsLeft below it, is used up   *)
(* by every step: the safety half of termination.                          *)
(***************************************************************************)
EXTENDS StorePiece, ReadPiece,
        FiniteSetTheorems, SequenceTheorems, WellFoundedInduction, TLAPS

(* Every nonempty set of naturals has a least element. *)
LEMMA LeastNatural ==
    ASSUME NEW T, T \subseteq Nat, T # {}
    PROVE  \E m \in T : \A k \in T : m <= k
<1>1. PICK m \in T : \A k \in T : ~(<<k, m>> \in OpToRel(<, Nat))
  BY NatLessThanWellFounded, WFMin
<1>2. \A k \in T : ~(k < m)
  BY <1>1 DEF OpToRel
<1>3. QED BY <1>2

(* A bounded function to the naturals takes its maximum. *)
LEMMA Maximum ==
    ASSUME NEW D, D # {}, NEW f \in [D -> Nat],
           NEW b \in Nat, \A i \in D : f[i] <= b
    PROVE  \E i \in D : \A j \in D : f[j] <= f[i]
<1> DEFINE T == {b - f[i] : i \in D}
<1>1. T \subseteq Nat
  OBVIOUS
<1>2. T # {}
  OBVIOUS
<1>3. PICK m \in T : \A k \in T : m <= k
  BY <1>1, <1>2, LeastNatural
<1>4. PICK i \in D : m = b - f[i]
  OBVIOUS
<1>5. \A j \in D : b - f[i] <= b - f[j]
  BY <1>3, <1>4
<1>6. QED BY <1>5

(* How often an element occurs in a sequence is a natural number. *)
LEMMA OccurrencesIsNat ==
    ASSUME NEW S, NEW s \in Seq(S), NEW x
    PROVE  Occurrences(s, x) \in Nat /\ Occurrences(s, x) <= Len(s)
<1>1. DOMAIN s = 1..Len(s) /\ Len(s) \in Nat
  BY LenProperties
<1>2. IsFiniteSet(1..Len(s)) /\ Cardinality(1..Len(s)) = Len(s)
  BY <1>1, FS_Interval
<1>3. {i \in DOMAIN s : s[i] = x} \in SUBSET (1..Len(s))
  BY <1>1
<1>4. QED BY <1>2, <1>3, FS_Subset, FS_CardinalityType DEF Occurrences

(* The main error of a nonempty sequence of errors is one of them. *)
LEMMA MainErrorIsOneOfThem ==
    ASSUME NEW S, NEW s \in Seq(S), s # <<>>
    PROVE  \E i \in DOMAIN s : MainError(s) = s[i]
<1> DEFINE occ == [i \in DOMAIN s |-> Occurrences(s, s[i])]
<1>1. DOMAIN s = 1..Len(s) /\ Len(s) \in Nat \ {0}
  BY LenProperties, EmptySeq
<1>2. occ \in [DOMAIN s -> Nat] /\ \A i \in DOMAIN s : occ[i] <= Len(s)
  BY OccurrencesIsNat
<1>3. \A i \in DOMAIN s : occ[i] = Occurrences(s, s[i])
  OBVIOUS
<1> HIDE DEF occ
<1> DEFINE D == DOMAIN s
<1>d. D # {} /\ Len(s) \in Nat
  <2>1. 1 \in 1..Len(s)
    BY <1>1
  <2>2. QED BY <1>1, <2>1
<1>f. occ \in [D -> Nat] /\ \A i \in D : occ[i] <= Len(s)
  BY <1>2
<1> HIDE DEF D
<1>4. PICK i1 \in D : \A j \in D : occ[j] <= occ[i1]
  BY <1>d, <1>f, Maximum
<1> USE DEF D
<1>5. PICK i2 \in DOMAIN s : /\ occ[i2] = occ[i1]
                             /\ \A j \in DOMAIN s : occ[j] = occ[i1] => j <= i2
  <2> DEFINE U == {j \in DOMAIN s : occ[j] = occ[i1]}
             id == [j \in U |-> j]
  <2>1. U # {} /\ id \in [U -> Nat] /\ \A j \in U : id[j] <= Len(s)
    BY <1>1
  <2>2. PICK i \in U : \A j \in U : id[j] <= id[i]
    BY <1>1, <2>1, Maximum
  <2>3. QED BY <2>2
<1>6. \A j \in DOMAIN s : occ[j] < occ[i2] \/ (occ[j] = occ[i2] /\ j <= i2)
  BY <1>2, <1>4, <1>5
<1>7. QED BY <1>3, <1>6 DEF MainError

-----------------------------------------------------------------------------
(* What the operations of the code on its array of excluded nodes do to the
   set of its elements. *)
LEMMA ToSetOfAppend ==
    ASSUME NEW S, NEW s \in Seq(S), NEW x \in S
    PROVE  /\ Append(s, x) \in Seq(S)
           /\ Len(Append(s, x)) = Len(s) + 1
           /\ DOMAIN Append(s, x) = 1..(Len(s) + 1)
           /\ \A i \in 1..Len(s) : Append(s, x)[i] = s[i]
           /\ Append(s, x)[Len(s) + 1] = x
           /\ ToSet(Append(s, x)) = ToSet(s) \cup {x}
<1>1. /\ Append(s, x) \in Seq(S)
      /\ Len(Append(s, x)) = Len(s) + 1
      /\ DOMAIN Append(s, x) = 1..(Len(s) + 1)
      /\ \A i \in 1..Len(s) : Append(s, x)[i] = s[i]
      /\ Append(s, x)[Len(s) + 1] = x
  BY AppendProperties, LenProperties
<1>2. DOMAIN s = 1..Len(s) /\ Len(s) \in Nat
  BY LenProperties
<1>3. ToSet(Append(s, x)) = ToSet(s) \cup {x}
  BY <1>1, <1>2 DEF ToSet
<1>4. QED BY <1>1, <1>3

LEMMA ToSetOfUnshift ==
    ASSUME NEW S, NEW s \in Seq(S), NEW x \in S
    PROVE  /\ Unshift(s, x) \in Seq(S)
           /\ ToSet(Unshift(s, x)) = ToSet(s) \cup {x}
<1>1. <<x>> \in Seq(S) /\ Len(<<x>>) = 1 /\ <<x>>[1] = x
  OBVIOUS
<1>2. DOMAIN s = 1..Len(s) /\ Len(s) \in Nat
  BY LenProperties
<1>3. /\ Unshift(s, x) \in Seq(S)
      /\ Len(Unshift(s, x)) = Len(s) + 1
      /\ \A i \in 1..(Len(s) + 1) :
            Unshift(s, x)[i] = IF i = 1 THEN x ELSE s[i - 1]
  BY <1>1, <1>2, ConcatProperties DEF Unshift
<1>4. DOMAIN Unshift(s, x) = 1..(Len(s) + 1)
  BY <1>3, LenProperties
<1>5. ASSUME NEW y \in ToSet(s) PROVE y \in ToSet(Unshift(s, x))
  <2>1. PICK i \in 1..Len(s) : s[i] = y
    BY <1>2 DEF ToSet
  <2>2. Unshift(s, x)[i + 1] = y /\ i + 1 \in 1..(Len(s) + 1)
    BY <1>2, <1>3, <2>1
  <2>3. QED BY <1>4, <2>2 DEF ToSet
<1>6. x \in ToSet(Unshift(s, x))
  <2>1. Unshift(s, x)[1] = x /\ 1 \in 1..(Len(s) + 1)
    BY <1>2, <1>3
  <2>2. QED BY <1>4, <2>1 DEF ToSet
<1>7. ASSUME NEW i \in 1..(Len(s) + 1), i # 1
      PROVE  Unshift(s, x)[i] \in ToSet(s)
  <2>1. i - 1 \in DOMAIN s /\ Unshift(s, x)[i] = s[i - 1]
    BY <1>2, <1>3, <1>7
  <2>2. QED BY <2>1 DEF ToSet
<1>8. ASSUME NEW y \in ToSet(Unshift(s, x)) PROVE y \in ToSet(s) \cup {x}
  BY <1>3, <1>4, <1>7 DEF ToSet
<1>9. QED BY <1>3, <1>5, <1>6, <1>8

LEMMA ToSetOfFront ==
    ASSUME NEW S, NEW s \in Seq(S), s # <<>>
    PROVE  /\ Front(s) \in Seq(S)
           /\ ToSet(Front(s)) \subseteq ToSet(s)
           /\ Last(s) \in ToSet(s)
           /\ Last(s) \in S
<1>1. DOMAIN s = 1..Len(s) /\ Len(s) \in Nat \ {0}
  BY LenProperties, EmptySeq
<1>2. \A i \in 1..(Len(s) - 1) : s[i] \in S
  BY <1>1, ElementOfSeq
<1>3. /\ Front(s) \in Seq(S)
      /\ Len(Front(s)) = Len(s) - 1
      /\ \A i \in 1..(Len(s) - 1) : Front(s)[i] = s[i]
  <2>1. /\ SubSeq(s, 1, Len(s) - 1) \in Seq(S)
        /\ Len(SubSeq(s, 1, Len(s) - 1)) = IF 1 <= Len(s) - 1 THEN (Len(s) - 1) - 1 + 1 ELSE 0
        /\ \A i \in 1..((Len(s) - 1) - 1 + 1) : SubSeq(s, 1, Len(s) - 1)[i] = s[1 + i - 1]
    BY <1>1, <1>2, SubSeqProperties
  <2>2. QED BY <1>1, <2>1 DEF Front
<1>4. DOMAIN Front(s) = 1..(Len(s) - 1)
  BY <1>3, LenProperties
<1>5. ToSet(Front(s)) \subseteq ToSet(s)
  BY <1>1, <1>3, <1>4 DEF ToSet
<1>6. Len(s) \in DOMAIN s
  BY <1>1
<1>7. Last(s) \in ToSet(s) /\ Last(s) \in S
  BY <1>1, <1>6, ElementOfSeq DEF Last, ToSet
<1>8. QED BY <1>3, <1>5, <1>7

-----------------------------------------------------------------------------
(* Type correctness.  The delay before the next attempt begins only while a
   retry is left, and the operation is done when its promise is settled. *)
AttemptLeft == pc = "backoff" => attempt <= Retries

DoneIsSettled == pc = "done" <=> outcome.state # "pending"

TypeInv == TypeOK /\ AttemptLeft /\ DoneIsSettled

LEMMA TypeInit == Init => TypeInv
  BY RetriesAssumption
  DEF Init, TypeInv, TypeOK, AttemptLeft, DoneIsSettled, Pending

(* An attempt that throws a retryable error or a router error leaves the
   errors and the promise well typed. *)
LEMMA AttemptThrowsType ==
    ASSUME NEW e \in RetryableErrors \cup RouterErrors,
           TypeInv, pc # "done", AttemptThrows(e), UNCHANGED attempt
    PROVE  /\ errors' \in Seq(RetryableErrors \cup RouterErrors)
           /\ outcome' \in {Pending, Fulfilled} \cup {Rejected(x) : x \in Errors}
           /\ pc' \in {"backoff", "done"}
           /\ AttemptLeft' /\ DoneIsSettled'
           /\ errors' = Append(errors, e)
           /\ \/ pc' = "backoff" /\ outcome' = outcome
              \/ /\ pc' = "done"
                 /\ \E i \in DOMAIN errors' : outcome' = Rejected(errors'[i])
<1> DEFINE E == RetryableErrors \cup RouterErrors
<1>1. errors \in Seq(E) /\ e \in E /\ errors' = Append(errors, e)
  BY DEF TypeInv, TypeOK, AttemptThrows
<1>2. errors' \in Seq(E) /\ errors' # <<>>
  BY <1>1, AppendProperties
<1>3. PICK i \in DOMAIN errors' : MainError(errors') = errors'[i]
  BY <1>2, MainErrorIsOneOfThem
<1>4. errors'[i] \in Errors
  <2>1. errors'[i] \in E
    BY <1>2, <1>3, ElementOfSeq, LenProperties
  <2>2. QED BY <2>1 DEF Errors
<1>5. CASE attempt <= Retries /\ pc' = "backoff" /\ outcome' = outcome
  BY <1>1, <1>2, <1>5
  DEF TypeInv, TypeOK, AttemptLeft, DoneIsSettled
<1>6. CASE pc' = "done" /\ outcome' = Rejected(MainError(errors'))
  BY <1>1, <1>2, <1>3, <1>4, <1>6
  DEF TypeInv, AttemptLeft, DoneIsSettled, Rejected
<1>7. QED BY <1>5, <1>6 DEF AttemptThrows

LEMMA TypeStep == TypeInv /\ [Next]_vars => TypeInv'
<1> SUFFICES ASSUME TypeInv, [Next]_vars PROVE TypeInv'
  OBVIOUS
<1> USE RetriesAssumption DEF TypeInv, AttemptLeft, DoneIsSettled
<1>1. ASSUME NEW n \in Eligible, RouterSelects(n) PROVE TypeInv'
  BY <1>1, ToSetOfUnshift, AppendProperties DEF RouterSelects, TypeOK
<1>2. ASSUME NEW e \in RouterErrors, RouterFails(e) PROVE TypeInv'
  <2>1. faults' \in Nat /\ pc = "routing" /\ lastRouterError' = e
    BY <1>2 DEF RouterFails, ReusePrevious, NobodyToAsk, TypeOK
  <2>2. CASE ReusePrevious(e)
    <3>1. Last(exclude) \in Eligible /\ Front(exclude) \in Seq(Eligible)
      BY <2>2, ToSetOfFront DEF ReusePrevious, TypeOK
    <3>2. asked' \in Seq(Eligible)
      BY <2>2, <3>1, AppendProperties DEF ReusePrevious, TypeOK
    <3>3. QED BY <2>1, <2>2, <3>1, <3>2 DEF ReusePrevious, TypeOK
  <2>3. CASE NobodyToAsk(e)
    <3>1. NoNodeError(lastOperationError, e) \in RetryableErrors \cup RouterErrors
      BY DEF NoNodeError, TypeOK
    <3>2. /\ AttemptThrows(NoNodeError(lastOperationError, e))
          /\ UNCHANGED attempt
      BY <2>3 DEF NobodyToAsk
    <3>3. /\ errors' \in Seq(RetryableErrors \cup RouterErrors)
          /\ outcome' \in {Pending, Fulfilled} \cup {Rejected(x) : x \in Errors}
          /\ pc' \in {"backoff", "done"}
          /\ AttemptLeft' /\ DoneIsSettled'
      BY <2>1, <3>1, <3>2, AttemptThrowsType
    <3>4. QED BY <2>1, <2>3, <3>3 DEF NobodyToAsk, TypeOK
  <2>4. QED BY <1>2, <2>2, <2>3 DEF RouterFails
<1>3. ASSUME NodeSucceeds PROVE TypeInv'
  BY <1>3 DEF NodeSucceeds, TypeOK, Fulfilled
<1>4. ASSUME NEW e \in RetryableErrors \cup FatalErrors, NodeFails(e) PROVE TypeInv'
  <2>1. CASE e \in RetryableErrors /\ lastOperationError' = e /\ AttemptThrows(e)
    BY <1>4, <2>1, AttemptThrowsType DEF NodeFails, TypeOK
  <2>2. CASE e \in FatalErrors /\ pc' = "done" /\ outcome' = Rejected(e)
             /\ UNCHANGED <<lastOperationError, errors>>
    BY <1>4, <2>2 DEF NodeFails, TypeOK, Errors, Rejected
  <2>3. QED BY <1>4, <2>1, <2>2 DEF NodeFails
<1>5. ASSUME Retry PROVE TypeInv'
  BY <1>5 DEF Retry, TypeOK
<1>6. ASSUME UNCHANGED vars PROVE TypeInv'
  BY <1>6 DEF vars, TypeOK
<1>7. QED BY <1>1, <1>2, <1>3, <1>4, <1>5, <1>6 DEF Next, Step, Settled

(* In every behaviour of an operation, with any number of nodes, retries and
   errors, the state keeps its types; in particular async-retry never starts
   more than 1 + retries attempts. *)
THEOREM TypeCorrect == Spec => []TypeOK
<1>1. TypeInv => TypeOK
  BY DEF TypeInv
<1>2. QED BY <1>1, TypeInit, TypeStep, PTL DEF Spec

LEMMA TypeInvariant == Spec => []TypeInv
  BY TypeInit, TypeStep, PTL DEF Spec

-----------------------------------------------------------------------------
(* Which error is reported.  Once the first failed attempt got an answer from
   a node, lastOperationError is set, so every later failure repeats a node's
   error and none of the errors async-retry chooses from is the router's. *)
NodeErrorsOnly ==
    (errors # <<>> /\ errors[1] \notin RouterErrors)
        => /\ lastOperationError # None
           /\ \A i \in DOMAIN errors : errors[i] \notin RouterErrors

RejectedForAReason ==
    outcome.state = "rejected" => outcome.error \in FatalErrors \cup ToSet(errors)

ErrorInv == NodeErrorsOnly /\ RejectedForAReason

LEMMA ErrorInit == Init => ErrorInv
  BY DEF Init, ErrorInv, NodeErrorsOnly, RejectedForAReason, Pending

(* An attempt that throws keeps ErrorInv if it throws a node's error and
   remembers one, or throws a router error before any node has failed. *)
LEMMA AttemptThrowsError ==
    ASSUME NEW e \in RetryableErrors \cup RouterErrors,
           TypeInv, pc # "done", ErrorInv, AttemptThrows(e), UNCHANGED attempt,
           \/ e \notin RouterErrors /\ lastOperationError' # None
           \/ e \in RouterErrors /\ lastOperationError = None
    PROVE  ErrorInv'
<1> DEFINE E == RetryableErrors \cup RouterErrors
<1>1. /\ errors \in Seq(E) /\ errors' = Append(errors, e)
      /\ errors' \in Seq(E)
      /\ outcome.state # "rejected"
      /\ \/ outcome' = outcome
         \/ \E i \in DOMAIN errors' : outcome' = Rejected(errors'[i])
  <2>1. outcome.state # "rejected"
    BY DEF TypeInv, DoneIsSettled
  <2>2. QED BY <2>1, AttemptThrowsType DEF TypeInv, TypeOK
<1>2. /\ DOMAIN errors = 1..Len(errors) /\ Len(errors) \in Nat
      /\ errors = <<>> <=> Len(errors) = 0
  BY <1>1, LenProperties, EmptySeq
<1>3. /\ DOMAIN errors' = 1..(Len(errors) + 1)
      /\ \A i \in 1..Len(errors) : errors'[i] = errors[i]
      /\ errors'[Len(errors) + 1] = e
  BY <1>1, ToSetOfAppend
<1>4. RejectedForAReason'
  BY <1>1 DEF RejectedForAReason, Rejected, ToSet
<1>5. NodeErrorsOnly'
  <2>1. CASE errors = <<>>
    BY <1>2, <1>3, <2>1 DEF NodeErrorsOnly
  <2>2. CASE errors # <<>>
    <3>1. errors'[1] = errors[1]
      BY <1>2, <1>3, <2>2
    <3>2. QED BY <1>2, <1>3, <2>2, <3>1 DEF NodeErrorsOnly, ErrorInv
  <2>3. QED BY <2>1, <2>2
<1>6. QED BY <1>4, <1>5 DEF ErrorInv

LEMMA ErrorStep == TypeInv /\ ErrorInv /\ [Next]_vars => ErrorInv'
<1> SUFFICES ASSUME TypeInv, ErrorInv, [Next]_vars PROVE ErrorInv'
  OBVIOUS
<1>e. \A e \in RetryableErrors : e \notin RouterErrors /\ e # None
  BY ErrorsAssumption DEF RouterErrors
<1>1. ASSUME NEW n \in Eligible, RouterSelects(n) PROVE ErrorInv'
  BY <1>1 DEF RouterSelects, ErrorInv, NodeErrorsOnly, RejectedForAReason
<1>2. ASSUME NEW e \in RouterErrors, RouterFails(e) PROVE ErrorInv'
  <2>1. CASE ReusePrevious(e)
    BY <2>1 DEF ReusePrevious, ErrorInv, NodeErrorsOnly, RejectedForAReason
  <2>2. CASE NobodyToAsk(e)
    <3> DEFINE thrown == NoNodeError(lastOperationError, e)
    <3>1. pc # "done" /\ AttemptThrows(thrown) /\ UNCHANGED attempt
          /\ UNCHANGED lastOperationError
      BY <1>2, <2>2 DEF RouterFails, NobodyToAsk
    <3>2. lastOperationError \in RetryableErrors \cup {None}
      BY DEF TypeInv, TypeOK
    <3>3. thrown \in RetryableErrors \cup RouterErrors
      BY <3>2 DEF NoNodeError
    <3>4. \/ thrown \notin RouterErrors /\ lastOperationError' # None
          \/ thrown \in RouterErrors /\ lastOperationError = None
      BY <1>e, <3>1, <3>2 DEF NoNodeError
    <3> HIDE DEF thrown
    <3>5. QED BY <3>1, <3>3, <3>4, AttemptThrowsError
  <2>3. QED BY <1>2, <2>1, <2>2 DEF RouterFails
<1>3. ASSUME NodeSucceeds PROVE ErrorInv'
  BY <1>3 DEF NodeSucceeds, Fulfilled, ErrorInv, NodeErrorsOnly, RejectedForAReason
<1>4. ASSUME NEW e \in RetryableErrors \cup FatalErrors, NodeFails(e) PROVE ErrorInv'
  <2>1. CASE e \in RetryableErrors /\ lastOperationError' = e /\ AttemptThrows(e)
    <3>1. pc # "done" /\ UNCHANGED attempt
      BY <1>4 DEF NodeFails
    <3>2. QED BY <1>e, <2>1, <3>1, AttemptThrowsError
  <2>2. CASE e \in FatalErrors /\ pc' = "done" /\ outcome' = Rejected(e)
             /\ UNCHANGED <<lastOperationError, errors>>
    BY <2>2 DEF ErrorInv, NodeErrorsOnly, RejectedForAReason, Rejected
  <2>3. QED BY <1>4, <2>1, <2>2 DEF NodeFails
<1>5. ASSUME Retry PROVE ErrorInv'
  BY <1>5 DEF Retry, ErrorInv, NodeErrorsOnly, RejectedForAReason
<1>6. ASSUME UNCHANGED vars PROVE ErrorInv'
  BY <1>6 DEF vars, ErrorInv, NodeErrorsOnly, RejectedForAReason
<1>7. QED BY <1>1, <1>2, <1>3, <1>4, <1>5, <1>6 DEF Next, Step, Settled

LEMMA ErrorInvImplies == TypeInv /\ ErrorInv => NodeErrorIsReported
<1> SUFFICES ASSUME TypeInv, ErrorInv, outcome.state = "rejected",
                    outcome.error \in RouterErrors,
                    errors[1] \notin RouterErrors
             PROVE  FALSE
  BY DEF NodeErrorIsReported
<1>1. outcome.error \notin FatalErrors
  BY ErrorsAssumption DEF RouterErrors
<1>2. PICK i \in DOMAIN errors : errors[i] = outcome.error
  BY <1>1 DEF ErrorInv, RejectedForAReason, ToSet
<1>3. errors # <<>>
  BY <1>2
<1>4. QED BY <1>2, <1>3 DEF ErrorInv, NodeErrorsOnly

(* Whatever the nodes and the router do, the caller is given a router error
   only if no node had failed before the operation ran out of nodes to ask:
   BalancedNode never hides what a node said behind "No nodes available". *)
THEOREM NodeErrorReported == Spec => []NodeErrorIsReported
<1>1. QED BY TypeInvariant, ErrorInit, ErrorStep, ErrorInvImplies, PTL DEF Spec

-----------------------------------------------------------------------------
(* Which nodes are asked.  An excluded node has been asked; and as long as
   only a lack of nodes makes the router fail, the excluded nodes are all that
   were asked, until all the eligible ones have been. *)
ExcludedWereAsked == ToSet(exclude) \subseteq ToSet(asked)

AskedAreExcluded ==
    faults = 0 => \/ ToSet(asked) \subseteq ToSet(exclude)
                  \/ Eligible \subseteq ToSet(asked)

AskedInv == ExcludedWereAsked /\ AskedAreExcluded /\ ReuseOnlyAfterAll

LEMMA AskedInit == Init => AskedInv
  BY DEF Init, AskedInv, ExcludedWereAsked, AskedAreExcluded,
         ReuseOnlyAfterAll, ToSet

(* Asking node n once more keeps ReuseOnlyAfterAll if n is asked for the
   first time or every eligible node has been asked. *)
LEMMA AskingOneMore ==
    ASSUME NEW n \in Eligible, asked \in Seq(Eligible),
           ReuseOnlyAfterAll, asked' = Append(asked, n),
           faults' = 0 => faults = 0,
           faults' = 0 => (n \notin ToSet(asked) \/ Eligible \subseteq ToSet(asked))
    PROVE  ReuseOnlyAfterAll'
<1> DEFINE last == Len(asked) + 1
<1>1. /\ DOMAIN asked = 1..Len(asked) /\ Len(asked) \in Nat
      /\ asked' \in Seq(Eligible)
      /\ DOMAIN asked' = 1..last
      /\ \A i \in 1..Len(asked) : asked'[i] = asked[i]
      /\ asked'[last] = n
  BY ToSetOfAppend, LenProperties
<1>2. ASSUME NEW k \in 0..Len(asked)
      PROVE  SubSeq(asked', 1, k) = SubSeq(asked, 1, k)
  <2>1. \A i \in 1..k : asked[i] \in Eligible /\ asked'[i] \in Eligible
                        /\ asked'[i] = asked[i]
    BY <1>1, ElementOfSeq
  <2>2. k \in Int /\ 1 \in Int /\ k - 1 + 1 = k
    BY <1>1
  <2>3. /\ SubSeq(asked', 1, k) \in Seq(Eligible)
        /\ Len(SubSeq(asked', 1, k)) = IF 1 <= k THEN k - 1 + 1 ELSE 0
        /\ \A i \in 1..(k - 1 + 1) : SubSeq(asked', 1, k)[i] = asked'[1 + i - 1]
    BY <2>1, <2>2, SubSeqProperties
  <2>4. /\ SubSeq(asked, 1, k) \in Seq(Eligible)
        /\ Len(SubSeq(asked, 1, k)) = IF 1 <= k THEN k - 1 + 1 ELSE 0
        /\ \A i \in 1..(k - 1 + 1) : SubSeq(asked, 1, k)[i] = asked[1 + i - 1]
    BY <2>1, <2>2, SubSeqProperties
  <2> DEFINE s == SubSeq(asked', 1, k)
             t == SubSeq(asked, 1, k)
  <2>5. Len(s) = k /\ Len(t) = k
    BY <1>1, <2>3, <2>4
  <2>6. \A i \in 1..Len(s) : s[i] = t[i]
    BY <1>1, <2>1, <2>2, <2>3, <2>4, <2>5
  <2>7. s \in Seq(Eligible) /\ t \in Seq(Eligible) /\ Len(s) = Len(t)
    BY <2>3, <2>4, <2>5
  <2> HIDE DEF s, t
  <2>8. s = t
    BY <2>6, <2>7, SeqEqual
  <2>9. QED BY <2>8 DEF s, t
<1>3. ASSUME NEW i \in DOMAIN asked', NEW j \in DOMAIN asked',
             i < j, asked'[i] = asked'[j], faults' = 0
      PROVE  Eligible \subseteq ToSet(SubSeq(asked', 1, j - 1))
  <2>1. i \in 1..Len(asked) /\ j - 1 \in 0..Len(asked)
    BY <1>1, <1>3
  <2>2. SubSeq(asked', 1, j - 1) = SubSeq(asked, 1, j - 1)
    BY <1>2, <2>1
  <2>3. CASE j = last
    <3>1. n \in ToSet(asked)
      BY <1>1, <1>3, <2>1, <2>3 DEF ToSet
    <3>2. SubSeq(asked, 1, j - 1) = asked
      BY <1>1, <2>3, SubSeqFull
    <3>3. QED BY <1>3, <2>2, <3>1, <3>2
  <2>4. CASE j # last
    <3>1. j \in DOMAIN asked /\ i \in DOMAIN asked /\ asked[i] = asked[j]
      BY <1>1, <1>3, <2>1, <2>4
    <3>2. QED BY <1>3, <2>2, <3>1 DEF ReuseOnlyAfterAll
  <2>5. QED BY <2>3, <2>4
<1>4. QED BY <1>3 DEF ReuseOnlyAfterAll

LEMMA AskedStep == TypeInv /\ AskedInv /\ [Next]_vars => AskedInv'
<1> SUFFICES ASSUME TypeInv, AskedInv, [Next]_vars PROVE AskedInv'
  OBVIOUS
<1>t. asked \in Seq(Eligible) /\ exclude \in Seq(Eligible) /\ faults \in Nat
  BY DEF TypeInv, TypeOK
<1>1. ASSUME NEW n \in Eligible, RouterSelects(n) PROVE AskedInv'
  <2>1. /\ asked' = Append(asked, n) /\ exclude' = Unshift(exclude, n)
        /\ faults' = faults /\ n \notin ToSet(exclude)
    BY <1>1 DEF RouterSelects
  <2>2. /\ ToSet(asked') = ToSet(asked) \cup {n}
        /\ ToSet(exclude') = ToSet(exclude) \cup {n}
    BY <1>t, <2>1, ToSetOfAppend, ToSetOfUnshift
  <2>3. faults' = 0 => (n \notin ToSet(asked) \/ Eligible \subseteq ToSet(asked))
    BY <2>1 DEF AskedInv, AskedAreExcluded
  <2>4. ReuseOnlyAfterAll'
    BY <1>t, <2>1, <2>3, AskingOneMore DEF AskedInv
  <2>5. ExcludedWereAsked' /\ AskedAreExcluded'
    BY <2>1, <2>2 DEF AskedInv, ExcludedWereAsked, AskedAreExcluded
  <2>6. QED BY <2>4, <2>5 DEF AskedInv
<1>2. ASSUME NEW e \in RouterErrors, RouterFails(e) PROVE AskedInv'
  <2>1. CASE ReusePrevious(e)
    <3> DEFINE n == Last(exclude)
    <3>1. /\ exclude # <<>> /\ asked' = Append(asked, n)
          /\ exclude' = Front(exclude)
      BY <2>1 DEF ReusePrevious
    <3>2. /\ n \in Eligible /\ n \in ToSet(exclude)
          /\ ToSet(exclude') \subseteq ToSet(exclude)
      BY <1>t, <3>1, ToSetOfFront
    <3>3. ToSet(asked') = ToSet(asked) \cup {n}
      BY <1>t, <3>1, <3>2, ToSetOfAppend
    <3>4. faults' = 0 => faults = 0 /\ Eligible \subseteq ToSet(exclude)
      BY <1>2, <1>t DEF RouterFails, RouterRejections
    <3>5. faults' = 0 => Eligible \subseteq ToSet(asked)
      BY <3>4 DEF AskedInv, ExcludedWereAsked
    <3> HIDE DEF n
    <3>6. ReuseOnlyAfterAll'
      BY <1>t, <3>1, <3>2, <3>4, <3>5, AskingOneMore DEF AskedInv
    <3>7. ExcludedWereAsked' /\ AskedAreExcluded'
      BY <3>2, <3>3, <3>5 DEF AskedInv, ExcludedWereAsked, AskedAreExcluded
    <3>8. QED BY <3>6, <3>7 DEF AskedInv
  <2>2. CASE NobodyToAsk(e)
    <3>1. UNCHANGED <<exclude, asked>>
      BY <2>2 DEF NobodyToAsk
    <3>2. faults' = 0 => faults = 0
      BY <1>2, <1>t DEF RouterFails
    <3>3. QED BY <3>1, <3>2
              DEF AskedInv, ExcludedWereAsked, AskedAreExcluded, ReuseOnlyAfterAll
  <2>3. QED BY <1>2, <2>1, <2>2 DEF RouterFails
<1>3. ASSUME UNCHANGED <<exclude, asked, faults>> PROVE AskedInv'
  BY <1>3 DEF AskedInv, ExcludedWereAsked, AskedAreExcluded, ReuseOnlyAfterAll
<1>4. ASSUME \/ NodeSucceeds \/ Retry \/ UNCHANGED vars
             \/ \E e \in RetryableErrors \cup FatalErrors : NodeFails(e)
      PROVE  AskedInv'
  BY <1>3, <1>4 DEF NodeSucceeds, NodeFails, Retry, vars
<1>5. QED BY <1>1, <1>2, <1>4 DEF Next, Step, Settled

(* With any number of nodes and retries: as long as the router fails only for
   want of nodes, no node is asked again before all of them were asked. *)
THEOREM ReuseAfterAll == Spec => []ReuseOnlyAfterAll
<1>1. AskedInv => ReuseOnlyAfterAll
  BY DEF AskedInv
<1>2. QED BY <1>1, TypeInvariant, AskedInit, AskedStep, PTL DEF Spec

-----------------------------------------------------------------------------
(* How the load is spread.  A node that is excluded was asked `top` times, or
   two times less if its turn is still to come; those stand behind the others in
   the list.  A node that is not excluded was asked once less than `top`: it is
   new, or it was reused and is asked once more. *)
Level(top) ==
    /\ \A i \in DOMAIN exclude : \/ Occurrences(asked, exclude[i]) = top
                                 \/ Occurrences(asked, exclude[i]) + 2 = top
    /\ \A i, j \in DOMAIN exclude :
           i < j /\ Occurrences(asked, exclude[j]) = top
               => Occurrences(asked, exclude[i]) = top
    /\ \A i, j \in DOMAIN exclude : exclude[i] = exclude[j] => i = j
    /\ \A n \in Eligible \ ToSet(exclude) : Occurrences(asked, n) + 1 = top

LevelInv == faults = 0 => \E top \in Nat : Level(top)

(* Asking a node adds one to its count and nothing to another's. *)
LEMMA OccurrencesOfAppend ==
    ASSUME NEW S, NEW s \in Seq(S), NEW x \in S
    PROVE  /\ Occurrences(Append(s, x), x) = Occurrences(s, x) + 1
           /\ \A y : y # x => Occurrences(Append(s, x), y) = Occurrences(s, y)
<1> DEFINE t == Append(s, x)
           At(u, y) == {i \in DOMAIN u : u[i] = y}
<1>1. /\ DOMAIN s = 1..Len(s) /\ Len(s) \in Nat
      /\ DOMAIN t = 1..(Len(s) + 1)
      /\ \A i \in 1..Len(s) : t[i] = s[i]
      /\ t[Len(s) + 1] = x
  BY ToSetOfAppend, LenProperties
<1> HIDE DEF t
<1>2. At(t, x) = At(s, x) \cup {Len(s) + 1} /\ Len(s) + 1 \notin At(s, x)
  BY <1>1
<1>3. IsFiniteSet(At(s, x))
  <2>1. IsFiniteSet(1..Len(s)) /\ At(s, x) \subseteq 1..Len(s)
    BY <1>1, FS_Interval
  <2>2. QED BY ONLY <2>1, FS_Subset
<1>4. Cardinality(At(t, x)) = Cardinality(At(s, x)) + 1
  BY <1>2, <1>3, FS_AddElement
<1>5. ASSUME NEW y, y # x PROVE At(t, y) = At(s, y)
  BY <1>1, <1>5
<1>6. QED BY <1>4, <1>5 DEF Occurrences, t

LEMMA LevelInit == Init => LevelInv
<1> SUFFICES ASSUME Init PROVE Level(1)
  BY DEF LevelInv
<1>1. asked = <<>> /\ exclude = <<>> /\ DOMAIN asked = {} /\ DOMAIN exclude = {}
  BY DEF Init
<1>2. ASSUME NEW n \in Eligible PROVE Occurrences(asked, n) = 0
  <2>1. {i \in DOMAIN asked : asked[i] = n} = {}
    BY <1>1
  <2>2. QED BY <2>1, FS_EmptySet DEF Occurrences
<1>3. QED BY <1>1, <1>2 DEF Level

(* A new node goes to the front with the highest count. *)
LEMMA SelectionKeepsLevel ==
    ASSUME TypeInv, NEW n \in Eligible, RouterSelects(n), NEW top \in Nat, Level(top)
    PROVE  Level(top)'
<1>1. /\ n \notin ToSet(exclude) /\ exclude' = Unshift(exclude, n)
      /\ asked' = Append(asked, n)
      /\ asked \in Seq(Eligible) /\ exclude \in Seq(Eligible)
  BY DEF RouterSelects, TypeInv, TypeOK
<1>2. /\ Occurrences(asked', n) = Occurrences(asked, n) + 1
      /\ \A m \in Eligible : m # n => Occurrences(asked', m) = Occurrences(asked, m)
      /\ \A m \in Eligible : Occurrences(asked, m) \in Nat
  BY <1>1, OccurrencesOfAppend, OccurrencesIsNat
<1>3. /\ DOMAIN exclude = 1..Len(exclude) /\ Len(exclude) \in Nat
      /\ \A i \in DOMAIN exclude : exclude[i] \in Eligible /\ exclude[i] # n
  BY <1>1, LenProperties, ElementOfSeq DEF ToSet
<1>4. /\ DOMAIN exclude' = 1..(Len(exclude) + 1)
      /\ exclude'[1] = n
      /\ \A i \in 2..(Len(exclude) + 1) : exclude'[i] = exclude[i - 1]
  <2>1. /\ <<n>> \in Seq(Eligible) /\ Len(<<n>>) = 1 /\ <<n>>[1] = n
    OBVIOUS
  <2>2. /\ exclude' \in Seq(Eligible) /\ Len(exclude') = Len(exclude) + 1
        /\ \A i \in 1..(Len(exclude) + 1) :
               exclude'[i] = IF i = 1 THEN n ELSE exclude[i - 1]
    BY <1>1, <1>3, <2>1, ConcatProperties DEF Unshift
  <2>3. QED BY <1>3, <2>2, LenProperties
<1>5. \A i \in DOMAIN exclude' :
          \/ i = 1
          \/ /\ i - 1 \in DOMAIN exclude /\ exclude'[i] = exclude[i - 1]
             /\ exclude'[i] # n
             /\ Occurrences(asked', exclude'[i]) = Occurrences(asked, exclude[i - 1])
  BY <1>2, <1>3, <1>4
<1>6. Occurrences(asked', n) = top
  BY <1>1, <1>2 DEF Level
<1>7. ToSet(exclude') = ToSet(exclude) \cup {n}
  BY <1>1, ToSetOfUnshift
<1>8. \A m \in Eligible \ ToSet(exclude') : Occurrences(asked', m) + 1 = top
  BY <1>2, <1>7 DEF Level
<1>9. \A i \in DOMAIN exclude' :
          \/ Occurrences(asked', exclude'[i]) = top
          \/ Occurrences(asked', exclude'[i]) + 2 = top
  BY <1>4, <1>5, <1>6 DEF Level
<1>10. ASSUME NEW i \in DOMAIN exclude', NEW j \in DOMAIN exclude', i < j,
              Occurrences(asked', exclude'[j]) = top
       PROVE  Occurrences(asked', exclude'[i]) = top
  <2>1. CASE i = 1
    BY <1>4, <1>6, <2>1
  <2>2. CASE i # 1
    <3>1. j # 1 /\ i - 1 < j - 1
      BY <1>4, <1>10, <2>2
    <3>2. QED BY <1>5, <1>10, <2>2, <3>1 DEF Level
  <2>3. QED BY <2>1, <2>2
<1>11. ASSUME NEW i \in DOMAIN exclude', NEW j \in DOMAIN exclude', exclude'[i] = exclude'[j]
       PROVE  i = j
  <2>1. CASE i # 1 /\ j # 1
    <3>1. i - 1 = j - 1
      BY <1>5, <1>11, <2>1 DEF Level
    <3>2. QED BY <1>4, <3>1
  <2>2. QED BY <1>4, <1>5, <1>11, <2>1
<1>12. QED BY <1>8, <1>9, <1>10, <1>11 DEF Level

(* The oldest excluded node is one of the least asked; when all were asked as
   often, the next round begins with it. *)
LEMMA ReuseKeepsLevel ==
    ASSUME TypeInv, NEW e, ReusePrevious(e), Eligible \subseteq ToSet(exclude),
           NEW top \in Nat, Level(top)
    PROVE  \E next \in Nat : Level(next)'
<1> DEFINE last == Len(exclude)
           n == exclude[last]
<1>1. /\ exclude # <<>> /\ exclude' = Front(exclude) /\ asked' = Append(asked, n)
      /\ asked \in Seq(Eligible) /\ exclude \in Seq(Eligible)
  BY DEF ReusePrevious, TypeInv, TypeOK, Last
<1>2. /\ DOMAIN exclude = 1..last /\ last \in Nat \ {0} /\ last \in DOMAIN exclude
      /\ \A i \in DOMAIN exclude : exclude[i] \in Eligible
  BY <1>1, LenProperties, EmptySeq, ElementOfSeq
<1>3. /\ Occurrences(asked', n) = Occurrences(asked, n) + 1 /\ n \in Eligible
      /\ \A m \in Eligible : m # n => Occurrences(asked', m) = Occurrences(asked, m)
      /\ \A m \in Eligible : Occurrences(asked, m) \in Nat
  BY <1>1, <1>2, OccurrencesOfAppend, OccurrencesIsNat
<1>4. /\ DOMAIN exclude' = 1..(last - 1)
      /\ \A i \in 1..(last - 1) : exclude'[i] = exclude[i]
  <2>1. \A i \in 1..(last - 1) : exclude[i] \in Eligible
    BY <1>2
  <2>2. /\ SubSeq(exclude, 1, last - 1) \in Seq(Eligible)
        /\ Len(SubSeq(exclude, 1, last - 1)) =
               IF 1 <= last - 1 THEN (last - 1) - 1 + 1 ELSE 0
        /\ \A i \in 1..((last - 1) - 1 + 1) :
               SubSeq(exclude, 1, last - 1)[i] = exclude[1 + i - 1]
    BY <1>2, <2>1, SubSeqProperties
  <2>3. exclude' \in Seq(Eligible) /\ Len(exclude') = last - 1
        /\ \A i \in 1..(last - 1) : exclude'[i] = exclude[i]
    BY <1>1, <1>2, <2>2 DEF Front
  <2>4. QED BY <2>3, LenProperties
<1>5. \A i \in DOMAIN exclude' :
          /\ i \in DOMAIN exclude /\ i < last /\ exclude'[i] = exclude[i]
          /\ exclude[i] # n
          /\ Occurrences(asked', exclude'[i]) = Occurrences(asked, exclude[i])
  BY <1>2, <1>3, <1>4 DEF Level
<1>6. \A m \in Eligible \ ToSet(exclude') : m = n
  <2>1. ASSUME NEW m \in Eligible, m # n PROVE m \in ToSet(exclude')
    <3>1. PICK i \in DOMAIN exclude : exclude[i] = m
      BY <2>1 DEF ToSet
    <3>2. i # last
      BY <2>1, <3>1
    <3>3. i \in DOMAIN exclude' /\ exclude'[i] = m
      BY <1>2, <1>4, <3>1, <3>2
    <3>4. QED BY <3>3 DEF ToSet
  <2>2. QED BY <2>1
<1>7. \A i, j \in DOMAIN exclude' : exclude'[i] = exclude'[j] => i = j
  BY <1>5 DEF Level
<1> HIDE DEF n
<1>8. CASE Occurrences(asked, n) + 2 = top
  <2>1. Level(top)'
    BY <1>3, <1>5, <1>6, <1>7, <1>8 DEF Level
  <2>2. QED BY <2>1
<1>9. CASE Occurrences(asked, n) = top
  <2>1. \A i \in DOMAIN exclude' : Occurrences(asked', exclude'[i]) = top
    BY <1>2, <1>5, <1>9 DEF Level, n
  <2>2. Level(top + 2)'
    BY <1>3, <1>6, <1>7, <1>9, <2>1 DEF Level
  <2>3. QED BY <2>2
<1>10. QED BY <1>2, <1>8, <1>9 DEF Level, n

LEMMA LevelStep == TypeInv /\ LevelInv /\ [Next]_vars => LevelInv'
<1> SUFFICES ASSUME TypeInv, LevelInv, [Next]_vars, faults' = 0
             PROVE  \E top \in Nat : Level(top)'
  BY DEF LevelInv
<1>t. faults \in Nat
  BY DEF TypeInv, TypeOK
<1>1. ASSUME NEW n \in Eligible, RouterSelects(n) PROVE \E top \in Nat : Level(top)'
  <2>1. PICK top \in Nat : Level(top)
    BY <1>1 DEF RouterSelects, LevelInv
  <2>2. QED BY <1>1, <2>1, SelectionKeepsLevel
<1>2. ASSUME faults = 0, UNCHANGED <<exclude, asked>> PROVE \E top \in Nat : Level(top)'
  <2>1. PICK top \in Nat : Level(top)
    BY <1>2 DEF LevelInv
  <2>2. Level(top)'
    BY <1>2, <2>1 DEF Level
  <2>3. QED BY <2>2
<1>3. ASSUME NEW e \in RouterErrors, RouterFails(e) PROVE \E top \in Nat : Level(top)'
  <2>1. faults = 0 /\ Eligible \subseteq ToSet(exclude)
    BY <1>t, <1>3 DEF RouterFails, RouterRejections
  <2>2. CASE ReusePrevious(e)
    <3>1. PICK top \in Nat : Level(top)
      BY <2>1 DEF LevelInv
    <3>2. QED BY <2>1, <2>2, <3>1, ReuseKeepsLevel
  <2>3. CASE NobodyToAsk(e)
    BY <1>2, <2>1, <2>3 DEF NobodyToAsk
  <2>4. QED BY <1>3, <2>2, <2>3 DEF RouterFails
<1>4. ASSUME \/ NodeSucceeds \/ Retry \/ UNCHANGED vars
             \/ \E e \in RetryableErrors \cup FatalErrors : NodeFails(e)
      PROVE  \E top \in Nat : Level(top)'
  BY <1>2, <1>4 DEF NodeSucceeds, NodeFails, Retry, vars
<1>5. QED BY <1>1, <1>3, <1>4 DEF Next, Step, Settled

(* With any number of nodes and retries: as long as the router fails only for
   want of nodes, no node is asked three times more than another. *)
THEOREM BalancedLoad == Spec => []LoadIsBalanced
<1>1. TypeInv /\ LevelInv => LoadIsBalanced
  <2> SUFFICES ASSUME TypeInv, LevelInv, faults = 0,
                      NEW m \in Eligible, NEW n \in Eligible
               PROVE  Occurrences(asked, m) <= Occurrences(asked, n) + 2
    BY DEF LoadIsBalanced
  <2>1. PICK top \in Nat : Level(top)
    BY DEF LevelInv
  <2>2. ASSUME NEW k \in Eligible
        PROVE  /\ Occurrences(asked, k) \in Nat
               /\ \/ Occurrences(asked, k) = top
                  \/ Occurrences(asked, k) + 1 = top
                  \/ Occurrences(asked, k) + 2 = top
    <3>1. Occurrences(asked, k) \in Nat
      BY OccurrencesIsNat DEF TypeInv, TypeOK
    <3>2. CASE k \in ToSet(exclude)
      BY <2>1, <3>1, <3>2 DEF Level, ToSet
    <3>3. CASE k \notin ToSet(exclude)
      BY <2>1, <3>1, <3>3 DEF Level
    <3>4. QED BY <3>1, <3>2, <3>3
  <2>3. QED BY <2>2
<1>2. QED BY <1>1, TypeInvariant, LevelInit, LevelStep, PTL DEF Spec

-----------------------------------------------------------------------------
(* The operation implements the contract RetryContract states. *)
LEMMA ContractInit == Init => Contract!Init
  BY EmptySeq DEF Init, Contract!Init, Pending

LEMMA ContractStep == TypeInv /\ TypeInv' /\ [Next]_vars => [Contract!Next]_Contract!vars
<1> SUFFICES ASSUME TypeInv, TypeInv', [Next]_vars
             PROVE  Contract!Next \/ UNCHANGED Contract!vars
  OBVIOUS
<1> USE RetriesAssumption DEF TypeInv, AttemptLeft, DoneIsSettled
<1>t. /\ attempt \in 1..(Retries + 1)
      /\ asked \in Seq(Eligible) /\ exclude \in Seq(Eligible)
      /\ outcome \in {Pending, Fulfilled} \cup {Rejected(e) : e \in Errors}
  BY DEF TypeOK
<1>1. ASSUME NEW n \in Eligible, RouterSelects(n) PROVE Contract!Ask
  <2>1. Len(asked') = Len(asked) + 1
    BY <1>1, <1>t, AppendProperties DEF RouterSelects
  <2>2. QED BY <1>1, <1>t, <2>1 DEF RouterSelects, Contract!Ask
<1>2. ASSUME NEW e \in RouterErrors, RouterFails(e)
      PROVE  Contract!Ask \/ Contract!FindNobody
  <2>1. pc = "routing" /\ outcome.state = "pending"
    BY <1>2 DEF RouterFails
  <2>2. CASE ReusePrevious(e)
    <3>1. Len(asked') = Len(asked) + 1
      BY <2>2, <1>t, ToSetOfFront, AppendProperties DEF ReusePrevious
    <3>2. Contract!Ask
      BY <1>t, <2>1, <2>2, <3>1 DEF ReusePrevious, Contract!Ask
    <3>3. QED BY <3>2
  <2>3. CASE NobodyToAsk(e)
    <3>1. AttemptThrows(NoNodeError(lastOperationError, e)) /\ UNCHANGED <<attempt, asked>>
      BY <2>3 DEF NobodyToAsk
    <3>2. Contract!FindNobody
      BY <1>t, <2>1, <3>1
      DEF AttemptThrows, Rejected, Contract!FindNobody, Contract!AfterFailure
    <3>3. QED BY <3>2
  <2>4. QED BY <1>2, <2>2, <2>3 DEF RouterFails
<1>3. ASSUME NodeSucceeds PROVE Contract!Answer("value")
  BY <1>3, <1>t DEF NodeSucceeds, Fulfilled, Contract!Answer
<1>4. ASSUME NEW e \in RetryableErrors \cup FatalErrors, NodeFails(e)
      PROVE  Contract!FailForNow \/ Contract!Answer("error")
  <2>1. pc = "calling" /\ outcome.state = "pending" /\ UNCHANGED <<attempt, asked>>
    BY <1>4 DEF NodeFails
  <2>2. CASE AttemptThrows(e)
    BY <1>t, <2>1, <2>2
    DEF AttemptThrows, Rejected, Contract!FailForNow, Contract!AfterFailure
  <2>3. CASE pc' = "done" /\ outcome' = Rejected(e)
    BY <1>t, <2>1, <2>3 DEF Rejected, Contract!Answer
  <2>4. QED BY <1>4, <2>2, <2>3 DEF NodeFails
<1>5. ASSUME Retry PROVE UNCHANGED Contract!vars
  BY <1>5, <1>t DEF Retry, Contract!vars
<1>6. ASSUME UNCHANGED vars PROVE UNCHANGED Contract!vars
  BY <1>6 DEF vars, Contract!vars
<1>7. QED BY <1>1, <1>2, <1>3, <1>4, <1>5, <1>6
          DEF Next, Step, Settled, Contract!Next

(* withRetry keeps the safety part of its contract: an operation is settled
   once, by a final answer or after 1 + retries attempts, and no node is asked
   after that. *)
THEOREM KeepsContractSafety == Spec => Contract!SafetySpec
<1>1. QED BY TypeInvariant, ContractInit, ContractStep, PTL DEF Spec, Contract!SafetySpec

-----------------------------------------------------------------------------
(* Why an operation comes to an end: each attempt finds a node or gives up,
   asks it once, and is over. *)
StepsLeft == 3 * (Retries + 1 - attempt)
             + (CASE pc = "routing" -> 2 [] pc = "calling" -> 1 [] OTHER -> 0)

LEMMA StepsLeftIsNat == TypeInv => StepsLeft \in Nat
  BY RetriesAssumption DEF TypeInv, TypeOK, StepsLeft

LEMMA StepIsProgress ==
    ASSUME TypeInv, [Next]_vars
    PROVE  UNCHANGED vars \/ StepsLeft' < StepsLeft
<1> USE RetriesAssumption
<1>t. attempt \in 1..(Retries + 1)
  BY DEF TypeInv, TypeOK
<1>1. ASSUME NEW e, AttemptThrows(e), pc \in {"routing", "calling"}, UNCHANGED attempt
      PROVE  StepsLeft' < StepsLeft
  BY <1>t, <1>1 DEF AttemptThrows, StepsLeft
<1>2. ASSUME NEW n \in Eligible, RouterSelects(n) PROVE StepsLeft' < StepsLeft
  BY <1>t, <1>2 DEF RouterSelects, StepsLeft
<1>3. ASSUME NEW e \in RouterErrors, RouterFails(e) PROVE StepsLeft' < StepsLeft
  <2>1. CASE ReusePrevious(e)
    BY <1>t, <1>3, <2>1 DEF RouterFails, ReusePrevious, StepsLeft
  <2>2. CASE NobodyToAsk(e)
    BY <1>1, <1>3, <2>2 DEF RouterFails, NobodyToAsk
  <2>3. QED BY <1>3, <2>1, <2>2 DEF RouterFails
<1>4. ASSUME NodeSucceeds PROVE StepsLeft' < StepsLeft
  BY <1>t, <1>4 DEF NodeSucceeds, StepsLeft
<1>5. ASSUME NEW e \in RetryableErrors \cup FatalErrors, NodeFails(e)
      PROVE  StepsLeft' < StepsLeft
  <2>1. CASE AttemptThrows(e)
    BY <1>1, <1>5, <2>1 DEF NodeFails
  <2>2. CASE pc' = "done"
    BY <1>t, <1>5, <2>2 DEF NodeFails, StepsLeft
  <2>3. QED BY <1>5, <2>1, <2>2 DEF NodeFails
<1>6. ASSUME Retry PROVE StepsLeft' < StepsLeft
  BY <1>t, <1>6 DEF Retry, StepsLeft
<1>7. QED BY <1>2, <1>3, <1>4, <1>5, <1>6 DEF Next, Step, Settled

(* The safety half of termination, for any number of retries: every step of
   withRetry uses up some of what the operation has left, whatever the router
   and the nodes answer and however errors of the two kinds alternate, so it
   takes at most 3 * retries + 2 steps.  What fairness adds is that it takes
   them. *)
THEOREM OperationsRunOut ==
    Spec => [](StepsLeft \in Nat) /\ [][StepsLeft' < StepsLeft]_vars
<1>1. TypeInv /\ [Next]_vars => [StepsLeft' < StepsLeft]_vars
  BY StepIsProgress
<1>2. QED BY <1>1, TypeInvariant, StepsLeftIsNat, PTL DEF Spec

-----------------------------------------------------------------------------
(* Storing, for any number of chunks and kinds of content. *)

(* Every step of the detailed client is a step of BalancedNode, or leaves
   its state alone. *)
LEMMA StoreStepImplements == NextStore => [Next]_vars
<1> SUFFICES ASSUME NextStore PROVE Next \/ UNCHANGED vars
  OBVIOUS
<1>1. CASE ChooseNode
  BY <1>1 DEF ChooseNode, Next, Step
<1>2. CASE NextAttempt
  BY <1>2 DEF NextAttempt, Next, Step
<1>3. CASE OpenThrows
  BY <1>3, StorePieceAssumption DEF OpenThrows, Next, Step
<1>4. CASE ReadThrows
  BY <1>4, StorePieceAssumption DEF ReadThrows, Next, Step
<1>5. CASE PieceStored
  BY <1>5 DEF PieceStored, Next, Step
<1>6. CASE NameStored
  BY <1>6 DEF NameStored, Next, Step
<1>7. ASSUME NEW e \in (RetryableErrors \cup FatalErrors) \ {StreamLocked, BadSize},
             CallFails(e)
      PROVE  Next \/ UNCHANGED vars
  BY <1>7 DEF CallFails, Next, Step
<1>8. CASE OpenStream \/ OpenUnary \/ HeadersArrive \/ SendChunk \/ FinishSending
           \/ Prefetch \/ (\E r \in inflight : NodeApplies(r))
  BY <1>8 DEF OpenStream, OpenUnary, HeadersArrive, SendChunk, FinishSending,
              Prefetch, NodeApplies
<1>9. CASE Idle
  BY <1>9 DEF Idle, Settled
<1>10. QED BY <1>1, <1>2, <1>3, <1>4, <1>5, <1>6, <1>7, <1>8, <1>9
           DEF NextStore, ClientStep

(* Storing implements BalancedNode, so all that is proved of an operation
   holds of it. *)
THEOREM StoreImplementsBalancedNode == StoreSpec => Spec
<1>1. InitStore => Init
  BY DEF InitStore
<1>2. [NextStore]_allVars => [Next]_vars
  BY StoreStepImplements DEF allVars
<1>3. QED BY <1>1, <1>2, PTL DEF StoreSpec, Spec

-----------------------------------------------------------------------------
(* Why no name dangles: the request for the name is completed only by an
   attempt the node has answered, and a piece request that is not in flight
   any more has been applied. *)
Calling == body # "none" => pc = "calling"

AskedIsEligible == pc = "calling" => node \in Eligible

Stores == /\ pieces \in [Eligible -> SUBSET Seq(Nat)]
          /\ records \in [Eligible -> SUBSET Seq(Nat)]
          /\ sent \in Seq(Nat)

RequestsTyped ==
    \A r \in inflight : /\ r.node \in Eligible /\ r.content \in Seq(Nat)
                        /\ r.what \in {"piece", "name"}
                        /\ r = Request(r.node, r.what, r.content)

AnswerMeansApplied ==
    /\ body = "answer" => \/ Request(node, "piece", sent) \in inflight
                          \/ sent \in pieces[node]
    /\ body = "naming" => sent \in pieces[node]

NamesFollowPieces ==
    \A r \in inflight : r.what = "name" => r.content \in pieces[r.node]

StoreInv == /\ Calling /\ AskedIsEligible /\ Stores /\ RequestsTyped
            /\ AnswerMeansApplied /\ NamesFollowPieces /\ NoDanglingName

LEMMA StoreInit == InitStore => StoreInv
  BY EmptySeq
  DEF InitStore, Init, StoreInv, Calling, AskedIsEligible, Stores,
      RequestsTyped, AnswerMeansApplied, NamesFollowPieces, NoDanglingName

(* A request is told from another one by each of its parts. *)
LEMMA RequestParts ==
    ASSUME NEW n, NEW w, NEW c
    PROVE  /\ Request(n, w, c).node = n
           /\ Request(n, w, c).what = w
           /\ Request(n, w, c).content = c
  BY DEF Request

(* Between two calls nothing that StoreInv says of the nodes can change. *)
LEMMA NoCallNoChange ==
    ASSUME StoreInv, body' = "none",
           AskedIsEligible', sent' \in Seq(Nat),
           UNCHANGED servers
    PROVE  StoreInv'
  BY DEF StoreInv, Calling, AskedIsEligible, Stores, RequestsTyped,
         AnswerMeansApplied, NamesFollowPieces, NoDanglingName, servers

LEMMA WholeIsSeq == total \in Nat => Whole \in Seq(Nat)
  BY DEF Whole

LEMMA StoreStep ==
    TypeInv /\ StoreInv /\ total \in Nat /\ cursor \in Nat /\ [NextStore]_allVars => StoreInv'
<1> SUFFICES ASSUME TypeInv, StoreInv, total \in Nat, cursor \in Nat,
                    [NextStore]_allVars
             PROVE  StoreInv'
  OBVIOUS
<1> USE DEF input, client, servers, storeVars
<1> DEFINE I == /\ Calling /\ AskedIsEligible /\ Stores /\ RequestsTyped
                /\ AnswerMeansApplied /\ NamesFollowPieces /\ NoDanglingName
<1>i. Calling /\ AskedIsEligible /\ Stores /\ RequestsTyped
      /\ AnswerMeansApplied /\ NamesFollowPieces /\ NoDanglingName
  BY DEF StoreInv
<1>1. CASE ChooseNode
  <2>1. pc = "routing" /\ body = "none" /\ body' = "none" /\ UNCHANGED storeVars
    BY <1>1, <1>i DEF ChooseNode, RouterSelects, RouterFails, Calling
  <2>2. AskedIsEligible'
    <3>1. ASSUME NEW n \in Eligible, RouterSelects(n) PROVE AskedIsEligible'
      BY <3>1 DEF RouterSelects, AskedIsEligible
    <3>2. ASSUME NEW e \in RouterErrors, RouterFails(e) PROVE AskedIsEligible'
      <4>1. CASE ReusePrevious(e)
        BY <4>1, ToSetOfFront DEF ReusePrevious, AskedIsEligible, TypeInv, TypeOK
      <4>2. CASE NobodyToAsk(e)
        BY <4>2 DEF NobodyToAsk, AttemptThrows, AskedIsEligible
      <4>3. QED BY <3>2, <4>1, <4>2 DEF RouterFails
    <3>3. QED BY <1>1, <3>1, <3>2 DEF ChooseNode
  <2>3. QED BY <1>i, <2>1, <2>2, NoCallNoChange DEF Stores
<1>2. CASE NextAttempt
  <2>1. body' = "none" /\ UNCHANGED storeVars /\ pc' = "routing"
    BY <1>2, <1>i DEF NextAttempt, Retry, Calling
  <2>2. QED BY <1>i, <2>1, NoCallNoChange DEF Stores, AskedIsEligible
<1>3. ASSUME NEW e, NodeFails(e), body' = "none", UNCHANGED <<sent, servers>>
      PROVE  StoreInv'
  <2>1. AskedIsEligible'
    BY <1>3, <1>i DEF NodeFails, AskedIsEligible
  <2>2. QED BY <1>3, <1>i, <2>1, NoCallNoChange DEF Stores
<1>4. CASE OpenThrows
  BY <1>3, <1>4 DEF OpenThrows
<1>5. CASE ReadThrows
  BY <1>3, <1>5 DEF ReadThrows
<1>6. ASSUME NEW e, CallFails(e) PROVE StoreInv'
  BY <1>3, <1>6 DEF CallFails
<1>7. CASE OpenStream
  BY <1>7, <1>i, EmptySeq
  DEF OpenStream, vars, StoreInv, Calling, AskedIsEligible, Stores,
      RequestsTyped, AnswerMeansApplied, NamesFollowPieces, NoDanglingName
<1>8. CASE HeadersArrive \/ Prefetch \/ Idle \/ UNCHANGED allVars
  BY <1>8, <1>i
  DEF HeadersArrive, Prefetch, Idle, Settled, allVars, vars, StoreInv, Calling,
      AskedIsEligible, Stores, RequestsTyped, AnswerMeansApplied,
      NamesFollowPieces, NoDanglingName
<1>9. CASE SendChunk
  <2>1. sent' \in Seq(Nat)
    BY <1>9, <1>i, AppendProperties DEF SendChunk, Stores
  <2>2. QED BY <1>9, <1>i, <2>1
            DEF SendChunk, vars, StoreInv, Calling, AskedIsEligible, Stores,
                RequestsTyped, AnswerMeansApplied, NamesFollowPieces, NoDanglingName
<1>10. ASSUME NEW c \in Seq(Nat),
              pc = "calling", UNCHANGED <<vars, pieces, records>>,
              sent' = c, body' = "answer",
              inflight' = inflight \cup {Request(node, "piece", c)}
       PROVE  StoreInv'
  <2>1. node \in Eligible /\ node' = node /\ pc' = pc
    BY <1>10, <1>i DEF AskedIsEligible, vars
  <2>2. RequestsTyped' /\ NamesFollowPieces'
    BY <1>10, <1>i, <2>1, RequestParts DEF RequestsTyped, NamesFollowPieces
  <2>3. AnswerMeansApplied'
    BY <1>10, <2>1 DEF AnswerMeansApplied
  <2>4. QED BY <1>10, <1>i, <2>1, <2>2, <2>3
            DEF StoreInv, Calling, AskedIsEligible, Stores, NoDanglingName
<1>11. CASE OpenUnary
  BY <1>10, <1>11, WholeIsSeq DEF OpenUnary
<1>12. CASE FinishSending
  BY <1>10, <1>12, <1>i DEF FinishSending, Stores, Calling
<1>13. ASSUME NEW r \in inflight, NodeApplies(r) PROVE StoreInv'
  <2>1. /\ r.node \in Eligible /\ r.content \in Seq(Nat)
        /\ inflight' = inflight \ {r}
        /\ UNCHANGED <<vars, body, sent>>
        /\ UNCHANGED <<node, pc>>
    BY <1>13, <1>i DEF NodeApplies, RequestsTyped, vars
  <2>2. CASE r.what = "piece"
    <3>1. /\ pieces' = [pieces EXCEPT ![r.node] = @ \cup {r.content}]
          /\ records' = records
      BY <1>13, <2>2 DEF NodeApplies
    <3>2. /\ pieces' \in [Eligible -> SUBSET Seq(Nat)]
          /\ \A n \in Eligible : pieces[n] \subseteq pieces'[n]
          /\ r.content \in pieces'[r.node]
      BY <2>1, <3>1, <1>i DEF Stores
    <3>3. AnswerMeansApplied'
      <4>1. CASE body = "answer" /\ Request(node, "piece", sent) = r
        BY <2>1, <3>2, <4>1, RequestParts DEF AnswerMeansApplied
      <4>2. CASE ~(body = "answer" /\ Request(node, "piece", sent) = r)
        BY <2>1, <3>2, <4>2, <1>i DEF AnswerMeansApplied, Calling, AskedIsEligible
      <4>3. QED BY <4>1, <4>2
    <3>4. RequestsTyped' /\ NamesFollowPieces'
      BY <2>1, <3>2, <1>i DEF RequestsTyped, NamesFollowPieces
    <3>5. NoDanglingName'
      BY <3>1, <3>2, <1>i DEF NoDanglingName
    <3>6. QED BY <2>1, <3>1, <3>2, <3>3, <3>4, <3>5, <1>i
              DEF StoreInv, Calling, AskedIsEligible, Stores
  <2>3. CASE r.what = "name"
    <3>1. /\ records' = [records EXCEPT ![r.node] = @ \cup {r.content}]
          /\ pieces' = pieces
      BY <1>13, <2>3 DEF NodeApplies
    <3>2. r.content \in pieces[r.node]
      BY <2>3, <1>i DEF NamesFollowPieces
    <3>3. records' \in [Eligible -> SUBSET Seq(Nat)]
      BY <2>1, <3>1, <1>i DEF Stores
    <3>4. NoDanglingName'
      BY <2>1, <3>1, <3>2, <1>i DEF NoDanglingName, Stores
    <3>5. r # Request(node, "piece", sent)
      BY <2>3, RequestParts
    <3>6. AnswerMeansApplied'
      BY <2>1, <3>1, <3>5, <1>i DEF AnswerMeansApplied
    <3>7. RequestsTyped' /\ NamesFollowPieces'
      BY <2>1, <3>1, <1>i DEF RequestsTyped, NamesFollowPieces
    <3>8. QED BY <2>1, <3>1, <3>3, <3>4, <3>6, <3>7, <1>i
              DEF StoreInv, Calling, AskedIsEligible, Stores
  <2>4. QED BY <1>13, <2>2, <2>3 DEF NodeApplies
<1>14. CASE PieceStored
  <2>1. /\ body = "answer" /\ pc = "calling" /\ node \in Eligible
        /\ sent \in pieces[node]
        /\ UNCHANGED <<sent, pieces, records>>
    BY <1>14, <1>i DEF PieceStored, Calling, AskedIsEligible, AnswerMeansApplied
  <2>2. CASE /\ named /\ body' = "naming" /\ UNCHANGED vars
             /\ inflight' = inflight \cup {Request(node, "name", sent)}
    <3>1. node' = node /\ pc' = pc
      BY <2>2 DEF vars
    <3>2. RequestsTyped' /\ NamesFollowPieces'
      BY <2>1, <2>2, <1>i, RequestParts
      DEF RequestsTyped, NamesFollowPieces, Stores
    <3>3. QED BY <2>1, <2>2, <3>1, <3>2, <1>i
              DEF StoreInv, Calling, AskedIsEligible, Stores, AnswerMeansApplied,
                  NoDanglingName
  <2>3. CASE NodeSucceeds /\ body' = "none" /\ UNCHANGED inflight
    <3>1. AskedIsEligible'
      BY <2>3 DEF NodeSucceeds, AskedIsEligible
    <3>2. QED BY <2>1, <2>3, <3>1, <1>i, NoCallNoChange DEF Stores
  <2>4. QED BY <1>14, <2>2, <2>3 DEF PieceStored
<1>15. CASE NameStored
  <2>1. AskedIsEligible' /\ body' = "none" /\ UNCHANGED <<sent, servers>>
    BY <1>15 DEF NameStored, NodeSucceeds, AskedIsEligible
  <2>2. QED BY <2>1, <1>i, NoCallNoChange DEF Stores
<1>16. QED
  BY <1>1, <1>2, <1>4, <1>5, <1>6, <1>7, <1>8, <1>9, <1>11, <1>12, <1>13,
     <1>14, <1>15
  DEF NextStore, ClientStep

(* The values of the other variables, which the proofs above need only as
   numbers. *)
InputTypes ==
    /\ kind \in Kinds /\ total \in 0..MaxTotal /\ named \in BOOLEAN
    /\ sized \in BOOLEAN
    /\ body \in {"none", "headers", "sending", "answer", "naming"}
    /\ cursor \in 0..total
    /\ locked \in BOOLEAN
    /\ prefetched \in 0..2

LEMMA InputTypesInvariant == StoreSpec => []InputTypes
<1>1. InitStore => InputTypes
  BY StorePieceAssumption DEF InitStore, InputTypes, SizeGiven
<1>2. InputTypes /\ [NextStore]_allVars => InputTypes'
  <2> SUFFICES ASSUME InputTypes, [NextStore]_allVars PROVE InputTypes'
    OBVIOUS
  <2> USE StorePieceAssumption DEF input, client, servers, storeVars, InputTypes
  <2>1. CASE ChooseNode \/ NextAttempt \/ OpenThrows \/ Idle \/ UNCHANGED allVars
    BY <2>1 DEF ChooseNode, NextAttempt, OpenThrows, Idle, allVars
  <2>2. CASE OpenStream \/ OpenUnary
    BY <2>2 DEF OpenStream, CursorOfClone, OpenUnary
  <2>h. CASE HeadersArrive
    <3>1. locked' \in BOOLEAN
      BY <2>h DEF HeadersArrive
    <3>2. QED BY <2>h, <3>1 DEF HeadersArrive
  <2>s. CASE SendChunk
    <3>1. total \in Nat /\ cursor \in Nat /\ cursor < total /\ cursor' = cursor + 1
      BY <2>s DEF SendChunk
    <3>2. cursor' \in 0..total
      BY <3>1
    <3>3. UNCHANGED <<input, body, locked, prefetched>>
      BY <2>s DEF SendChunk
    <3>4. QED BY <3>2, <3>3
  <2>f. CASE FinishSending
    BY <2>f DEF FinishSending
  <2>3. CASE ReadThrows \/ PieceStored \/ NameStored \/ (\E e : CallFails(e))
    BY <2>3 DEF ReadThrows, PieceStored, NameStored, CallFails
  <2>4. CASE \E r \in inflight : NodeApplies(r)
    BY <2>4 DEF NodeApplies
  <2>p. CASE Prefetch
    BY <2>p DEF Prefetch
  <2>5. QED BY <2>1, <2>2, <2>h, <2>s, <2>f, <2>3, <2>4, <2>p DEF NextStore, ClientStep
<1>3. QED BY <1>1, <1>2, PTL DEF StoreSpec

LEMMA StoreInvariant == StoreSpec => [](TypeInv /\ StoreInv /\ InputTypes)
<1>1. InputTypes => total \in Nat /\ cursor \in Nat
  BY StorePieceAssumption DEF InputTypes
<1>2. QED BY <1>1, StoreImplementsBalancedNode, TypeInvariant, StoreInit,
             StoreStep, InputTypesInvariant, PTL DEF StoreSpec

(* The type invariant of the detailed client and its nodes. *)
THEOREM StoreTypeCorrect == StoreSpec => []StoreTypeOK
<1>1. StoreInv /\ InputTypes => StoreTypeOK
  BY DEF StoreInv, InputTypes, StoreTypeOK, Calling, AskedIsEligible, Stores,
         RequestsTyped
<1>2. QED BY <1>1, StoreInvariant, PTL

(* Whatever fails, is retried on another node or is applied late: a node that
   has a record for the name has the piece the record names. *)
THEOREM NamesNeverDangle == StoreSpec => []NoDanglingName
<1>1. StoreInv => NoDanglingName
  BY DEF StoreInv
<1>2. QED BY <1>1, StoreInvariant, PTL

-----------------------------------------------------------------------------
(* Why a store comes to an end.  Within an attempt chunks and stages run out;
   an attempt on bytes begins with all of them again. *)
StoreStepsLeft ==
    (IF body = "none" THEN total ELSE total - cursor)
    + (2 - prefetched)
    + (CASE body = "none" -> 4 [] body = "headers" -> 3 [] body = "sending" -> 2
         [] body = "answer" -> 1 [] OTHER -> 0)

StoreRunsOut ==
    \/ StepsLeft' < StepsLeft
    \/ StepsLeft' = StepsLeft /\ StoreStepsLeft' < StoreStepsLeft

LEMMA StoreStepsLeftIsNat == InputTypes => StoreStepsLeft \in Nat
  BY StorePieceAssumption DEF InputTypes, StoreStepsLeft

LEMMA StoreStepIsProgress ==
    ASSUME TypeInv, StoreInv, InputTypes, [NextStore]_allVars
    PROVE  UNCHANGED <<vars, client>> \/ StoreRunsOut
<1>1. CASE UNCHANGED vars
  <2> USE StorePieceAssumption DEF input, client
  <2>t. total \in Nat /\ cursor \in 0..total /\ prefetched \in 0..2
    BY DEF InputTypes
  <2>s. StepsLeft' = StepsLeft
    BY <1>1 DEF vars, StepsLeft
  <2>p. UNCHANGED <<pc, attempt>>
    BY <1>1 DEF vars
  <2>1. CASE OpenStream \/ OpenUnary
    <3>1. StoreStepsLeft' < StoreStepsLeft
      BY <2>t, <2>1, SMTT(30) DEF OpenStream, OpenUnary, CursorOfClone, StoreStepsLeft
    <3>2. QED BY <2>s, <3>1 DEF StoreRunsOut
  <2>2. CASE HeadersArrive \/ SendChunk \/ FinishSending
    <3>1. StoreStepsLeft' < StoreStepsLeft
      BY <2>t, <2>2 DEF HeadersArrive, SendChunk, FinishSending, StoreStepsLeft
    <3>2. QED BY <2>s, <3>1 DEF StoreRunsOut
  <2>3. CASE Prefetch
    <3>1. StoreStepsLeft' < StoreStepsLeft
      BY <2>t, <2>3 DEF Prefetch, StoreStepsLeft
    <3>2. QED BY <2>s, <3>1 DEF StoreRunsOut
  <2>4. CASE PieceStored
    <3>1. ~NodeSucceeds
      BY <2>p DEF NodeSucceeds
    <3>2. StoreStepsLeft' < StoreStepsLeft
      BY <2>t, <2>4, <3>1 DEF PieceStored, StoreStepsLeft
    <3>3. QED BY <2>s, <3>2 DEF StoreRunsOut
  <2>5. ~(ChooseNode \/ NextAttempt \/ NameStored)
    <3>1. ~ChooseNode
      BY <2>p DEF ChooseNode, RouterSelects, RouterFails, ReusePrevious,
                  NobodyToAsk, AttemptThrows
    <3>2. ~NextAttempt /\ ~NameStored
      BY <2>p DEF NextAttempt, Retry, NameStored, NodeSucceeds
    <3>3. QED BY <3>1, <3>2
  <2>6. ASSUME NEW e PROVE ~NodeFails(e)
    BY <2>p DEF NodeFails, AttemptThrows
  <2>7. ~(OpenThrows \/ ReadThrows \/ \E e : CallFails(e))
    BY <2>6 DEF OpenThrows, ReadThrows, CallFails
  <2>8. CASE (\E r \in inflight : NodeApplies(r)) \/ Idle \/ UNCHANGED allVars
    BY <2>8 DEF NodeApplies, Idle, Settled, allVars, storeVars
  <2>9. QED BY <2>1, <2>2, <2>3, <2>4, <2>5, <2>7, <2>8 DEF NextStore, ClientStep
<1>2. CASE ~UNCHANGED vars
  <2>1. [Next]_vars
    BY StoreStepImplements DEF allVars
  <2>2. QED BY <1>2, <2>1, StepIsProgress DEF StoreRunsOut
<1>3. QED BY <1>1, <1>2

(* The safety half of termination for a store: whatever the client does, in
   the loop or inside an attempt, with the stream of the caller's piece still
   pulling beside it, brings the attempt or the operation nearer to its end;
   only what the nodes do with completed requests is not counted. *)
THEOREM StoresRunOut ==
    StoreSpec => /\ [](StepsLeft \in Nat /\ StoreStepsLeft \in Nat)
                 /\ [][StoreRunsOut]_<<vars, client>>
<1>1. TypeInv /\ InputTypes => StepsLeft \in Nat /\ StoreStepsLeft \in Nat
  BY StepsLeftIsNat, StoreStepsLeftIsNat
<1>2. TypeInv /\ StoreInv /\ InputTypes /\ [NextStore]_allVars
        => [StoreRunsOut]_<<vars, client>>
  BY StoreStepIsProgress
<1>3. QED BY <1>1, <1>2, StoreInvariant, PTL DEF StoreSpec

-----------------------------------------------------------------------------
(* Why nothing partial is stored.  Bytes, and an iterable, are read from their beginning by
   every attempt.  A content stream is read by one attempt: if that fails on
   the way, the lock it leaves keeps every other attempt out, and if it has
   sent all, another one finds nothing left. *)
Beginning(k) == [i \in 1..k |-> i]

Good(content) ==
    /\ ReadAnew => content = Whole
    /\ ReadOnce => content \in {Whole, <<>>}

SendsFromTheBeginning ==
    body \in {"headers", "sending"} =>
        /\ kind # "unary"
        /\ kind = "bytes" => total <= MaxPieceSize
        /\ ReadAnew => sent = Beginning(cursor)
        /\ ReadOnce => \/ sent = Beginning(cursor)
                       \/ sent = <<>> /\ cursor = total

LockedOnTheWay ==
    ReadOnce =>
        /\ ~locked => cursor \in {0, total}
        /\ body = "sending" => locked

GoodRequests ==
    /\ body \in {"answer", "naming"} => Good(sent)
    /\ \A r \in inflight : r.what = "piece" => Good(r.content)

GoodPieces == \A n \in Eligible : \A content \in pieces[n] : Good(content)

WholeInv == /\ SizeGiven
            /\ SendsFromTheBeginning /\ LockedOnTheWay
            /\ GoodRequests /\ GoodPieces

LEMMA BeginningOfNothing == Beginning(0) = <<>>
  BY DEF Beginning

LEMMA BeginningGrows ==
    ASSUME NEW k \in Nat
    PROVE  /\ Len(Beginning(k)) = k
           /\ Append(Beginning(k), k + 1) = Beginning(k + 1)
<1>1. Beginning(k) \in Seq(Nat) /\ Len(Beginning(k)) = k
  BY DEF Beginning
<1>2. DOMAIN Append(Beginning(k), k + 1) = 1..(k + 1)
  BY <1>1, AppendProperties
<1>3. ASSUME NEW i \in 1..(k + 1)
      PROVE  Append(Beginning(k), k + 1)[i] = i
  <2>1. CASE i = k + 1
    BY <1>1, <2>1, AppendProperties
  <2>2. CASE i \in 1..k
    BY <1>1, <2>2, AppendProperties DEF Beginning
  <2>3. i = k + 1 \/ i \in 1..k
    OBVIOUS
  <2>4. QED BY <2>1, <2>2, <2>3
<1>4. QED BY <1>1, <1>2, <1>3 DEF Beginning

LEMMA WholeInit == InitStore => WholeInv
<1> SUFFICES ASSUME InitStore PROVE WholeInv
  OBVIOUS
<1>1. SendsFromTheBeginning /\ GoodRequests
  BY DEF InitStore, SendsFromTheBeginning, GoodRequests
<1>2. LockedOnTheWay
  BY DEF InitStore, LockedOnTheWay, ReadOnce
<1>3. GoodPieces
  BY DEF InitStore, GoodPieces
<1>4. QED BY <1>1, <1>2, <1>3 DEF WholeInv, InitStore

LEMMA WholeStep ==
    InputTypes /\ StoreInv /\ WholeInv /\ [NextStore]_allVars => WholeInv'
<1> SUFFICES ASSUME InputTypes, StoreInv, WholeInv, [NextStore]_allVars
             PROVE  WholeInv'
  OBVIOUS
<1> USE DEF input, client, servers, storeVars, ReadAnew, ReadOnce, SizeGiven
<1>i. SizeGiven /\ SendsFromTheBeginning /\ LockedOnTheWay /\ GoodRequests /\ GoodPieces
  BY DEF WholeInv
<1>n. total \in Nat /\ cursor \in 0..total /\ MaxPieceSize \in Nat
  BY StorePieceAssumption DEF InputTypes
(* A call that is over, or was none, leaves the content as it is. *)
<1>1. ASSUME body' = "none", UNCHANGED <<input, cursor, locked, servers>>
      PROVE  WholeInv'
  BY <1>1, <1>i DEF WholeInv, SendsFromTheBeginning, LockedOnTheWay,
                    GoodRequests, GoodPieces, Good, Whole
<1>2. CASE ChooseNode \/ NextAttempt
  <2>1. body = "none" /\ UNCHANGED storeVars
    BY <1>2 DEF ChooseNode, NextAttempt, RouterSelects, RouterFails, Retry,
                StoreInv, Calling
  <2>2. QED BY <1>1, <2>1
<1>3. CASE OpenThrows \/ ReadThrows \/ NameStored \/ (\E e : CallFails(e))
  BY <1>1, <1>3 DEF OpenThrows, ReadThrows, NameStored, CallFails
<1>4. CASE OpenStream
  <2>1. /\ body' = "headers" /\ sent' = <<>> /\ cursor' = CursorOfClone
        /\ kind # "unary" /\ (kind = "bytes" => total <= MaxPieceSize)
        /\ UNCHANGED <<input, locked, servers>>
    <3>1. kind = "bytes" => total \in 1..MaxPieceSize
      BY <1>4, <1>i DEF OpenStream, SizeThrows
    <3>2. kind = "bytes" => total <= MaxPieceSize
      BY <3>1, <1>n
    <3>3. QED BY <1>4, <3>2 DEF OpenStream
  <2>2. kind \in {"bytes", "iterable"} => cursor' = 0
    BY <2>1 DEF CursorOfClone
  <2>3. ReadOnce => ~locked /\ cursor' = cursor /\ cursor \in {0, total}
    BY <1>4, <2>1, <1>i DEF OpenStream, CloneThrows, CursorOfClone, LockedOnTheWay
  <2>4. SendsFromTheBeginning'
    BY <2>1, <2>2, <2>3, BeginningOfNothing DEF SendsFromTheBeginning
  <2>5. LockedOnTheWay'
    BY <2>1, <2>3 DEF LockedOnTheWay
  <2>6. GoodRequests' /\ GoodPieces'
    BY <2>1, <1>i DEF GoodRequests, GoodPieces, Good, Whole
  <2>7. QED BY <1>i, <2>1, <2>4, <2>5, <2>6 DEF WholeInv
<1>5. CASE HeadersArrive
  <2>1. /\ body = "headers" /\ body' = "sending"
        /\ locked' = (locked \/ kind = "contentStream")
        /\ UNCHANGED <<input, cursor, sent, servers>>
    BY <1>5 DEF HeadersArrive
  <2>2. SendsFromTheBeginning' /\ LockedOnTheWay'
    BY <2>1, <1>i DEF SendsFromTheBeginning, LockedOnTheWay
  <2>3. GoodRequests' /\ GoodPieces'
    BY <2>1, <1>i DEF GoodRequests, GoodPieces, Good, Whole
  <2>4. QED BY <1>i, <2>1, <2>2, <2>3 DEF WholeInv
<1>6. CASE SendChunk
  <2>1. /\ body = "sending" /\ cursor < total
        /\ sent' = Append(sent, cursor + 1) /\ cursor' = cursor + 1
        /\ UNCHANGED <<input, body, locked, servers>>
    BY <1>6 DEF SendChunk
  <2>2. sent = Beginning(cursor) => sent' = Beginning(cursor')
    <3>1. cursor \in Nat
      BY <1>n
    <3>2. Append(Beginning(cursor), cursor + 1) = Beginning(cursor + 1)
      BY <3>1, BeginningGrows
    <3>3. QED BY <2>1, <3>2
  <2>3. cursor # total
    BY <2>1, <1>n
  <2>4. SendsFromTheBeginning'
    BY <2>1, <2>2, <2>3, <1>i DEF SendsFromTheBeginning
  <2>5. LockedOnTheWay'
    BY <2>1, <1>i DEF LockedOnTheWay
  <2>6. GoodRequests' /\ GoodPieces'
    BY <2>1, <1>i DEF GoodRequests, GoodPieces, Good, Whole
  <2>7. QED BY <1>i, <2>1, <2>4, <2>5, <2>6 DEF WholeInv
<1>7. ASSUME Good(sent), body' = "answer", UNCHANGED <<input, pieces, sent>>,
             inflight' = inflight \cup {Request(node, "piece", sent)},
             LockedOnTheWay'
      PROVE  WholeInv'
  <2>1. \A content : Good(content)' <=> Good(content)
    BY <1>7 DEF Good, Whole
  <2>2. SendsFromTheBeginning'
    BY <1>7 DEF SendsFromTheBeginning
  <2>3. GoodRequests'
    BY <1>7, <1>i, <2>1, RequestParts DEF GoodRequests
  <2>4. GoodPieces'
    BY <1>7, <1>i, <2>1 DEF GoodPieces
  <2>5. QED BY <1>i, <1>7, <2>2, <2>3, <2>4 DEF WholeInv
<1>8. CASE FinishSending
  <2>1. /\ body = "sending" /\ body' = "answer" /\ locked' = FALSE
        /\ cursor = total \/ Len(sent) >= MaxPieceSize
        /\ inflight' = inflight \cup {Request(node, "piece", sent)}
        /\ UNCHANGED <<input, cursor, sent, pieces>>
    BY <1>8 DEF FinishSending
  <2>2. total <= MaxPieceSize /\ sent = Beginning(cursor) => cursor = total /\ sent = Whole
    BY <2>1, <1>n, <1>i, BeginningGrows DEF SendsFromTheBeginning, Beginning, Whole
  <2>3. Good(sent) /\ (ReadOnce => cursor = total)
    BY <2>1, <2>2, <1>i DEF SendsFromTheBeginning, Good
  <2>4. LockedOnTheWay'
    BY <2>1, <2>3 DEF LockedOnTheWay
  <2>5. QED BY <1>7, <2>1, <2>3, <2>4
<1>9. CASE OpenUnary
  <2>1. /\ kind = "unary" /\ body' = "answer" /\ sent' = Whole
        /\ inflight' = inflight \cup {Request(node, "piece", Whole)}
        /\ UNCHANGED <<input, pieces>>
    BY <1>9 DEF OpenUnary
  <2>2. Good(Whole)
    BY <2>1 DEF Good
  <2>3. QED
    BY <2>1, <2>2, <1>i, RequestParts
    DEF WholeInv, SendsFromTheBeginning, LockedOnTheWay, GoodRequests,
        GoodPieces, Good, Whole
<1>10. ASSUME NEW r \in inflight, NodeApplies(r) PROVE WholeInv'
  <2>1. /\ inflight' = inflight \ {r}
        /\ UNCHANGED <<input, body, cursor, sent, locked>>
    BY <1>10 DEF NodeApplies
  <2>2. SendsFromTheBeginning' /\ LockedOnTheWay' /\ GoodRequests'
    BY <2>1, <1>i DEF SendsFromTheBeginning, LockedOnTheWay, GoodRequests, Good, Whole
  <2>3. GoodPieces'
    <3>1. CASE r.what = "piece" /\ pieces' = [pieces EXCEPT ![r.node] = @ \cup {r.content}]
      BY <3>1, <2>1, <1>i
      DEF GoodPieces, GoodRequests, Good, Whole, StoreInv, Stores
    <3>2. CASE UNCHANGED pieces
      BY <3>2, <2>1, <1>i DEF GoodPieces, Good, Whole
    <3>3. QED BY <1>10, <3>1, <3>2 DEF NodeApplies
  <2>4. QED BY <1>i, <2>1, <2>2, <2>3 DEF WholeInv
<1>11. CASE PieceStored
  <2>1. CASE body' = "none" /\ UNCHANGED inflight
    BY <1>1, <1>11, <2>1 DEF PieceStored
  <2>2. CASE /\ body = "answer" /\ body' = "naming"
             /\ inflight' = inflight \cup {Request(node, "name", sent)}
    <3>1. UNCHANGED <<input, cursor, sent, locked, pieces>>
      BY <1>11 DEF PieceStored
    <3>2. QED
      BY <2>2, <3>1, <1>i, RequestParts
      DEF WholeInv, SendsFromTheBeginning, LockedOnTheWay, GoodRequests,
          GoodPieces, Good, Whole
  <2>3. QED BY <1>11, <2>1, <2>2 DEF PieceStored
<1>12. CASE Prefetch
  BY <1>12, <1>i
  DEF Prefetch, WholeInv, SendsFromTheBeginning, LockedOnTheWay, GoodRequests,
      GoodPieces, Good, Whole
<1>13. CASE Idle \/ UNCHANGED allVars
  BY <1>13, <1>i
  DEF Idle, allVars, WholeInv, SendsFromTheBeginning, LockedOnTheWay,
      GoodRequests, GoodPieces, Good, Whole
<1>14. QED
  BY <1>2, <1>3, <1>4, <1>5, <1>6, <1>8, <1>9, <1>10, <1>11, <1>12, <1>13
  DEF NextStore, ClientStep

(* For any number of nodes, attempts and chunks: bytes, and an iterable that
   fits a piece, are stored whole, and a content stream that fits one whole or
   empty, by whatever attempt and however late, whatever size is declared. *)
THEOREM NothingIsStoredInPart == StoreSpec => []NothingPartialIsStored
<1>1. GoodPieces => NothingPartialIsStored
  BY DEF GoodPieces, Good, NothingPartialIsStored, ReadAnewStoredWhole, NoPartialStream
<1>2. QED BY <1>1, StoreInvariant, WholeInit, WholeStep, PTL DEF StoreSpec, WholeInv

-----------------------------------------------------------------------------
(* Why the caller is told the truth: the answer it waits for is that of the
   last request of the attempt, and nothing is taken from a node again. *)
Told ==
    /\ body = "naming" => \/ Request(node, "name", sent) \in inflight
                          \/ sent \in records[node]
    /\ outcome.state = "fulfilled" =>
           /\ pc = "done" /\ node \in Eligible
           /\ sent \in pieces[node]
           /\ named => sent \in records[node]

LEMMA ToldStep ==
    StoreInv /\ Told /\ [NextStore]_allVars => Told'
<1> SUFFICES ASSUME StoreInv, Told, [NextStore]_allVars PROVE Told'
  OBVIOUS
<1> USE DEF input, client, servers, storeVars
<1>i. Calling /\ AskedIsEligible /\ Stores /\ RequestsTyped /\ AnswerMeansApplied
  BY DEF StoreInv
(* As long as the call is open nobody has been told. *)
<1>1. ASSUME body' # "naming", outcome'.state = "fulfilled" => outcome' = outcome,
             pc # "done"
      PROVE  Told'
  BY <1>1 DEF Told
<1>2. ASSUME NEW e, NodeFails(e), body' = "none" PROVE Told'
  <2>1. pc = "calling" /\ (outcome'.state = "fulfilled" => outcome' = outcome)
    BY <1>2 DEF NodeFails, AttemptThrows, Rejected
  <2>2. QED BY <1>1, <1>2, <2>1
<1>3. CASE OpenThrows \/ ReadThrows \/ (\E e : CallFails(e))
  BY <1>2, <1>3 DEF OpenThrows, ReadThrows, CallFails
<1>4. CASE ChooseNode
  <2>1. pc = "routing" /\ body' # "naming"
    BY <1>4, <1>i DEF ChooseNode, RouterSelects, RouterFails, Calling
  <2>2. outcome'.state = "fulfilled" => outcome' = outcome
    BY <1>4 DEF ChooseNode, RouterSelects, RouterFails, ReusePrevious, NobodyToAsk,
                AttemptThrows, Rejected
  <2>3. QED BY <1>1, <2>1, <2>2
<1>5. CASE NextAttempt
  BY <1>1, <1>5, <1>i DEF NextAttempt, Retry, Calling
<1>6. CASE OpenStream \/ OpenUnary \/ HeadersArrive \/ SendChunk \/ FinishSending
  <2>1. pc = "calling" /\ body' # "naming" /\ outcome' = outcome
    BY <1>6, <1>i
    DEF OpenStream, OpenUnary, HeadersArrive, SendChunk, FinishSending, Calling, vars
  <2>2. QED BY <1>1, <2>1
<1>7. CASE PieceStored
  <2>1. /\ body = "answer" /\ pc = "calling" /\ sent \in pieces[node]
        /\ node \in Eligible
        /\ UNCHANGED <<input, sent, pieces, records>>
    BY <1>7, <1>i DEF PieceStored, Calling, AskedIsEligible, AnswerMeansApplied
  <2>2. CASE /\ body' = "naming" /\ UNCHANGED vars
             /\ inflight' = inflight \cup {Request(node, "name", sent)}
    BY <2>1, <2>2 DEF Told, vars
  <2>3. CASE ~named /\ NodeSucceeds /\ body' = "none"
    BY <2>1, <2>3 DEF Told, NodeSucceeds
  <2>4. QED BY <1>7, <2>2, <2>3 DEF PieceStored
<1>8. CASE NameStored
  <2>1. /\ sent \in pieces[node] /\ sent \in records[node] /\ node \in Eligible
        /\ NodeSucceeds /\ body' = "none" /\ UNCHANGED <<input, sent, servers>>
    BY <1>8, <1>i DEF NameStored, AnswerMeansApplied, Calling, AskedIsEligible, Told
  <2>2. QED BY <2>1 DEF Told, NodeSucceeds
<1>9. ASSUME NEW r \in inflight, NodeApplies(r) PROVE Told'
  <2>1. /\ r.node \in Eligible
        /\ r = Request(r.node, r.what, r.content)
        /\ inflight' = inflight \ {r}
        /\ UNCHANGED <<pc, outcome, node, input, body, sent>>
    BY <1>9, <1>i DEF NodeApplies, RequestsTyped, vars
  <2>2. \A n \in Eligible : pieces[n] \subseteq pieces'[n] /\ records[n] \subseteq records'[n]
    BY <1>9, <2>1, <1>i DEF NodeApplies, Stores
  <2>3. r = Request(node, "name", sent) /\ body = "naming" => sent \in records'[node]
    BY <1>9, <2>1, <1>i, RequestParts DEF NodeApplies, Stores
  <2>4. body = "naming" => node \in Eligible
    BY <1>i DEF Calling, AskedIsEligible
  <2>5. body' = "naming" => \/ Request(node', "name", sent') \in inflight'
                            \/ sent' \in records'[node']
    BY <2>1, <2>2, <2>3, <2>4 DEF Told
  <2>6. QED BY <2>1, <2>2, <2>5 DEF Told
<1>10. CASE Prefetch \/ Idle \/ UNCHANGED allVars
  BY <1>10 DEF Prefetch, Idle, Settled, allVars, vars, Told
<1>11. QED BY <1>3, <1>4, <1>5, <1>6, <1>7, <1>8, <1>9, <1>10
           DEF NextStore, ClientStep

(* A store that resolves has stored the piece on the node asked last, and the
   name with it, after any failures on other nodes. *)
THEOREM FulfilledMeansStored == StoreSpec => []FulfilledIsStored
<1>1. InitStore => Told
  BY DEF InitStore, Init, Pending, Told
<1>2. Told => FulfilledIsStored
  BY DEF Told, FulfilledIsStored
<1>3. QED BY <1>1, <1>2, StoreInvariant, ToldStep, PTL DEF StoreSpec

-----------------------------------------------------------------------------
(* Reading, for any number of contents. *)

LEMMA BeginImplements == BeginAttempt => [Next]_vars
  BY DEF BeginAttempt, Proceed, Succeed, Next, Step

LEMMA ThrowImplements ==
    ASSUME NEW e \in RetryableErrors \cup FatalErrors, Throw(e)
    PROVE  Next
  BY DEF Throw, Next, Step

LEMMA ResolvedImplements ==
    ASSUME NEW c, Resolved(c)
    PROVE  [Next]_vars
<1>1. CASE Throw(NameUnknown)
  BY <1>1, ThrowImplements, ReadPieceAssumption
<1>2. CASE NodeSucceeds \/ UNCHANGED vars
  BY <1>2 DEF Next, Step
<1>3. QED BY <1>1, <1>2 DEF Resolved, Succeed, Proceed

(* Every step of the detailed client is a step of BalancedNode, or leaves its
   state alone. *)
LEMMA ReadStepImplements == NextRead => [Next]_vars
<1> SUFFICES ASSUME NextRead PROVE [Next]_vars
  OBVIOUS
<1>1. CASE ChooseReadNode \/ ReadAgain
  BY <1>1 DEF ChooseReadNode, ReadAgain, Next, Step
<1>2. CASE BeginAttempt
  BY <1>2, BeginImplements
<1>3. CASE RecordArrives
  BY <1>3, ResolvedImplements DEF RecordArrives
<1>4. CASE ContentArrives
  BY <1>4, ThrowImplements, ReadPieceAssumption
  DEF ContentArrives, Succeed, Next, Step
<1>5. ASSUME NEW e \in (RetryableErrors \cup FatalErrors) \ {NameUnknown, HashMismatch},
             ReadFails(e)
      PROVE  [Next]_vars
  BY <1>5, ResolvedImplements, ThrowImplements DEF ReadFails
<1>6. CASE NodeAnswers \/ (\E n \in Eligible : RecordChanges(n)) \/ ReadIdle
  BY <1>6 DEF NodeAnswers, RecordChanges, ReadIdle, Settled
<1>7. QED BY <1>1, <1>2, <1>3, <1>4, <1>5, <1>6 DEF NextRead, ReadStep

(* Reading implements BalancedNode, so all that is proved of an operation
   holds of it. *)
THEOREM ReadImplementsBalancedNode == ReadSpec => Spec
<1>1. InitRead => Init
  BY DEF InitRead
<1>2. [NextRead]_allReadVars => [Next]_vars
  BY ReadStepImplements DEF allReadVars
<1>3. QED BY <1>1, <1>2, PTL DEF ReadSpec, Spec

-----------------------------------------------------------------------------
ReadCalling == stage # "none" => pc = "calling"

Fetching == stage = "fetching" => /\ what \in {"piece", "node"}
                                  /\ ref # Name => cid = ref
                                  /\ ref = Name => cid \in seen

Resolving == stage = "resolving" => /\ ref = Name
                                    /\ recordOf[node] \in seen
                                    /\ answer # <<>> => answer[1] \in seen

RecordsAreNamed == what \in Operations /\ (what = "record" => ref = Name)

Answered == ContentFitsCid /\ NameIsOfTheAttempt /\ MissingIsMissing

ReadInv == ReadCalling /\ Fetching /\ Resolving /\ RecordsAreNamed /\ Answered

(* Until the promise is settled there is no answer to be wrong. *)
LEMMA PendingIsFine == outcome = Pending => Answered
  BY DEF Answered, ContentFitsCid, NameIsOfTheAttempt, MissingIsMissing, IsFulfilled,
         Pending, Rejected

LEMMA PendingUnlessDone == TypeInv /\ pc # "done" => outcome = Pending
  BY DEF TypeInv, TypeOK, DoneIsSettled, Pending, Fulfilled, Rejected

(* A step that leaves the operation to go on keeps Answered. *)
LEMMA GoingOnIsFine == TypeInv' /\ pc' # "done" => Answered'
<1>1. (TypeInv /\ pc # "done" => Answered)'
  BY PendingIsFine, PendingUnlessDone, PTL
<1>2. QED BY <1>1

(* What async-retry rejects with is one of the errors it collected, and none
   of those says that a name is unknown. *)
LEMMA GivingUpIsFine ==
    ASSUME NEW e \in RetryableErrors \cup RouterErrors,
           TypeInv, pc # "done", AttemptThrows(e), UNCHANGED attempt
    PROVE  /\ outcome'.state # "fulfilled"
           /\ outcome' # Rejected(NameUnknown)
<1>1. outcome = Pending
  BY PendingUnlessDone
<1>2. /\ errors' \in Seq(RetryableErrors \cup RouterErrors)
      /\ \/ outcome' = outcome
         \/ \E i \in DOMAIN errors' : outcome' = Rejected(errors'[i])
  BY AttemptThrowsType
<1>3. NameUnknown \notin RetryableErrors \cup RouterErrors
  BY ReadPieceAssumption, ErrorsAssumption DEF RouterErrors
<1>4. CASE outcome' = outcome
  BY <1>1, <1>4 DEF Pending, Rejected
<1>5. ASSUME NEW i \in DOMAIN errors', outcome' = Rejected(errors'[i])
      PROVE  outcome'.state # "fulfilled" /\ outcome' # Rejected(NameUnknown)
  <2>1. errors'[i] \in RetryableErrors \cup RouterErrors
    BY <1>2, ElementOfSeq, LenProperties
  <2>2. errors'[i] # NameUnknown
    BY <1>3, <2>1
  <2>3. QED BY <1>5, <2>2 DEF Rejected
<1>6. QED BY <1>2, <1>4, <1>5

(* What a promise is rejected with is what the attempt threw, or one of the
   errors that can be retried. *)
LEMMA RejectedWithIts ==
    ASSUME NEW e \in RetryableErrors \cup FatalErrors, TypeInv, NodeFails(e)
    PROVE  /\ outcome'.state # "fulfilled"
           /\ outcome' = Rejected(NameUnknown) => e = NameUnknown
<1>1. CASE e \in RetryableErrors /\ AttemptThrows(e)
  BY <1>1, GivingUpIsFine DEF NodeFails
<1>2. CASE outcome' = Rejected(e)
  BY <1>2 DEF Rejected
<1>3. QED BY <1>1, <1>2 DEF NodeFails

LEMMA NobodyIsFine ==
    ASSUME NEW e \in RouterErrors, TypeInv, pc # "done", NobodyToAsk(e)
    PROVE  /\ outcome'.state # "fulfilled"
           /\ outcome' # Rejected(NameUnknown)
<1>1. NoNodeError(lastOperationError, e) \in RetryableErrors \cup RouterErrors
  BY DEF TypeInv, TypeOK, NoNodeError
<1>2. AttemptThrows(NoNodeError(lastOperationError, e)) /\ UNCHANGED attempt
  BY DEF NobodyToAsk
<1> HIDE DEF NoNodeError
<1>3. QED BY <1>1, <1>2, GivingUpIsFine

(* An attempt that throws anything but NameUnknown keeps the invariant. *)
LEMMA ThrowKeeps ==
    ASSUME NEW e \in RetryableErrors \cup FatalErrors,
           TypeInv, ReadInv, Throw(e), UNCHANGED <<query, recordOf, writes, seen>>,
           e = NameUnknown => None \in seen
    PROVE  ReadInv'
<1>1. /\ outcome'.state # "fulfilled"
      /\ outcome' = Rejected(NameUnknown) => e = NameUnknown
  BY RejectedWithIts DEF Throw
<1>2. Answered'
  BY <1>1 DEF Answered, ContentFitsCid, NameIsOfTheAttempt, MissingIsMissing,
              IsFulfilled
<1>3. QED BY <1>2 DEF Throw, ReadInv, ReadCalling, Fetching, Resolving, RecordsAreNamed, query

LEMMA ResolvedKeeps ==
    ASSUME NEW c \in seen, TypeInv, TypeInv', ReadInv, stage = "resolving", Resolved(c),
           UNCHANGED <<query, recordOf, writes, seen>>
    PROVE  ReadInv'
<1> USE DEF ReadInv
<1>1. pc = "calling" /\ ref = Name
  BY DEF ReadCalling, Resolving
<1>2. CASE c = None /\ Throw(NameUnknown)
  BY <1>2, ThrowKeeps, ReadPieceAssumption
<1>3. ASSUME what \in {"record", "cid"}, Succeed(Result(c, Undefined)) PROVE ReadInv'
  <2>1. outcome' = Fulfilled /\ result' = Result(c, Undefined) /\ stage' = "none"
    BY <1>3 DEF Succeed, NodeSucceeds
  <2>2. result'.cid = c /\ what' = what /\ ref' = ref /\ seen' = seen
    BY <2>1 DEF Result, query
  <2>3. ContentFitsCid'
    BY <1>1, <1>3, <2>2 DEF ContentFitsCid
  <2>4. NameIsOfTheAttempt' /\ MissingIsMissing'
    BY <2>1, <2>2 DEF NameIsOfTheAttempt, MissingIsMissing, Fulfilled, Rejected
  <2>5. QED BY <2>1, <2>2, <2>3, <2>4
            DEF Answered, ReadCalling, Fetching, Resolving, RecordsAreNamed
<1>4. ASSUME what \in {"piece", "node"}, cid' = c, Proceed("fetching") PROVE ReadInv'
  <2>1. pc' = "calling" /\ stage' = "fetching" /\ UNCHANGED <<what, ref, seen>>
    BY <1>1, <1>4 DEF Proceed, vars, query
  <2>2. Answered'
    BY <2>1, GoingOnIsFine
  <2>3. QED BY <1>1, <1>4, <2>1, <2>2 DEF ReadCalling, Fetching, Resolving, RecordsAreNamed
<1>5. QED BY <1>2, <1>3, <1>4 DEF Resolved

LEMMA BeginKeeps ==
    ASSUME TypeInv, TypeInv', ReadInv, BeginAttempt
    PROVE  ReadInv'
<1> USE DEF ReadInv
<1>1. pc = "calling" /\ seen' = {recordOf[node]} /\ UNCHANGED <<what, ref, recordOf>>
  BY DEF BeginAttempt, query
<1>2. ASSUME ref = Name, Proceed("resolving") PROVE ReadInv'
  <2>1. pc' = "calling" /\ stage' = "resolving" /\ node' = node /\ answer' = <<>>
    BY <1>1, <1>2 DEF Proceed, vars
  <2>2. Answered'
    BY <2>1, GoingOnIsFine
  <2>3. QED BY <1>1, <1>2, <2>1, <2>2 DEF ReadCalling, Fetching, Resolving, RecordsAreNamed
<1>3. ASSUME ref # Name, what # "cid", cid' = ref, Proceed("fetching") PROVE ReadInv'
  <2>1. pc' = "calling" /\ stage' = "fetching"
    BY <1>1, <1>3 DEF Proceed, vars
  <2>2. what \in {"piece", "node"}
    BY <1>3 DEF RecordsAreNamed, Operations
  <2>3. Answered'
    BY <2>1, GoingOnIsFine
  <2>4. QED BY <1>1, <1>3, <2>1, <2>2, <2>3
            DEF ReadCalling, Fetching, Resolving, RecordsAreNamed
<1>4. ASSUME ref # Name, what = "cid", Succeed(Result(ref, Undefined)) PROVE ReadInv'
  <2>1. outcome' = Fulfilled /\ stage' = "none" /\ result'.cid = ref
    BY <1>4 DEF Succeed, NodeSucceeds, Result
  <2>2. Answered'
    BY <1>1, <1>4, <2>1
    DEF Answered, ContentFitsCid, NameIsOfTheAttempt, MissingIsMissing, Fulfilled, Rejected
  <2>3. QED BY <1>1, <2>1, <2>2 DEF ReadCalling, Fetching, Resolving, RecordsAreNamed
<1>5. QED BY <1>2, <1>3, <1>4 DEF BeginAttempt

LEMMA ContentKeeps ==
    ASSUME TypeInv, ReadInv, ContentArrives
    PROVE  ReadInv'
<1> USE DEF ReadInv
<1>1. /\ stage = "fetching" /\ what \in {"piece", "node"}
      /\ UNCHANGED <<query, what, ref, path, authenticate, recordOf, writes, seen>>
  BY DEF ContentArrives, Fetching, query
<1>2. ASSUME what = "piece" \/ Valid(answer[1]), Succeed(Result(cid, answer[1]))
      PROVE  ReadInv'
  <2>1. /\ outcome' = Fulfilled /\ stage' = "none"
        /\ result'.cid = cid /\ result'.content = answer[1]
    BY <1>2 DEF Succeed, NodeSucceeds, Result
  <2>2. ContentFitsCid' /\ NameIsOfTheAttempt'
    BY <1>1, <1>2, <2>1 DEF ContentFitsCid, NameIsOfTheAttempt, Fetching, Valid
  <2>3. MissingIsMissing'
    BY <1>1, <2>1 DEF MissingIsMissing, Fulfilled, Rejected
  <2>4. QED BY <1>1, <2>1, <2>2, <2>3
            DEF Answered, ReadCalling, Fetching, Resolving, RecordsAreNamed
<1>3. CASE Throw(HashMismatch)
  <2>1. HashMismatch \in RetryableErrors \cup FatalErrors /\ HashMismatch # NameUnknown
    BY ReadPieceAssumption
  <2>2. QED BY <1>1, <1>3, <2>1, ThrowKeeps
<1>4. QED BY <1>2, <1>3 DEF ContentArrives

LEMMA FailsKeeps ==
    ASSUME TypeInv, TypeInv', ReadInv,
           NEW e \in (RetryableErrors \cup FatalErrors) \ {NameUnknown, HashMismatch},
           ReadFails(e)
    PROVE  ReadInv'
<1>1. UNCHANGED <<query, recordOf, writes, seen>>
  BY DEF ReadFails
<1>2. CASE stage = "resolving" /\ IsNotFound(e) /\ Resolved(None)
  <2>1. None \in seen
    BY <1>2 DEF ReadFails, IsNotFound
  <2>2. QED BY <1>1, <1>2, <2>1, ResolvedKeeps
<1>3. CASE Throw(e)
  BY <1>1, <1>3, ThrowKeeps
<1>4. QED BY <1>2, <1>3 DEF ReadFails

LEMMA ChangeKeeps ==
    ASSUME TypeInv, ReadInv, NEW n \in Eligible, RecordChanges(n)
    PROVE  ReadInv'
<1>1. /\ UNCHANGED <<vars, query, stage, cid, answer, result>>
      /\ UNCHANGED <<what, ref, path, authenticate, pc, outcome, node>>
      /\ seen \subseteq seen'
      /\ stage # "none" => recordOf'[node] \in seen'
  BY DEF RecordChanges, vars, query
<1>2. Answered'
  BY <1>1 DEF ReadInv, Answered, ContentFitsCid, NameIsOfTheAttempt, MissingIsMissing,
              IsFulfilled
<1>3. QED BY <1>1, <1>2 DEF ReadInv, ReadCalling, Fetching, Resolving, RecordsAreNamed

LEMMA ReadInit == InitRead => ReadInv
<1>1. InitRead => Answered
  BY PendingIsFine DEF InitRead, Init
<1>2. QED BY <1>1 DEF InitRead, ReadInv, ReadCalling, Fetching, Resolving, RecordsAreNamed

LEMMA ReadInvNext ==
    ASSUME TypeInv, TypeInv', ReadInv, [NextRead]_allReadVars
    PROVE  ReadInv'
<1>1. CASE ChooseReadNode \/ ReadAgain
  <2>1. UNCHANGED readVars /\ stage = "none"
    <3>1. ChooseReadNode => pc = "routing"
      BY DEF ChooseReadNode, RouterSelects, RouterFails
    <3>2. ReadAgain => pc # "calling"
      BY DEF ReadAgain, Retry
    <3>3. QED BY <1>1, <3>1, <3>2 DEF ChooseReadNode, ReadAgain, ReadInv, ReadCalling
  <2>2. /\ UNCHANGED <<what, ref, path, authenticate, stage, cid, answer, result, seen>>
        /\ stage' = "none"
    BY <2>1 DEF readVars, query
  <2>3. Answered'
    <3>1. CASE pc' # "done"
      BY <3>1, GoingOnIsFine
    <3>2. ASSUME NEW e \in RouterErrors, RouterFails(e), NobodyToAsk(e) PROVE Answered'
      <4>1. outcome'.state # "fulfilled" /\ outcome' # Rejected(NameUnknown)
        BY <3>2, NobodyIsFine DEF RouterFails
      <4>2. QED BY <4>1 DEF Answered, ContentFitsCid, NameIsOfTheAttempt,
                            MissingIsMissing, IsFulfilled
    <3>3. pc' = "done" => \E e \in RouterErrors : RouterFails(e) /\ NobodyToAsk(e)
      BY <1>1 DEF ChooseReadNode, ReadAgain, Retry, RouterSelects, RouterFails,
                  ReusePrevious
    <3>4. QED BY <3>1, <3>2, <3>3
  <2>4. QED BY <2>2, <2>3 DEF ReadInv, ReadCalling, Fetching, Resolving, RecordsAreNamed
<1>2. CASE BeginAttempt
  BY <1>2, BeginKeeps
<1>3. CASE RecordArrives
  <2>1. answer[1] \in seen
    BY <1>3 DEF RecordArrives, ReadInv, Resolving
  <2>2. QED BY <1>3, <2>1, ResolvedKeeps DEF RecordArrives
<1>4. CASE ContentArrives
  BY <1>4, ContentKeeps
<1>5. ASSUME NEW e \in (RetryableErrors \cup FatalErrors) \ {NameUnknown, HashMismatch},
             ReadFails(e)
      PROVE  ReadInv'
  BY <1>5, FailsKeeps
<1>6. CASE NodeAnswers
  <2>1. /\ UNCHANGED <<vars, query, stage, cid, result, recordOf, writes, seen>>
        /\ UNCHANGED <<what, ref, path, authenticate, pc, outcome, node>>
        /\ stage = "resolving" => answer' = <<recordOf[node]>>
    BY <1>6 DEF NodeAnswers, vars, query
  <2>2. Answered'
    BY <2>1 DEF ReadInv, Answered, ContentFitsCid, NameIsOfTheAttempt,
                MissingIsMissing, IsFulfilled
  <2>3. QED BY <2>1, <2>2 DEF ReadInv, ReadCalling, Fetching, Resolving, RecordsAreNamed
<1>7. ASSUME NEW n \in Eligible, RecordChanges(n) PROVE ReadInv'
  BY <1>7, ChangeKeeps
<1>8. CASE ReadIdle \/ UNCHANGED allReadVars
  <2>1. UNCHANGED <<what, ref, path, authenticate, stage, cid, answer, result, recordOf,
                    seen, pc, outcome, node>>
    BY <1>8 DEF ReadIdle, Settled, allReadVars, readVars, vars, query
  <2>2. Answered'
    BY <2>1 DEF ReadInv, Answered, ContentFitsCid, NameIsOfTheAttempt,
                MissingIsMissing, IsFulfilled
  <2>3. QED BY <2>1, <2>2 DEF ReadInv, ReadCalling, Fetching, Resolving, RecordsAreNamed
<1>9. QED BY <1>1, <1>2, <1>3, <1>4, <1>5, <1>6, <1>7, <1>8 DEF NextRead, ReadStep

LEMMA ReadInvariant == ReadSpec => []ReadInv
<1>1. ReadSpec => []TypeInv
  BY ReadImplementsBalancedNode, TypeInvariant, PTL
<1>2. TypeInv /\ TypeInv' /\ ReadInv /\ [NextRead]_allReadVars => ReadInv'
  BY ReadInvNext
<1>3. InitRead => ReadInv
  BY ReadInit
<1>4. QED BY <1>1, <1>2, <1>3, PTL DEF ReadSpec

(* A validated DAG node is the node of its CID, whatever the nodes answer. *)
THEOREM ReadContentFits == ReadSpec => []ContentFitsCid
<1>1. ReadInv => ContentFitsCid
  BY DEF ReadInv, Answered
<1>2. QED BY <1>1, ReadInvariant, PTL

(* The CID of a response is one its own node had for the name during the
   attempt that read it. *)
THEOREM ReadNameIsOfTheAttempt == ReadSpec => []NameIsOfTheAttempt
<1>1. ReadInv => NameIsOfTheAttempt
  BY DEF ReadInv, Answered
<1>2. QED BY <1>1, ReadInvariant, PTL

(* Nothing but a node without a record is reported as a missing name. *)
THEOREM ReadMissingIsMissing == ReadSpec => []MissingIsMissing
<1>1. ReadInv => MissingIsMissing
  BY DEF ReadInv, Answered
<1>2. QED BY <1>1, ReadInvariant, PTL
-----------------------------------------------------------------------------
(* Inductive with ReadInv and the type invariant of BalancedNode: a node is
   being called only if the router or the exclusion list gave it. *)
ReadTypes == ReadTypeOK /\ (pc = "calling" => node \in Eligible)

LEMMA CalledIsEligible ==
    ASSUME TypeInv, pc = "calling" => node \in Eligible, [Next]_vars
    PROVE  (pc = "calling" => node \in Eligible)'
<1>1. ASSUME NEW n \in Eligible, RouterSelects(n) PROVE node' \in Eligible
  BY <1>1 DEF RouterSelects
<1>2. ASSUME NEW e \in RouterErrors, RouterFails(e), pc' = "calling"
      PROVE  node' \in Eligible
  <2>1. exclude # <<>> /\ node' = Last(exclude) /\ exclude \in Seq(Eligible)
    BY <1>2 DEF RouterFails, ReusePrevious, NobodyToAsk, AttemptThrows, TypeInv, TypeOK
  <2>2. exclude[Len(exclude)] \in Eligible
    BY <2>1
  <2>3. QED BY <2>1, <2>2 DEF Last
<1>3. CASE UNCHANGED vars \/ NodeSucceeds \/ Retry
  BY <1>3 DEF vars, NodeSucceeds, Retry
<1>4. ASSUME NEW e, NodeFails(e) PROVE pc' # "calling"
  BY <1>4 DEF NodeFails, AttemptThrows
<1>5. QED BY <1>1, <1>2, <1>3, <1>4 DEF Next, Step, Settled

LEMMA ResolvedTypes ==
    ASSUME ReadTypes, NEW c \in Contents \cup {None}, Resolved(c), stage = "resolving",
           UNCHANGED <<query, recordOf, writes, seen>>,
           (pc = "calling" => node \in Eligible)'
    PROVE  ReadTypeOK'
<1>1. /\ cid' \in Contents \cup {None}
      /\ answer' = <<>>
      /\ result' \in [cid : Contents \cup {None}, content : Contents \cup {None, Undefined}]
      /\ \/ stage' = "none"
         \/ stage' = "fetching" /\ UNCHANGED vars
  BY DEF Resolved, Succeed, Throw, Proceed, Result, ReadTypes, ReadTypeOK
<1>2. QED BY <1>1 DEF ReadTypes, ReadTypeOK, query, vars

LEMMA ReadTypesStep ==
    ASSUME TypeInv, ReadInv, ReadTypes, [NextRead]_allReadVars
    PROVE  ReadTypes'
<1>c. (pc = "calling" => node \in Eligible)'
  BY ReadStepImplements, CalledIsEligible DEF ReadTypes, allReadVars
<1> SUFFICES ReadTypeOK'
  BY <1>c DEF ReadTypes
<1>1. CASE ChooseReadNode \/ ReadAgain
  <2>1. stage = "none"
    BY <1>1 DEF ChooseReadNode, ReadAgain, RouterSelects, RouterFails, Retry, ReadTypes,
                ReadTypeOK
  <2>2. QED BY <1>1, <2>1 DEF ChooseReadNode, ReadAgain, readVars, query, ReadTypes, ReadTypeOK
<1>2. CASE BeginAttempt
  <2>1. /\ cid' \in Contents \cup {None}
        /\ answer' = <<>>
        /\ result' \in [cid : Contents \cup {None}, content : Contents \cup {None, Undefined}]
        /\ \/ stage' = "none"
           \/ stage' \in {"resolving", "fetching"} /\ UNCHANGED vars
    BY <1>2 DEF BeginAttempt, Succeed, Proceed, Result, ReadTypes, ReadTypeOK
  <2>2. pc = "calling" /\ seen' \subseteq Contents \cup {None}
    BY <1>2 DEF BeginAttempt, ReadTypes, ReadTypeOK
  <2>3. QED BY <1>2, <1>c, <2>1, <2>2 DEF BeginAttempt, ReadTypes, ReadTypeOK, query, vars
<1>3. CASE RecordArrives
  <2>1. answer[1] \in Contents \cup {None}
    BY <1>3 DEF RecordArrives, ReadInv, Resolving, ReadTypes, ReadTypeOK
  <2>2. QED BY <1>3, <1>c, <2>1, ResolvedTypes DEF RecordArrives
<1>4. CASE ContentArrives
  <2>1. /\ answer[1] \in Contents \cup {None, Undefined}
        /\ cid \in Contents \cup {None}
    BY <1>4 DEF ContentArrives, ReadTypes, ReadTypeOK
  <2>2. /\ cid' = cid /\ answer' = <<>> /\ stage' = "none"
        /\ result' \in [cid : Contents \cup {None}, content : Contents \cup {None, Undefined}]
    BY <1>4, <2>1 DEF ContentArrives, Succeed, Throw, Result, ReadTypes, ReadTypeOK
  <2>3. QED BY <1>4, <2>2 DEF ContentArrives, ReadTypes, ReadTypeOK, query
<1>5. ASSUME NEW e \in (RetryableErrors \cup FatalErrors) \ {NameUnknown, HashMismatch},
             ReadFails(e)
      PROVE  ReadTypeOK'
  <2>1. CASE stage = "resolving" /\ Resolved(None)
    BY <1>5, <1>c, <2>1, ResolvedTypes DEF ReadFails
  <2>2. CASE Throw(e)
    BY <1>5, <2>2 DEF ReadFails, Throw, ReadTypes, ReadTypeOK, query
  <2>3. QED BY <1>5, <2>1, <2>2 DEF ReadFails
<1>6. CASE NodeAnswers
  <2>1. answer' \in {<<c>> : c \in Contents \cup {None, Undefined}}
    BY <1>6 DEF NodeAnswers, ReadTypes, ReadTypeOK
  <2>2. QED BY <1>6, <2>1 DEF NodeAnswers, ReadTypes, ReadTypeOK, query, vars
<1>7. ASSUME NEW n \in Eligible, RecordChanges(n) PROVE ReadTypeOK'
  <2>1. recordOf' \in [Eligible -> Contents \cup {None}] /\ writes' \in Nat
    BY <1>7 DEF RecordChanges, ReadTypes, ReadTypeOK
  <2>2. seen' \subseteq Contents \cup {None}
    BY <1>7, <2>1 DEF RecordChanges, ReadTypes, ReadTypeOK
  <2>3. QED BY <1>7, <2>1, <2>2 DEF RecordChanges, ReadTypes, ReadTypeOK, query, vars
<1>8. CASE ReadIdle \/ UNCHANGED allReadVars
  BY <1>8 DEF ReadIdle, Settled, allReadVars, readVars, query, vars, ReadTypes, ReadTypeOK
<1>9. QED BY <1>1, <1>2, <1>3, <1>4, <1>5, <1>6, <1>7, <1>8 DEF NextRead, ReadStep

(* The type invariant of a read, its name resolution and its nodes. *)
THEOREM ReadTypeCorrect == ReadSpec => []ReadTypeOK
<1>1. InitRead => ReadTypes
  BY DEF InitRead, Init, ReadTypes, ReadTypeOK, Result, Nothing
<1>2. TypeInv /\ ReadInv /\ ReadTypes /\ [NextRead]_allReadVars => ReadTypes'
  BY ReadTypesStep
<1>3. ReadTypes => ReadTypeOK
  BY DEF ReadTypes
<1>4. ReadSpec => []TypeInv
  BY ReadImplementsBalancedNode, TypeInvariant, PTL
<1>5. QED BY <1>1, <1>2, <1>3, <1>4, ReadInvariant, PTL DEF ReadSpec
-----------------------------------------------------------------------------
(* Why a read comes to an end: a name is resolved once in an attempt. *)
ReadStepsLeft ==
    (CASE stage = "none" -> 4 [] stage = "resolving" -> 2 [] OTHER -> 0)
    + (IF answer = <<>> THEN 1 ELSE 0)

ReadRunsOut ==
    \/ StepsLeft' < StepsLeft
    \/ StepsLeft' = StepsLeft /\ ReadStepsLeft' < ReadStepsLeft

LEMMA ReadStepIsProgress ==
    ASSUME TypeInv, ReadInv, [NextRead]_allReadVars
    PROVE  UNCHANGED <<vars, stage, cid, answer, result>> \/ ReadRunsOut
<1>1. CASE UNCHANGED vars
  <2>s. StepsLeft' = StepsLeft
    BY <1>1 DEF vars, StepsLeft
  <2>p. UNCHANGED <<pc, attempt>>
    BY <1>1 DEF vars
  <2>1. ASSUME NEW r PROVE ~Succeed(r)
    BY <2>p DEF Succeed, NodeSucceeds
  <2>2. ASSUME NEW e PROVE ~Throw(e)
    BY <2>p DEF Throw, NodeFails, AttemptThrows
  <2>3. ASSUME NEW c, Resolved(c) PROVE stage' = "fetching"
    BY <2>1, <2>2, <2>3 DEF Resolved, Proceed
  <2>4. CASE BeginAttempt
    <3>1. ReadStepsLeft' < ReadStepsLeft
      BY <2>1, <2>4 DEF BeginAttempt, Proceed, ReadStepsLeft
    <3>2. QED BY <2>s, <3>1 DEF ReadRunsOut
  <2>5. CASE NodeAnswers
    <3>1. ReadStepsLeft' < ReadStepsLeft
      BY <2>5 DEF NodeAnswers, ReadStepsLeft
    <3>2. QED BY <2>s, <3>1 DEF ReadRunsOut
  <2>6. CASE RecordArrives
    <3>1. stage = "resolving" /\ answer # <<>> /\ stage' = "fetching"
      BY <2>3, <2>6 DEF RecordArrives
    <3>2. ReadStepsLeft' < ReadStepsLeft
      BY <3>1 DEF ReadStepsLeft
    <3>3. QED BY <2>s, <3>2 DEF ReadRunsOut
  <2>7. ~ContentArrives
    BY <2>1, <2>2 DEF ContentArrives
  <2>8. ASSUME NEW e PROVE ~ReadFails(e)
    BY <2>1, <2>2 DEF ReadFails, Resolved
  <2>9. ~ChooseReadNode
    BY <2>p DEF ChooseReadNode, RouterSelects, RouterFails, ReusePrevious,
                NobodyToAsk, AttemptThrows
  <2>10. ~ReadAgain
    BY <2>p DEF ReadAgain, Retry
  <2>11. CASE (\E n \in Eligible : RecordChanges(n)) \/ ReadIdle \/ UNCHANGED allReadVars
    BY <1>1, <2>11 DEF RecordChanges, ReadIdle, allReadVars, readVars
  <2>12. QED BY <2>4, <2>5, <2>6, <2>7, <2>8, <2>9, <2>10, <2>11 DEF NextRead, ReadStep
<1>2. CASE ~UNCHANGED vars
  <2>1. [Next]_vars
    BY ReadStepImplements DEF allReadVars
  <2>2. QED BY <1>2, <2>1, StepIsProgress DEF ReadRunsOut
<1>3. QED BY <1>1, <1>2

(* The safety half of termination for a read: every step of the client, and
   every answer of a node, brings the attempt or the operation nearer to its
   end, however often the record of the name changes meanwhile; no read goes
   back to resolving a name in the same attempt. *)
THEOREM ReadsRunOut ==
    ReadSpec => /\ [](StepsLeft \in Nat /\ ReadStepsLeft \in Nat)
                /\ [][ReadRunsOut]_<<vars, stage, cid, answer, result>>
<1>1. TypeInv => StepsLeft \in Nat /\ ReadStepsLeft \in Nat
  BY StepsLeftIsNat DEF ReadStepsLeft
<1>2. TypeInv /\ ReadInv /\ [NextRead]_allReadVars
        => [ReadRunsOut]_<<vars, stage, cid, answer, result>>
  BY ReadStepIsProgress
<1>3. ReadSpec => []TypeInv
  BY ReadImplementsBalancedNode, TypeInvariant, PTL
<1>4. QED BY <1>1, <1>2, <1>3, ReadInvariant, PTL DEF ReadSpec
=============================================================================
