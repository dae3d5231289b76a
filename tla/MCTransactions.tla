--------------------------- MODULE MCTransactions ---------------------------
(* A small instance of Transactions for TLC: deposits, the removal of one of
   two buckets and of both, and a batchAll of both.  One of them has the id 0. *)
EXTENDS Transactions

b1 == 1
b2 == 0

MCRequests ==
    {Deposit(TRUE), Deposit(FALSE),
     removeBuckets(<<b1>>),
     removeBuckets(<<b1, b2>>),
     Calls("batchAll", <<removeBucket(b1), removeBucket(b2)>>)}
=============================================================================
