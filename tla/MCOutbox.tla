------------------------------ MODULE MCOutbox ------------------------------
(* Small instances of the outbox: two threads are interchangeable.         *)
EXTENDS OutboxDispatch, TLC

ThreadSymmetry == Permutations(Threads)
=============================================================================
