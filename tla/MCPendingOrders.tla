---------------------------- MODULE MCPendingOrders ----------------------------
(* PendingOrders for TLC: two worker threads are interchangeable.           *)
EXTENDS PendingOrders, TLC

ThreadSymmetry == Permutations(Threads)

=============================================================================
